----------------------- MODULE ClusterRollout_proofs -----------------------
(***************************************************************************)
(* A rollout replaces one pod at a time and keeps a copy of every shard,   *)
(* for any number of shards, replicas and edits.                           *)
(*                                                                         *)
(* SerialInv: a status and its cached copy that say a shard is settled are *)
(* right, so the shards roll in order, and a shard's pods from the top.    *)
(* CopyInv: only the pod at the partition lacks a copy, and the gather     *)
(* that lets the gate down still describes the pods that are ready.        *)
(***************************************************************************)
EXTENDS ClusterRollout, FiniteSetTheorems, TLAPS

STS == [tmpl : Templates, part : Ordinals, gen : Nat, obs : Nat, upd : Templates,
        cur : Templates, updated : Nat, ready : Nat]
Pod == [rev : Templates, proc : {"running", "terminating", "absent"}, ready : BOOLEAN,
        data : BOOLEAN, redis : {"owner", "replica", "empty", "down"}, synced : BOOLEAN]
Seen == [redis : {"owner", "replica", "empty", "down"}, synced : BOOLEAN]

TypeOK ==
    /\ desired \in Templates /\ edits \in Nat
    /\ sts \in [Shards -> STS] /\ cache \in [Shards -> STS]
    /\ pod \in [Shards -> [Ordinals -> Pod]]
    /\ op.pc \in {"apply", "gather", "advance", "repair"} /\ op.k \in Shards
    /\ op.pc \in {"advance", "repair"} => op.gt \in [Shards -> [Ordinals -> Seen]]

\* No pod of shard k is or will be replaced.
Quiet(k) == \A o \in Ordinals : pod[k][o].ready /\ pod[k][o].rev = sts[k].tmpl

\* What a status says of the pods is true, and stays true in the cache.
Status(k) ==
    /\ sts[k].obs =< sts[k].gen
    /\ sts[k].obs = sts[k].gen => sts[k].upd = sts[k].tmpl
    /\ sts[k].obs = sts[k].gen /\ sts[k].updated = want /\ sts[k].ready = want => Quiet(k)
    /\ cache[k].tmpl = desired /\ statefulSetRolloutSettled(cache[k]) =>
          sts[k].tmpl = desired /\ Quiet(k)

\* One shard rolls; those before it are done, those after it wait.
Turns ==
    /\ \A k, j \in Shards : ~Quiet(k) =>
          /\ j # k => Quiet(j)
          /\ j =< k => sts[j].tmpl = desired
    /\ op.pc = "apply" => \A j \in Shards : j < op.k => sts[j].tmpl = desired /\ Quiet(j)

\* In that shard one pod is replaced; those above it have been.
TopDown == \A k \in Shards, o \in Ordinals :
    /\ pod[k][o].ready => pod[k][o].proc = "running"
    /\ ~pod[k][o].ready => \A h \in Ordinals : h > o => pod[k][h].ready /\ pod[k][h].rev = sts[k].tmpl

SerialInv == TypeOK /\ (\A k \in Shards : Status(k)) /\ Turns /\ TopDown

Copy(k, o) == pod[k][o].redis = "owner" \/ pod[k][o].synced

\* Only the pod at the partition is replaced, or without a copy.
Cursor(k) ==
    /\ \A h \in Ordinals : h # sts[k].part => pod[k][h].ready /\ Copy(k, h)
    /\ \A h \in Ordinals : h < sts[k].part => pod[k][h].rev # sts[k].tmpl
    /\ \A h \in Ordinals : h > sts[k].part => pod[k][h].rev = sts[k].tmpl
    /\ sts[k].tmpl # desired => \A h \in Ordinals : Copy(k, h)

\* One pod owns the slots, and whoever counts as a copy is one.
Owned(k) ==
    /\ \E w \in Ordinals : pod[k][w].redis = "owner"
    /\ \A w, v \in Ordinals : pod[k][w].redis = "owner" /\ pod[k][v].redis = "owner" => w = v
    /\ \A o \in Ordinals :
          /\ Copy(k, o) => pod[k][o].data
          /\ ~pod[k][o].ready /\ pod[k][o].proc # "terminating" => pod[k][o].redis = "down"

\* The gather saw an owner, and what it saw of a pod that is ready still holds.
Gathered ==
    /\ op.pc \in {"advance", "repair"} =>
          \A k \in Shards : \E w \in Ordinals : op.gt[k][w].redis = "owner"
    /\ op.pc = "advance" => \A k \in Shards, o \in Ordinals :
          op.gt[k][o].redis = "replica" /\ op.gt[k][o].synced /\ pod[k][o].ready => Copy(k, o)

CopyInv == (\A k \in Shards : Cursor(k) /\ Owned(k)) /\ Gathered

----------------------------------------------------------------------------

LEMMA Constants ==
    /\ RPS \in Nat /\ RPS >= 1 /\ NShards \in Nat /\ want = RPS + 1
    /\ 0 \in Shards /\ Shards \subseteq Nat /\ Ordinals \subseteq Nat
    /\ \A n \in Nat : n \in Ordinals <=> n =< RPS
    /\ Hasty \in BOOLEAN /\ Prompt \in BOOLEAN
BY RolloutConstants DEF Shards, Ordinals, want

\* The counters of a status are numbers, and want of want pods is all of them.
LEMMA Counted ==
    ASSUME NEW S, S \subseteq Ordinals
    PROVE  Cardinality(S) \in Nat /\ (Cardinality(S) = want => S = Ordinals)
<1>1. IsFiniteSet(Ordinals) /\ Cardinality(Ordinals) = want
  BY FS_Interval, Constants DEF Ordinals, want
<1>2. IsFiniteSet(S) /\ (Cardinality(S) = want => S = Ordinals)
  BY <1>1, FS_Subset
<1> QED
  BY <1>2, FS_CardinalityType

----------------------------------------------------------------------------
(* What each step does to the pods, field by field.                        *)

\* A step that writes pod p over pod o of shard k.
Writes(k, o, p) == pod' = [pod EXCEPT ![k][o] = p]

LEMMA Written ==
    ASSUME TypeOK, NEW k \in Shards, NEW o \in Ordinals, NEW p \in Pod, Writes(k, o, p)
    PROVE  /\ pod' \in [Shards -> [Ordinals -> Pod]]
           /\ pod'[k][o] = p
           /\ \A j \in Shards, h \in Ordinals : j # k \/ h # o => pod'[j][h] = pod[j][h]
<1>1. pod \in [Shards -> [Ordinals -> Pod]]
  BY DEF TypeOK
<1> QED
  BY <1>1 DEF Writes

LEMMA DeleteWrites ==
    ASSUME TypeOK, NEW k \in Shards, NEW o \in Ordinals, DeleteOutdated(k, o)
    PROVE  LET p == [pod[k][o] EXCEPT !.proc = "terminating", !.ready = FALSE]
           IN  p \in Pod /\ Writes(k, o, p)
<1>1. pod \in [Shards -> [Ordinals -> Pod]] /\ pod[k][o] \in Pod
  BY DEF TypeOK
<1>2. [pod[k][o] EXCEPT !.proc = "terminating", !.ready = FALSE] \in Pod
  BY <1>1 DEF Pod
<1>3. pod' = [pod EXCEPT ![k][o].proc = "terminating", ![k][o].ready = FALSE]
  BY DEF DeleteOutdated
<1> QED
  BY <1>1, <1>2, <1>3 DEF Writes

LEMMA TerminateWrites ==
    ASSUME TypeOK, NEW k \in Shards, NEW o \in Ordinals, Terminate(k, o)
    PROVE  LET p == [pod[k][o] EXCEPT !.proc = "absent", !.redis = "down", !.synced = FALSE, !.data = FALSE]
           IN  p \in Pod /\ Writes(k, o, p)
<1>1. pod \in [Shards -> [Ordinals -> Pod]] /\ pod[k][o] \in Pod
  BY DEF TypeOK
<1>2. [pod[k][o] EXCEPT !.proc = "absent", !.redis = "down", !.synced = FALSE, !.data = FALSE] \in Pod
  BY <1>1 DEF Pod
<1> QED
  BY <1>2 DEF Terminate, Writes

LEMMA CreateWrites ==
    ASSUME TypeOK, NEW k \in Shards, NEW o \in Ordinals, CreatePod(k, o)
    PROVE  LET r == IF o < sts[k].part THEN sts[k].cur ELSE sts[k].tmpl
               p == [pod[k][o] EXCEPT !.proc = "running", !.rev = r]
           IN  r \in Templates /\ p \in Pod /\ Writes(k, o, p)
<1> DEFINE r == IF o < sts[k].part THEN sts[k].cur ELSE sts[k].tmpl
<1>1. pod \in [Shards -> [Ordinals -> Pod]] /\ pod[k][o] \in Pod /\ sts[k] \in STS
  BY DEF TypeOK
<1>2. r \in Templates
  BY <1>1 DEF STS
<1>3. pod' = [pod EXCEPT ![k][o].proc = "running", ![k][o].rev = r]
  BY DEF CreatePod
<1> HIDE DEF r
<1>4. [pod[k][o] EXCEPT !.proc = "running", !.rev = r] \in Pod
  BY <1>1, <1>2 DEF Pod
<1>5. Writes(k, o, [pod[k][o] EXCEPT !.proc = "running", !.rev = r])
  BY <1>1, <1>3 DEF Writes
<1> QED
  BY <1>2, <1>4, <1>5 DEF r

LEMMA ReadyWrites ==
    ASSUME TypeOK, NEW k \in Shards, NEW o \in Ordinals, BecomeReady(k, o)
    PROVE  LET p == [pod[k][o] EXCEPT !.ready = TRUE, !.redis = "empty"]
           IN  p \in Pod /\ Writes(k, o, p)
<1>1. pod \in [Shards -> [Ordinals -> Pod]] /\ pod[k][o] \in Pod
  BY DEF TypeOK
<1>2. [pod[k][o] EXCEPT !.ready = TRUE, !.redis = "empty"] \in Pod
  BY <1>1 DEF Pod
<1>3. pod' = [pod EXCEPT ![k][o].ready = TRUE, ![k][o].redis = "empty"]
  BY DEF BecomeReady
<1> QED
  BY <1>1, <1>2, <1>3 DEF Writes

LEMMA SyncWrites ==
    ASSUME TypeOK, NEW k \in Shards, NEW o \in Ordinals, FullSync(k, o)
    PROVE  \E w \in Ordinals :
              LET p == [pod[k][o] EXCEPT !.synced = TRUE, !.data = pod[k][w].data]
              IN  pod[k][w].redis = "owner" /\ p \in Pod /\ Writes(k, o, p)
<1>1. PICK w \in Ordinals : /\ pod[k][w].redis = "owner"
                            /\ pod' = [pod EXCEPT ![k][o].synced = TRUE, ![k][o].data = pod[k][w].data]
  BY DEF FullSync
<1>2. pod \in [Shards -> [Ordinals -> Pod]] /\ pod[k][o] \in Pod /\ pod[k][w].data \in BOOLEAN
  BY DEF TypeOK, Pod
<1>3. [pod[k][o] EXCEPT !.synced = TRUE, !.data = pod[k][w].data] \in Pod
  BY <1>2 DEF Pod
<1>4. Writes(k, o, [pod[k][o] EXCEPT !.synced = TRUE, !.data = pod[k][w].data])
  BY <1>1, <1>2 DEF Writes
<1> QED
  BY <1>1, <1>3, <1>4

Kept(p, q) == p.rev = q.rev /\ p.proc = q.proc /\ p.ready = q.ready /\ p.data = q.data

LEMMA HandOverWrites ==
    ASSUME TypeOK, NEW k \in Shards, NEW o \in Ordinals, NEW r \in Ordinals, r # o, HandOver(k, o, r),
           NEW j \in Shards, NEW h \in Ordinals
    PROVE  /\ pod' \in [Shards -> [Ordinals -> Pod]]
           /\ pod'[k][o].redis = "replica" /\ pod'[k][o].synced = TRUE
           /\ pod'[k][r].redis = "owner" /\ pod'[k][r].synced = FALSE
           /\ Kept(pod'[j][h], pod[j][h])
<1> DEFINE p == [pod[k][o] EXCEPT !.redis = "replica", !.synced = TRUE]
           q == [pod[k][r] EXCEPT !.redis = "owner", !.synced = FALSE]
<1>1. pod \in [Shards -> [Ordinals -> Pod]] /\ pod[k][o] \in Pod /\ pod[k][r] \in Pod
  BY DEF TypeOK
<1>2. p \in Pod /\ q \in Pod
  BY <1>1 DEF Pod
<1>3. pod' = [pod EXCEPT ![k][r].redis = "owner", ![k][r].synced = FALSE,
                         ![k][o].redis = "replica", ![k][o].synced = TRUE]
  BY DEF HandOver
<1>4. pod' = [pod EXCEPT ![k] = [pod[k] EXCEPT ![r] = q, ![o] = p]]
  BY <1>1, <1>3
<1>5. /\ p.redis = "replica" /\ p.synced = TRUE /\ p.rev = pod[k][o].rev /\ p.proc = pod[k][o].proc
      /\ p.ready = pod[k][o].ready /\ p.data = pod[k][o].data
  BY <1>1 DEF Pod
<1>6. /\ q.redis = "owner" /\ q.synced = FALSE /\ q.rev = pod[k][r].rev /\ q.proc = pod[k][r].proc
      /\ q.ready = pod[k][r].ready /\ q.data = pod[k][r].data
  BY <1>1 DEF Pod
<1> HIDE DEF p, q
<1>7. /\ pod' \in [Shards -> [Ordinals -> Pod]] /\ pod'[k][o] = p /\ pod'[k][r] = q
      /\ (j = k /\ h = o) \/ (j = k /\ h = r) \/ pod'[j][h] = pod[j][h]
  BY <1>1, <1>2, <1>4
<1> QED
  BY <1>5, <1>6, <1>7 DEF Kept

LEMMA RepairWrites ==
    ASSUME TypeOK, Repair
    PROVE  /\ pod' \in [Shards -> [Ordinals -> Pod]]
           /\ \A k \in Shards, o \in Ordinals :
                 \/ pod'[k][o] = pod[k][o]
                 \/ /\ pod[k][o].redis = "empty"
                    /\ \/ /\ \E w \in Ordinals : op.gt[k][w].redis = "owner"
                          /\ pod'[k][o] = [pod[k][o] EXCEPT !.redis = "replica"]
                       \/ /\ ~ \E w \in Ordinals : op.gt[k][w].redis = "owner"
                          /\ pod'[k][o] = [pod[k][o] EXCEPT !.redis = "owner"]
<1> DEFINE owned(k) == \E w \in Ordinals : op.gt[k][w].redis = "owner"
           fix(k, o) == IF pod[k][o].redis # "empty" \/ op.gt[k][o].redis # "empty" THEN pod[k][o]
                        ELSE IF owned(k) THEN [pod[k][o] EXCEPT !.redis = "replica"]
                        ELSE IF o = 0 THEN [pod[k][o] EXCEPT !.redis = "owner"] ELSE pod[k][o]
<1>1. pod' = [k \in Shards |-> [o \in Ordinals |-> fix(k, o)]]
  BY DEF Repair
<1>2. ASSUME NEW k \in Shards, NEW o \in Ordinals
      PROVE  /\ pod[k][o] \in Pod
             /\ [pod[k][o] EXCEPT !.redis = "replica"] \in Pod
             /\ [pod[k][o] EXCEPT !.redis = "owner"] \in Pod
  <2>1. pod[k][o] \in Pod
    BY DEF TypeOK
  <2> QED
    BY <2>1 DEF Pod
<1>3. ASSUME NEW k \in Shards, NEW o \in Ordinals PROVE fix(k, o) \in Pod
  BY <1>2
<1>4. ASSUME NEW k \in Shards, NEW o \in Ordinals
      PROVE  \/ fix(k, o) = pod[k][o]
             \/ /\ pod[k][o].redis = "empty"
                /\ \/ owned(k) /\ fix(k, o) = [pod[k][o] EXCEPT !.redis = "replica"]
                   \/ ~owned(k) /\ fix(k, o) = [pod[k][o] EXCEPT !.redis = "owner"]
  OBVIOUS
<1> HIDE DEF fix
<1>5. pod' \in [Shards -> [Ordinals -> Pod]]
  BY <1>1, <1>3
<1>6. ASSUME NEW k \in Shards, NEW o \in Ordinals PROVE pod'[k][o] = fix(k, o)
  BY <1>1
<1> QED
  BY <1>4, <1>5, <1>6

\* The operator writes one StatefulSet: a template with the gate at the top,
\* or, at the template, another gate.
LEMMA AppliedType ==
    ASSUME TypeOK, NEW s \in STS, NEW part \in Ordinals
    PROVE  /\ Applied(s, part) \in STS
           /\ Applied(s, part).tmpl = desired /\ Applied(s, part).part = part
           /\ Applied(s, part).obs = s.obs /\ Applied(s, part).upd = s.upd /\ Applied(s, part).cur = s.cur
           /\ Applied(s, part).updated = s.updated /\ Applied(s, part).ready = s.ready
           /\ Applied(s, part).gen = IF s.tmpl # desired \/ s.part # part THEN s.gen + 1 ELSE s.gen
<1> DEFINE g == IF s.tmpl # desired \/ s.part # part THEN s.gen + 1 ELSE s.gen
<1>1. desired \in Templates /\ s.gen \in Nat /\ g \in Nat
  BY DEF TypeOK, STS
<1>2. Applied(s, part) = [s EXCEPT !.tmpl = desired, !.part = part, !.gen = g]
  BY DEF Applied
<1> HIDE DEF g
<1>3. [s EXCEPT !.tmpl = desired, !.part = part, !.gen = g] \in STS
  BY <1>1 DEF STS
<1> QED
  BY <1>2, <1>3 DEF STS, g

LEMMA ApplyWrites ==
    ASSUME TypeOK, ReconcileStatefulSet
    PROVE  /\ op.k \in Shards /\ sts[op.k] \in STS /\ cache[op.k] \in STS
           /\ \/ /\ sts[op.k].tmpl # desired
                 /\ sts' = [sts EXCEPT ![op.k] = Applied(sts[op.k], RPS)]
                 /\ op' = At("gather", 0, <<>>)
              \/ /\ \/ cache[op.k].tmpl = desired /\ statefulSetRolloutSettled(cache[op.k])
                    \/ sts[op.k].tmpl = desired /\ statefulSetRolloutSettled(sts[op.k])
                 /\ sts' = [sts EXCEPT ![op.k] = Applied(sts[op.k], 0)]
                 /\ op' \in {At("apply", op.k + 1, <<>>), At("gather", 0, <<>>)}
                 /\ op' = At("apply", op.k + 1, <<>>) => op.k + 1 \in Shards
              \/ sts' = sts /\ op' = At("gather", 0, <<>>)
<1>1. op.k \in Shards /\ sts[op.k] \in STS /\ cache[op.k] \in STS
  BY DEF TypeOK
<1>2. CASE Refreshed(op.k).tmpl # desired
  <2>1. Refreshed(op.k) = sts[op.k]
    BY <1>2 DEF Refreshed
  <2>2. StructuralPartition(sts[op.k]) = RPS
    BY <1>2, <2>1 DEF StructuralPartition
  <2> QED
    BY <1>1, <1>2, <2>1, <2>2 DEF ReconcileStatefulSet
<1>3. CASE Refreshed(op.k).tmpl = desired /\ statefulSetRolloutSettled(Refreshed(op.k))
  <2>1. StructuralPartition(Refreshed(op.k)) = 0
    BY <1>3 DEF StructuralPartition, Complete, statefulSetRolloutSettled
  <2>2. \/ cache[op.k].tmpl = desired /\ statefulSetRolloutSettled(cache[op.k])
        \/ sts[op.k].tmpl = desired /\ statefulSetRolloutSettled(sts[op.k])
    BY <1>3 DEF Refreshed
  <2>3. sts' = [sts EXCEPT ![op.k] = Applied(sts[op.k], 0)]
    BY <1>3, <2>1 DEF ReconcileStatefulSet
  <2>4. /\ op' \in {At("apply", op.k + 1, <<>>), At("gather", 0, <<>>)}
        /\ op' = At("apply", op.k + 1, <<>>) => op.k + 1 \in Shards
    BY <1>3 DEF ReconcileStatefulSet, At
  <2> QED
    BY <1>1, <2>2, <2>3, <2>4
<1>4. CASE Refreshed(op.k).tmpl = desired /\ ~statefulSetRolloutSettled(Refreshed(op.k))
  BY <1>1, <1>4 DEF ReconcileStatefulSet
<1> QED
  BY <1>2, <1>3, <1>4

LEMMA AdvanceWrites ==
    ASSUME TypeOK, AdvanceClusterRollout
    PROVE  \/ sts' = sts
           \/ \E k \in Shards :
                 /\ sts[k] \in STS /\ sts[k].part - 1 \in Ordinals
                 /\ Advances(sts[k], pod[k], op.gt[k])
                 /\ sts' = [sts EXCEPT ![k] = Applied(sts[k], sts[k].part - 1)]
<1> DEFINE busy  == {k \in Shards : ~(sts[k].tmpl = desired /\ statefulSetRolloutSettled(sts[k]))}
           first == CHOOSE k \in busy : \A j \in busy : k =< j
<1>1. \/ sts' = sts
      \/ /\ Advances(sts[first], pod[first], op.gt[first])
         /\ sts' = [sts EXCEPT ![first] = Applied(sts[first], sts[first].part - 1)]
  BY DEF AdvanceClusterRollout
<1> HIDE DEF first
<1>2. sts \in [Shards -> STS]
  BY DEF TypeOK
<1>3. CASE first \notin Shards
  BY <1>1, <1>2, <1>3
<1>4. CASE first \in Shards
  <2>1. sts[first] \in STS
    BY <1>2, <1>4
  <2>2. Advances(sts[first], pod[first], op.gt[first]) => sts[first].part - 1 \in Ordinals
    <3>1. sts[first].part \in Nat /\ sts[first].part =< RPS
      BY <2>1, Constants DEF STS
    <3>2. Advances(sts[first], pod[first], op.gt[first]) => sts[first].part > 0
      BY DEF Advances
    <3> QED
      BY <3>1, <3>2, Constants
  <2> QED
    BY <1>1, <1>4, <2>1, <2>2
<1> QED
  BY <1>3, <1>4

LEMMA SyncedStatus ==
    ASSUME TypeOK, NEW k \in Shards, StatusSync(k)
    PROVE  \E t \in STS :
              /\ sts' = [sts EXCEPT ![k] = t]
              /\ t.tmpl = sts[k].tmpl /\ t.part = sts[k].part /\ t.gen = sts[k].gen
              /\ t.obs = t.gen /\ t.upd = t.tmpl
              /\ t.updated = want /\ t.ready = want => Quiet(k)
<1> DEFINE U == {o \in Ordinals : pod[k][o].proc # "absent" /\ pod[k][o].rev = sts[k].tmpl}
           A == {o \in Ordinals : pod[k][o].ready}
           c == IF Cardinality(U) = want /\ Cardinality(A) = want THEN sts[k].tmpl ELSE sts[k].cur
           t == [sts[k] EXCEPT !.obs = sts[k].gen, !.upd = sts[k].tmpl,
                               !.updated = Cardinality(U), !.ready = Cardinality(A), !.cur = c]
<1>1. sts' = [sts EXCEPT ![k] = t]
  BY DEF StatusSync
<1>2. /\ Cardinality(U) \in Nat /\ (Cardinality(U) = want => U = Ordinals)
      /\ Cardinality(A) \in Nat /\ (Cardinality(A) = want => A = Ordinals)
  BY Counted
<1>3. sts[k] \in STS
  BY DEF TypeOK
<1>4. c \in Templates
  BY <1>3 DEF STS
<1>5. Cardinality(U) = want /\ Cardinality(A) = want => Quiet(k)
  BY <1>2 DEF Quiet
<1> HIDE DEF U, A, c
<1>6. t \in STS
  BY <1>2, <1>3, <1>4 DEF STS
<1>7. /\ t.tmpl = sts[k].tmpl /\ t.part = sts[k].part /\ t.gen = sts[k].gen
      /\ t.obs = t.gen /\ t.upd = t.tmpl
      /\ t.updated = Cardinality(U) /\ t.ready = Cardinality(A)
  BY <1>3 DEF STS
<1> HIDE DEF t
<1> QED
  BY <1>1, <1>5, <1>6, <1>7

----------------------------------------------------------------------------
(* Types.                                                                  *)

LEMMA TypeInit == Init => TypeOK
<1> SUFFICES ASSUME Init PROVE TypeOK
  OBVIOUS
<1>1. desired \in Templates /\ edits \in Nat
  BY RolloutConstants DEF Init
<1>2. sts \in [Shards -> STS] /\ cache \in [Shards -> STS]
  BY <1>1, Constants DEF Init, STS
<1>3. pod \in [Shards -> [Ordinals -> Pod]]
  BY <1>1 DEF Init, Pod
<1> QED
  BY <1>1, <1>2, <1>3, Constants DEF Init, TypeOK, NextPass, At

LEMMA TypeStep == TypeOK /\ [Next]_vars => TypeOK'
<1> SUFFICES ASSUME TypeOK, [Next]_vars PROVE TypeOK'
  OBVIOUS
<1> USE DEF NextPass, At
<1>1. CASE EditSpec
  BY <1>1 DEF EditSpec, TypeOK
<1>2. CASE ReconcileStatefulSet
  <2>1. RPS \in Ordinals /\ 0 \in Ordinals
    BY Constants
  <2>2. sts' \in [Shards -> STS]
    <3>1. op.k \in Shards /\ sts[op.k] \in STS /\ sts \in [Shards -> STS]
      BY DEF TypeOK
    <3>2. Applied(sts[op.k], RPS) \in STS /\ Applied(sts[op.k], 0) \in STS
      BY <2>1, <3>1, AppliedType
    <3> QED
      BY <1>2, <3>1, <3>2, ApplyWrites
  <2>3. op'.pc \in {"apply", "gather"} /\ op'.k \in Shards
    BY <1>2, ApplyWrites, Constants
  <2> QED
    BY <1>2, <2>2, <2>3 DEF ReconcileStatefulSet, TypeOK
<1>3. CASE Gather
  <2>1. ASSUME NEW k \in Shards, NEW o \in Ordinals
        PROVE  [redis |-> pod[k][o].redis, synced |-> pod[k][o].synced] \in Seen
    BY DEF TypeOK, Pod, Seen
  <2> QED
    BY <1>3, <2>1, Constants DEF Gather, TypeOK
<1>4. CASE AdvanceClusterRollout
  <2>1. sts' \in [Shards -> STS]
    <3>1. sts \in [Shards -> STS]
      BY DEF TypeOK
    <3>2. ASSUME NEW k \in Shards, sts[k].part - 1 \in Ordinals
          PROVE  Applied(sts[k], sts[k].part - 1) \in STS
      BY <3>1, <3>2, AppliedType
    <3> QED
      BY <1>4, <3>1, <3>2, AdvanceWrites
  <2> QED
    BY <1>4, <2>1, Constants DEF AdvanceClusterRollout, TypeOK
<1>5. CASE Repair
  BY <1>5, RepairWrites, Constants DEF Repair, TypeOK
<1>6. ASSUME NEW k \in Shards, InformerDelivers(k) PROVE TypeOK'
  BY <1>6 DEF InformerDelivers, TypeOK
<1>7. ASSUME NEW k \in Shards, StatusSync(k) PROVE TypeOK'
  <2>1. sts' \in [Shards -> STS]
    BY <1>7, SyncedStatus DEF TypeOK
  <2> QED
    BY <1>7, <2>1 DEF StatusSync, TypeOK
<1>8. ASSUME NEW k \in Shards, NEW o \in Ordinals, PodStep(k, o) PROVE TypeOK'
  <2>1. pod' \in [Shards -> [Ordinals -> Pod]]
    <3>1. ASSUME NEW p \in Pod, Writes(k, o, p) PROVE pod' \in [Shards -> [Ordinals -> Pod]]
      BY <3>1, Written
    <3>2. CASE DeleteOutdated(k, o)
      BY <3>1, <3>2, DeleteWrites
    <3>3. CASE Terminate(k, o)
      BY <3>1, <3>3, TerminateWrites
    <3>4. CASE CreatePod(k, o)
      BY <3>1, <3>4, CreateWrites
    <3>5. CASE BecomeReady(k, o)
      BY <3>1, <3>5, ReadyWrites
    <3>6. CASE FullSync(k, o)
      BY <3>1, <3>6, SyncWrites
    <3>7. ASSUME NEW r \in Ordinals \ {o}, HandOver(k, o, r) PROVE pod' \in [Shards -> [Ordinals -> Pod]]
      <4>1. r \in Ordinals /\ r # o /\ HandOver(k, o, r)
        BY <3>7
      <4> QED
        BY <4>1, HandOverWrites
    <3> QED
      BY <1>8, <3>2, <3>3, <3>4, <3>5, <3>6, <3>7 DEF PodStep
  <2>2. UNCHANGED <<desired, sts, cache, op, blocked, edits>>
    BY <1>8 DEF PodStep, DeleteOutdated, Terminate, CreatePod, BecomeReady, FullSync, HandOver
  <2> QED
    BY <2>1, <2>2 DEF TypeOK
<1>9. CASE UNCHANGED vars
  BY <1>9 DEF vars, TypeOK
<1> QED
  BY <1>1, <1>2, <1>3, <1>4, <1>5, <1>6, <1>7, <1>8, <1>9 DEF Next, Operator

----------------------------------------------------------------------------
(* One pod at a time.  SerialInv is inductive whenever edits come at rest. *)

LEMMA SerialInit == Init => SerialInv
<1> SUFFICES ASSUME Init PROVE SerialInv
  OBVIOUS
<1>1. TypeOK
  BY TypeInit
<1>2. ASSUME NEW k \in Shards PROVE Quiet(k)
  <2>1. ASSUME NEW o \in Ordinals PROVE pod[k][o].ready /\ pod[k][o].rev = desired
    BY DEF Init
  <2>2. sts[k].tmpl = desired
    BY DEF Init
  <2> QED
    BY <2>1, <2>2 DEF Quiet
<1>3. ASSUME NEW k \in Shards PROVE Status(k)
  <2>1. /\ sts[k].tmpl = desired /\ sts[k].upd = desired /\ sts[k].obs = 1 /\ sts[k].gen = 1
        /\ cache[k] = sts[k]
    BY DEF Init
  <2> QED
    BY <1>2, <2>1 DEF Status
<1>4. Turns
  BY <1>2, Constants DEF Turns, Init, NextPass, At
<1>5. TopDown
  BY DEF TopDown, Init
<1> QED
  BY <1>1, <1>3, <1>4, <1>5 DEF SerialInv

\* A step that touches neither the StatefulSets nor a pod's readiness and
\* revision, and is not the operator's walk from shard to shard.
LEMMA SerialFrame ==
    ASSUME SerialInv, TypeOK', UNCHANGED <<desired, sts, cache>>,
           \A k \in Shards, o \in Ordinals :
              /\ pod'[k][o].ready = pod[k][o].ready /\ pod'[k][o].rev = pod[k][o].rev
              /\ pod[k][o].ready => pod'[k][o].proc = pod[k][o].proc,
           op' = op \/ op'.pc # "apply" \/ op'.k = 0
    PROVE  SerialInv'
<1>1. ASSUME NEW k \in Shards PROVE Quiet(k)' <=> Quiet(k)
  BY DEF Quiet
<1>2. ASSUME NEW k \in Shards PROVE Status(k)'
  <2>1. Status(k)
    BY DEF SerialInv
  <2> QED
    BY <1>1, <2>1 DEF Status, statefulSetRolloutSettled
<1>3. Turns'
  <2>1. Turns
    BY DEF SerialInv
  <2> QED
    BY <1>1, <2>1, Constants DEF Turns
<1>4. TopDown'
  <2>1. TopDown
    BY DEF SerialInv
  <2> QED
    BY <2>1 DEF TopDown
<1> QED
  BY <1>2, <1>3, <1>4 DEF SerialInv

LEMMA SerialEdit == ~Hasty /\ SerialInv /\ EditSpec /\ TypeOK' => SerialInv'
<1> SUFFICES ASSUME ~Hasty, SerialInv, EditSpec, TypeOK' PROVE SerialInv'
  OBVIOUS
<1>1. AtRest /\ op = NextPass /\ UNCHANGED <<sts, cache, pod, op>> /\ desired' # desired
  BY DEF EditSpec
<1>2. ASSUME NEW k \in Shards PROVE Quiet(k) /\ Quiet(k)'
  BY <1>1 DEF SerialInv, Status, AtRest, statefulSetRolloutSettled, Quiet
<1>3. ASSUME NEW k \in Shards PROVE Status(k)'
  BY <1>1, <1>2 DEF SerialInv, Status, AtRest
<1>4. Turns'
  BY <1>1, <1>2, Constants DEF Turns, NextPass, At
<1>5. TopDown'
  BY <1>1 DEF SerialInv, TopDown
<1> QED
  BY <1>3, <1>4, <1>5 DEF SerialInv

\* A new template reaches a shard only when all shards are quiet.
LEMMA SerialApply == SerialInv /\ ReconcileStatefulSet /\ TypeOK' => SerialInv'
<1> SUFFICES ASSUME SerialInv, ReconcileStatefulSet, TypeOK' PROVE SerialInv'
  OBVIOUS
<1> DEFINE k == op.k
<1>1. TypeOK /\ k \in Shards /\ sts[k] \in STS /\ sts \in [Shards -> STS]
  BY DEF SerialInv, TypeOK
<1>2. UNCHANGED <<desired, cache, pod>> /\ op.pc = "apply"
  BY DEF ReconcileStatefulSet
<1>3. \A j \in Shards : j < k => sts[j].tmpl = desired /\ Quiet(j)
  BY <1>2 DEF SerialInv, Turns
<1>4. RPS \in Ordinals /\ 0 \in Ordinals
  BY Constants
<1>5. CASE sts' = sts /\ op' = At("gather", 0, <<>>)
  BY <1>2, <1>5, SerialFrame DEF At
<1>6. CASE /\ sts[k].tmpl # desired
           /\ sts' = [sts EXCEPT ![k] = Applied(sts[k], RPS)]
           /\ op' = At("gather", 0, <<>>)
  <2>1. ASSUME NEW j \in Shards PROVE Quiet(j)
    <3>1. j \in Nat /\ k \in Nat
      BY <1>1, Constants
    <3>2. ~Quiet(j) /\ k =< j => sts[k].tmpl = desired
      BY <1>1 DEF SerialInv, Turns
    <3> QED
      BY <1>3, <1>6, <3>1, <3>2
  <2>2. /\ sts'[k].tmpl = desired /\ sts'[k].gen = sts[k].gen + 1 /\ sts'[k].obs = sts[k].obs
        /\ \A j \in Shards \ {k} : sts'[j] = sts[j]
    BY <1>1, <1>4, <1>6, AppliedType
  <2>3. ASSUME NEW j \in Shards, j # k PROVE Quiet(j)'
    BY <1>2, <2>1, <2>2, <2>3 DEF Quiet
  <2>4. ASSUME NEW j \in Shards PROVE Status(j)'
    <3>1. CASE j = k
      <4>1. sts[k].obs =< sts[k].gen /\ sts[k].obs \in Nat /\ sts[k].gen \in Nat
        BY <1>1 DEF SerialInv, Status, STS
      <4>2. ~(cache[k].tmpl = desired /\ statefulSetRolloutSettled(cache[k]))
        BY <1>1, <1>6 DEF SerialInv, Status
      <4> QED
        BY <1>2, <2>2, <3>1, <4>1, <4>2 DEF Status, statefulSetRolloutSettled
    <3>2. CASE j # k
      BY <1>2, <2>2, <2>3, <3>2 DEF SerialInv, Status, statefulSetRolloutSettled
    <3> QED
      BY <3>1, <3>2
  <2>5. Turns'
    BY <1>2, <1>3, <1>6, <2>2, <2>3, Constants DEF Turns, At
  <2>6. TopDown'
    BY <1>2, <2>1 DEF SerialInv, TopDown, Quiet
  <2> QED
    BY <2>4, <2>5, <2>6 DEF SerialInv
<1>7. CASE /\ \/ cache[k].tmpl = desired /\ statefulSetRolloutSettled(cache[k])
              \/ sts[k].tmpl = desired /\ statefulSetRolloutSettled(sts[k])
           /\ sts' = [sts EXCEPT ![k] = Applied(sts[k], 0)]
           /\ op' \in {At("apply", k + 1, <<>>), At("gather", 0, <<>>)}
  <2>1. sts[k].tmpl = desired /\ Quiet(k)
    BY <1>1, <1>7 DEF SerialInv, Status, statefulSetRolloutSettled
  <2>2. /\ sts'[k].tmpl = desired /\ sts'[k].obs = sts[k].obs /\ sts'[k].upd = sts[k].upd
        /\ sts'[k].updated = sts[k].updated /\ sts'[k].ready = sts[k].ready
        /\ sts'[k].gen = sts[k].gen \/ sts'[k].gen = sts[k].gen + 1
        /\ \A j \in Shards \ {k} : sts'[j] = sts[j]
    BY <1>1, <1>4, <1>7, AppliedType
  <2>3. ASSUME NEW j \in Shards PROVE (Quiet(j)' <=> Quiet(j)) /\ sts'[j].tmpl = sts[j].tmpl
    BY <1>2, <2>1, <2>2 DEF Quiet
  <2>4. ASSUME NEW j \in Shards PROVE Status(j)'
    <3>1. CASE j = k
      <4>1. sts[k].obs =< sts[k].gen /\ sts[k].obs \in Nat /\ sts[k].gen \in Nat
        BY <1>1 DEF SerialInv, Status, STS
      <4>2. sts[k].obs = sts[k].gen => sts[k].upd = sts[k].tmpl
        BY <1>1 DEF SerialInv, Status
      <4> QED
        BY <1>2, <2>1, <2>2, <2>3, <3>1, <4>1, <4>2 DEF Status, statefulSetRolloutSettled
    <3>2. CASE j # k
      BY <1>2, <2>2, <2>3, <3>2 DEF SerialInv, Status, statefulSetRolloutSettled
    <3> QED
      BY <3>1, <3>2
  <2>5. Turns'
    <3>1. ASSUME op'.pc = "apply", NEW j \in Shards, j < op'.k PROVE sts[j].tmpl = desired /\ Quiet(j)
      <4>1. j \in Nat /\ k \in Nat
        BY <1>1, Constants
      <4>2. op'.k = k + 1
        BY <1>7, <3>1 DEF At
      <4>3. j < k \/ j = k
        BY <3>1, <4>1, <4>2
      <4> QED
        BY <1>3, <2>1, <4>3
    <3> QED
      BY <1>2, <2>3, <3>1 DEF SerialInv, Turns
  <2>6. TopDown'
    BY <1>2, <2>3 DEF SerialInv, TopDown
  <2> QED
    BY <2>4, <2>5, <2>6 DEF SerialInv
<1> QED
  BY <1>1, <1>5, <1>6, <1>7, ApplyWrites

\* The gate moves by an apply that the controller has not observed yet.
LEMMA SerialAdvance == SerialInv /\ AdvanceClusterRollout /\ TypeOK' => SerialInv'
<1> SUFFICES ASSUME SerialInv, AdvanceClusterRollout, TypeOK' PROVE SerialInv'
  OBVIOUS
<1>1. TypeOK /\ sts \in [Shards -> STS]
  BY DEF SerialInv, TypeOK
<1>2. UNCHANGED <<desired, cache, pod>> /\ op'.pc = "repair"
  BY DEF AdvanceClusterRollout, At
<1>3. CASE sts' = sts
  BY <1>2, <1>3, SerialFrame
<1>4. ASSUME NEW k \in Shards, sts[k] \in STS, sts[k].part - 1 \in Ordinals,
             Advances(sts[k], pod[k], op.gt[k]),
             sts' = [sts EXCEPT ![k] = Applied(sts[k], sts[k].part - 1)]
      PROVE  SerialInv'
  <2>1. sts[k].tmpl = desired
    BY <1>4 DEF Advances
  <2>2. sts[k].obs =< sts[k].gen /\ sts[k].obs \in Nat /\ sts[k].gen \in Nat /\ sts[k].part \in Nat
    BY <1>4, Constants DEF SerialInv, Status, STS
  <2>3. /\ sts'[k].tmpl = desired /\ sts'[k].obs = sts[k].obs /\ sts'[k].gen = sts[k].gen + 1
        /\ \A j \in Shards \ {k} : sts'[j] = sts[j]
    <3>1. sts[k].part # sts[k].part - 1
      BY <2>2
    <3> QED
      BY <1>1, <1>4, <3>1, AppliedType
  <2>4. ASSUME NEW j \in Shards PROVE (Quiet(j)' <=> Quiet(j)) /\ sts'[j].tmpl = sts[j].tmpl
    BY <1>2, <2>1, <2>3 DEF Quiet
  <2>5. ASSUME NEW j \in Shards PROVE Status(j)'
    <3>1. CASE j = k
      <4>1. sts'[k].obs # sts'[k].gen /\ sts'[k].obs =< sts'[k].gen
        BY <2>2, <2>3
      <4>2. cache[k].tmpl = desired /\ statefulSetRolloutSettled(cache[k]) => Quiet(k)
        BY <1>4 DEF SerialInv, Status
      <4> QED
        BY <1>2, <2>3, <2>4, <3>1, <4>1, <4>2 DEF Status, statefulSetRolloutSettled
    <3>2. CASE j # k
      BY <1>2, <2>3, <2>4, <3>2 DEF SerialInv, Status, statefulSetRolloutSettled
    <3> QED
      BY <3>1, <3>2
  <2>6. Turns'
    BY <1>2, <2>4 DEF SerialInv, Turns
  <2>7. TopDown'
    BY <1>2, <2>4 DEF SerialInv, TopDown
  <2> QED
    BY <2>5, <2>6, <2>7 DEF SerialInv
<1> QED
  BY <1>1, <1>3, <1>4, AdvanceWrites

LEMMA SerialInformer ==
    ASSUME SerialInv, TypeOK', NEW k \in Shards, InformerDelivers(k)
    PROVE  SerialInv'
<1>1. UNCHANGED <<desired, sts, pod, op>> /\ cache' = [cache EXCEPT ![k] = sts[k]]
  BY DEF InformerDelivers
<1>2. cache'[k] = sts[k] /\ \A j \in Shards \ {k} : cache'[j] = cache[j]
  BY <1>1 DEF SerialInv, TypeOK
<1>3. ASSUME NEW j \in Shards PROVE Quiet(j)' <=> Quiet(j)
  BY <1>1 DEF Quiet
<1>4. ASSUME NEW j \in Shards PROVE Status(j)'
  BY <1>1, <1>2, <1>3 DEF SerialInv, Status, statefulSetRolloutSettled
<1>5. Turns'
  BY <1>1, <1>3 DEF SerialInv, Turns
<1>6. TopDown'
  BY <1>1 DEF SerialInv, TopDown
<1> QED
  BY <1>4, <1>5, <1>6 DEF SerialInv

\* A status that counts all pods as updated and ready says the shard is quiet.
LEMMA SerialStatus ==
    ASSUME SerialInv, TypeOK', NEW k \in Shards, StatusSync(k)
    PROVE  SerialInv'
<1>1. UNCHANGED <<desired, cache, pod, op>>
  BY DEF StatusSync
<1>2. TypeOK /\ sts \in [Shards -> STS]
  BY DEF SerialInv, TypeOK
<1>3. PICK t \in STS :
              /\ sts' = [sts EXCEPT ![k] = t]
              /\ t.tmpl = sts[k].tmpl /\ t.part = sts[k].part /\ t.gen = sts[k].gen
              /\ t.obs = t.gen /\ t.upd = t.tmpl
              /\ t.updated = want /\ t.ready = want => Quiet(k)
  BY <1>2, SyncedStatus
<1>4. sts'[k] = t /\ (\A j \in Shards \ {k} : sts'[j] = sts[j]) /\ t.gen \in Nat
  BY <1>2, <1>3 DEF STS
<1>5. ASSUME NEW j \in Shards PROVE (Quiet(j)' <=> Quiet(j)) /\ sts'[j].tmpl = sts[j].tmpl
  BY <1>1, <1>3, <1>4 DEF Quiet
<1>6. ASSUME NEW j \in Shards PROVE Status(j)'
  <2>1. CASE j = k
    <3>1. cache[k].tmpl = desired /\ statefulSetRolloutSettled(cache[k]) =>
             sts[k].tmpl = desired /\ Quiet(k)
      BY DEF SerialInv, Status
    <3> QED
      BY <1>1, <1>3, <1>4, <1>5, <2>1, <3>1 DEF Status, statefulSetRolloutSettled
  <2>2. CASE j # k
    BY <1>1, <1>4, <1>5, <2>2 DEF SerialInv, Status, statefulSetRolloutSettled
  <2> QED
    BY <2>1, <2>2
<1>7. Turns'
  BY <1>1, <1>5 DEF SerialInv, Turns
<1>8. TopDown'
  BY <1>1, <1>5 DEF SerialInv, TopDown
<1> QED
  BY <1>6, <1>7, <1>8 DEF SerialInv

\* A step on one pod of the shard that rolls.
LEMMA SerialRolling ==
    ASSUME SerialInv, TypeOK', NEW k \in Shards, ~Quiet(k),
           UNCHANGED <<desired, sts, cache, op>>,
           \A j \in Shards \ {k}, o \in Ordinals : pod'[j][o] = pod[j][o],
           TopDown'
    PROVE  SerialInv'
<1>1. ASSUME NEW j \in Shards, j # k PROVE Quiet(j) /\ Quiet(j)'
  BY <1>1 DEF SerialInv, Turns, Quiet
<1>2. ASSUME NEW j \in Shards PROVE Status(j)'
  <2>1. Status(j)
    BY DEF SerialInv
  <2> QED
    BY <1>1, <2>1 DEF Status, statefulSetRolloutSettled
<1>3. Turns'
  <2>1. \A j \in Shards : j =< k => sts[j].tmpl = desired
    BY DEF SerialInv, Turns
  <2>2. op.pc = "apply" => \A j \in Shards : j < op.k => j # k /\ sts[j].tmpl = desired
    BY DEF SerialInv, Turns
  <2> QED
    BY <1>1, <2>1, <2>2 DEF Turns
<1> QED
  BY <1>2, <1>3 DEF SerialInv

LEMMA SerialPod ==
    ASSUME SerialInv, TypeOK', NEW k \in Shards, NEW o \in Ordinals, PodStep(k, o)
    PROVE  SerialInv'
<1>1. UNCHANGED <<desired, sts, cache, op>>
  BY DEF PodStep, DeleteOutdated, Terminate, CreatePod, BecomeReady, FullSync, HandOver
<1>2. TypeOK /\ TopDown /\ pod[k][o] \in Pod /\ o \in Nat
  BY Constants DEF SerialInv, TypeOK
<1>3. CASE DeleteOutdated(k, o)
  <2> DEFINE p == [pod[k][o] EXCEPT !.proc = "terminating", !.ready = FALSE]
  <2>1. p \in Pod /\ Writes(k, o, p) /\ p.ready = FALSE
    BY <1>2, <1>3, DeleteWrites DEF Pod
  <2> HIDE DEF p
  <2>2. /\ pod'[k][o] = p
        /\ \A j \in Shards, h \in Ordinals : j # k \/ h # o => pod'[j][h] = pod[j][h]
    BY <1>2, <2>1, Written
  <2>3. pod[k][o].rev # sts[k].tmpl
    BY <1>3 DEF DeleteOutdated
  <2>4. \A h \in Ordinals : h > o => pod[k][h].ready /\ pod[k][h].rev = sts[k].tmpl
    BY <1>2, <1>3, Constants DEF DeleteOutdated, Ordinals
  <2>5. TopDown'
    <3> SUFFICES ASSUME NEW j \in Shards, NEW i \in Ordinals
                 PROVE  /\ pod'[j][i].ready => pod'[j][i].proc = "running"
                        /\ ~pod'[j][i].ready => \A h \in Ordinals : h > i =>
                              pod'[j][h].ready /\ pod'[j][h].rev = sts[j].tmpl
      BY <1>1 DEF TopDown
    <3>1. CASE j # k
      <4>1. \A h \in Ordinals : pod'[j][h] = pod[j][h]
        BY <2>2, <3>1
      <4>2. /\ pod[j][i].ready => pod[j][i].proc = "running"
            /\ ~pod[j][i].ready => \A h \in Ordinals : h > i =>
                  pod[j][h].ready /\ pod[j][h].rev = sts[j].tmpl
        BY <1>2 DEF TopDown
      <4> QED
        BY <4>1, <4>2
    <3>2. CASE j = k /\ i = o
      BY <1>2, <2>1, <2>2, <2>4, <3>2, Constants
    <3>3. CASE j = k /\ i # o
      BY <1>2, <2>2, <2>3, <3>3 DEF TopDown
    <3> QED
      BY <3>1, <3>2, <3>3
  <2> QED
    BY <1>1, <2>2, <2>3, <2>5, SerialRolling DEF Quiet
<1>4. CASE Terminate(k, o)
  <2> DEFINE p == [pod[k][o] EXCEPT !.proc = "absent", !.redis = "down", !.synced = FALSE, !.data = FALSE]
  <2>1. p \in Pod /\ Writes(k, o, p) /\ p.ready = pod[k][o].ready /\ p.rev = pod[k][o].rev
    BY <1>2, <1>4, TerminateWrites DEF Pod
  <2> HIDE DEF p
  <2>2. /\ pod'[k][o] = p
        /\ \A j \in Shards, h \in Ordinals : j # k \/ h # o => pod'[j][h] = pod[j][h]
    BY <1>2, <2>1, Written
  <2>3. ~pod[k][o].ready
    BY <1>2, <1>4 DEF Terminate, TopDown
  <2> QED
    BY <1>1, <2>1, <2>2, <2>3, SerialFrame
<1>5. CASE CreatePod(k, o)
  <2> DEFINE r == IF o < sts[k].part THEN sts[k].cur ELSE sts[k].tmpl
             p == [pod[k][o] EXCEPT !.proc = "running", !.rev = r]
  <2>1. p \in Pod /\ Writes(k, o, p) /\ p.ready = pod[k][o].ready
    BY <1>2, <1>5, CreateWrites DEF Pod
  <2> HIDE DEF p
  <2>2. /\ pod'[k][o] = p
        /\ \A j \in Shards, h \in Ordinals : j # k \/ h # o => pod'[j][h] = pod[j][h]
    BY <1>2, <2>1, Written
  <2>3. ~pod[k][o].ready
    BY <1>2, <1>5 DEF CreatePod, TopDown
  <2>4. TopDown'
    <3> SUFFICES ASSUME NEW j \in Shards, NEW i \in Ordinals
                 PROVE  /\ pod'[j][i].ready => pod'[j][i].proc = "running"
                        /\ ~pod'[j][i].ready => \A h \in Ordinals : h > i =>
                              pod'[j][h].ready /\ pod'[j][h].rev = sts[j].tmpl
      BY <1>1 DEF TopDown
    <3>1. CASE j # k
      <4>1. \A h \in Ordinals : pod'[j][h] = pod[j][h]
        BY <2>2, <3>1
      <4>2. /\ pod[j][i].ready => pod[j][i].proc = "running"
            /\ ~pod[j][i].ready => \A h \in Ordinals : h > i =>
                  pod[j][h].ready /\ pod[j][h].rev = sts[j].tmpl
        BY <1>2 DEF TopDown
      <4> QED
        BY <4>1, <4>2
    <3>2. CASE j = k /\ i = o
      BY <1>2, <2>1, <2>2, <2>3, <3>2, Constants DEF TopDown
    <3>3. CASE j = k /\ i # o
      BY <1>2, <2>2, <2>3, <3>3 DEF TopDown
    <3> QED
      BY <3>1, <3>2, <3>3
  <2> QED
    BY <1>1, <2>2, <2>3, <2>4, SerialRolling DEF Quiet
<1>6. CASE BecomeReady(k, o)
  <2> DEFINE p == [pod[k][o] EXCEPT !.ready = TRUE, !.redis = "empty"]
  <2>1. p \in Pod /\ Writes(k, o, p) /\ p.ready = TRUE /\ p.rev = pod[k][o].rev /\ p.proc = "running"
    BY <1>2, <1>6, ReadyWrites DEF Pod, BecomeReady
  <2> HIDE DEF p
  <2>2. /\ pod'[k][o] = p
        /\ \A j \in Shards, h \in Ordinals : j # k \/ h # o => pod'[j][h] = pod[j][h]
    BY <1>2, <2>1, Written
  <2>3. ~pod[k][o].ready
    BY <1>6 DEF BecomeReady
  <2>4. ASSUME NEW h \in Ordinals PROVE pod'[k][h].ready
    <3>1. h \in Nat
      BY Constants
    <3>2. h > o => pod[k][h].ready
      BY <1>2, <2>3 DEF TopDown
    <3>3. h < o => pod[k][h].ready
      BY <1>2, <2>3, <3>1 DEF TopDown
    <3> QED
      BY <1>2, <2>1, <2>2, <3>1, <3>2, <3>3
  <2>5. TopDown'
    <3> SUFFICES ASSUME NEW j \in Shards, NEW i \in Ordinals
                 PROVE  /\ pod'[j][i].ready => pod'[j][i].proc = "running"
                        /\ ~pod'[j][i].ready => \A h \in Ordinals : h > i =>
                              pod'[j][h].ready /\ pod'[j][h].rev = sts[j].tmpl
      BY <1>1 DEF TopDown
    <3>1. CASE j # k
      <4>1. \A h \in Ordinals : pod'[j][h] = pod[j][h]
        BY <2>2, <3>1
      <4>2. /\ pod[j][i].ready => pod[j][i].proc = "running"
            /\ ~pod[j][i].ready => \A h \in Ordinals : h > i =>
                  pod[j][h].ready /\ pod[j][h].rev = sts[j].tmpl
        BY <1>2 DEF TopDown
      <4> QED
        BY <4>1, <4>2
    <3>2. CASE j = k
      BY <1>2, <2>1, <2>2, <2>4, <3>2 DEF TopDown
    <3> QED
      BY <3>1, <3>2
  <2> QED
    BY <1>1, <2>2, <2>3, <2>5, SerialRolling DEF Quiet
<1>7. CASE FullSync(k, o)
  <2>1. PICK w \in Ordinals :
              LET p == [pod[k][o] EXCEPT !.synced = TRUE, !.data = pod[k][w].data]
              IN  pod[k][w].redis = "owner" /\ p \in Pod /\ Writes(k, o, p)
    BY <1>2, <1>7, SyncWrites
  <2> DEFINE p == [pod[k][o] EXCEPT !.synced = TRUE, !.data = pod[k][w].data]
  <2>2. p \in Pod /\ Writes(k, o, p) /\ p.ready = pod[k][o].ready /\ p.rev = pod[k][o].rev /\ p.proc = pod[k][o].proc
    BY <1>2, <2>1 DEF Pod
  <2> HIDE DEF p
  <2>3. /\ pod'[k][o] = p
        /\ \A j \in Shards, h \in Ordinals : j # k \/ h # o => pod'[j][h] = pod[j][h]
    BY <1>2, <2>2, Written
  <2> QED
    BY <1>1, <2>2, <2>3, SerialFrame
<1>8. ASSUME NEW r \in Ordinals \ {o}, HandOver(k, o, r) PROVE SerialInv'
  <2>1. r \in Ordinals /\ r # o /\ HandOver(k, o, r)
    BY <1>8
  <2>2. ASSUME NEW j \in Shards, NEW h \in Ordinals
        PROVE  /\ pod'[j][h].ready = pod[j][h].ready /\ pod'[j][h].rev = pod[j][h].rev
               /\ pod'[j][h].proc = pod[j][h].proc
    <3>1. Kept(pod'[j][h], pod[j][h])
      BY <1>2, <2>1, HandOverWrites
    <3> QED
      BY <3>1 DEF Kept
  <2> QED
    BY <1>1, <2>2, SerialFrame
<1> QED
  BY <1>3, <1>4, <1>5, <1>6, <1>7, <1>8 DEF PodStep

LEMMA SerialStep == ~Hasty /\ SerialInv /\ [Next]_vars => SerialInv'
<1> SUFFICES ASSUME ~Hasty, SerialInv, [Next]_vars PROVE SerialInv'
  OBVIOUS
<1>1. TypeOK'
  BY TypeStep DEF SerialInv
<1>2. CASE Gather
  BY <1>1, <1>2, SerialFrame DEF Gather, NextPass, At
<1>3. CASE Repair
  <2>1. ASSUME NEW k \in Shards, NEW o \in Ordinals
        PROVE  /\ pod'[k][o].ready = pod[k][o].ready /\ pod'[k][o].rev = pod[k][o].rev
               /\ pod'[k][o].proc = pod[k][o].proc
    <3>1. pod[k][o] \in Pod /\ TypeOK
      BY DEF SerialInv, TypeOK
    <3>2. \E m \in {"replica", "owner"} :
             pod'[k][o] = pod[k][o] \/ pod'[k][o] = [pod[k][o] EXCEPT !.redis = m]
      BY <1>3, <3>1, RepairWrites
    <3> QED
      BY <3>1, <3>2 DEF Pod
  <2>2. UNCHANGED <<desired, sts, cache>> /\ op'.k = 0
    BY <1>3 DEF Repair, NextPass, At
  <2> QED
    BY <1>1, <2>1, <2>2, SerialFrame
<1>4. CASE UNCHANGED vars
  BY <1>1, <1>4, SerialFrame DEF vars
<1> QED
  BY <1>1, <1>2, <1>3, <1>4, SerialEdit, SerialApply, SerialAdvance, SerialInformer, SerialStatus, SerialPod
     DEF Next, Operator

\* A rollout is serial: the operator, the StatefulSet controller and the cached
\* status it reads keep SerialInv, whatever their order.
THEOREM SerialAlways == ASSUME ~Hasty PROVE Spec => []SerialInv
<1>1. SerialInv /\ [Next]_vars => SerialInv'
  BY SerialStep
<1> QED
  BY <1>1, SerialInit, PTL DEF Spec

LEMMA SerialMeans == SerialInv => OnePodAtATime
<1> SUFFICES ASSUME SerialInv, NEW k \in Shards, NEW j \in Shards,
                    NEW o \in Disturbed(k), NEW h \in Disturbed(j)
             PROVE  k = j /\ o = h
  BY DEF OnePodAtATime
<1>1. o \in Ordinals /\ h \in Ordinals /\ o \in Nat /\ h \in Nat
  BY Constants DEF Disturbed
<1>2. ~pod[k][o].ready /\ ~pod[j][h].ready
  BY DEF SerialInv, TopDown, Disturbed
<1>3. k = j
  BY <1>1, <1>2 DEF SerialInv, Turns, Quiet
<1>4. ~(o < h) /\ ~(h < o)
  BY <1>1, <1>2, <1>3 DEF SerialInv, TopDown
<1> QED
  BY <1>1, <1>3, <1>4

\* With any number of shards, replicas and edits, and however late the
\* controller observes an apply, a rollout replaces one pod at a time, as long
\* as the spec is edited between rollouts: planShardRolloutPartition and the
\* walk of reconcileClusterStatefulSet keep the other shards waiting.
THEOREM OnePodAtATimeAlways == ASSUME ~Hasty PROVE Spec => []OnePodAtATime
BY SerialAlways, SerialMeans, PTL

----------------------------------------------------------------------------
(* A copy of every shard's keys.                                           *)

LEMMA CopyInit == Init => CopyInv
<1> SUFFICES ASSUME Init PROVE CopyInv
  OBVIOUS
<1>1. PICK w \in Ordinals : pod = [k \in Shards |-> [o \in Ordinals |->
          [rev |-> desired, proc |-> "running", ready |-> TRUE, data |-> TRUE,
           redis |-> IF o = w THEN "owner" ELSE "replica", synced |-> o # w]]]
  BY DEF Init
<1>2. ASSUME NEW k \in Shards, NEW o \in Ordinals
      PROVE  /\ pod[k][o].rev = desired /\ pod[k][o].ready /\ pod[k][o].data
             /\ pod[k][o].redis = "owner" <=> o = w
             /\ pod[k][o].synced <=> o # w
  BY <1>1
<1>3. ASSUME NEW k \in Shards PROVE sts[k].part = 0 /\ sts[k].tmpl = desired
  BY DEF Init
<1>4. ASSUME NEW k \in Shards PROVE Cursor(k)
  BY <1>2, <1>3, Constants DEF Cursor, Copy
<1>5. ASSUME NEW k \in Shards PROVE Owned(k)
  BY <1>2 DEF Owned, Copy
<1>6. Gathered
  BY DEF Gathered, Init, NextPass, At
<1> QED
  BY <1>4, <1>5, <1>6 DEF CopyInv

\* A step that changes no pod, and only the status of a StatefulSet.
LEMMA CopyFrame ==
    ASSUME CopyInv, UNCHANGED <<desired, pod>>,
           \A k \in Shards : sts'[k].tmpl = sts[k].tmpl /\ sts'[k].part = sts[k].part,
           \/ op' = op
           \/ op'.pc \notin {"advance", "repair"}
           \/ op'.pc = "repair" /\ op.pc = "advance" /\ op'.gt = op.gt
    PROVE  CopyInv'
<1>1. ASSUME NEW k \in Shards PROVE Cursor(k)'
  <2>1. Cursor(k)
    BY DEF CopyInv
  <2> QED
    BY <2>1 DEF Cursor, Copy
<1>2. ASSUME NEW k \in Shards PROVE Owned(k)'
  <2>1. Owned(k)
    BY DEF CopyInv
  <2> QED
    BY <2>1 DEF Owned, Copy
<1>3. Gathered'
  BY DEF CopyInv, Gathered, Copy
<1> QED
  BY <1>1, <1>2, <1>3 DEF CopyInv

LEMMA CopyEdit == ~Hasty /\ CopyInv /\ EditSpec => CopyInv'
<1> SUFFICES ASSUME ~Hasty, CopyInv, EditSpec PROVE CopyInv'
  OBVIOUS
<1>1. AtRest /\ op = NextPass /\ UNCHANGED <<sts, cache, pod, op>>
  BY DEF EditSpec
<1>2. ASSUME NEW k \in Shards PROVE Cursor(k)'
  <2>1. Cursor(k)
    BY DEF CopyInv
  <2> QED
    BY <1>1, <2>1 DEF Cursor, Copy, AtRest
<1>3. ASSUME NEW k \in Shards PROVE Owned(k)'
  <2>1. Owned(k)
    BY DEF CopyInv
  <2> QED
    BY <1>1, <2>1 DEF Owned, Copy
<1>4. Gathered'
  BY <1>1 DEF Gathered, NextPass, At
<1> QED
  BY <1>2, <1>3, <1>4 DEF CopyInv

\* The gate is put at the top while every pod is a copy, and taken away only
\* when it is at the bottom.
LEMMA CopyApply == SerialInv /\ CopyInv /\ ReconcileStatefulSet => CopyInv'
<1> SUFFICES ASSUME SerialInv, CopyInv, ReconcileStatefulSet PROVE CopyInv'
  OBVIOUS
<1> DEFINE k == op.k
<1>1. TypeOK /\ k \in Shards /\ sts[k] \in STS /\ sts \in [Shards -> STS] /\ k \in Nat
  BY Constants DEF SerialInv, TypeOK
<1>2. UNCHANGED <<desired, cache, pod>> /\ op.pc = "apply"
  BY DEF ReconcileStatefulSet
<1>3. RPS \in Ordinals /\ 0 \in Ordinals
  BY Constants
<1>4. op'.pc \notin {"advance", "repair"}
  BY <1>1, ApplyWrites DEF At
<1>5. CASE sts' = sts
  BY <1>2, <1>4, <1>5, CopyFrame
<1>6. CASE /\ sts[k].tmpl # desired
           /\ sts' = [sts EXCEPT ![k] = Applied(sts[k], RPS)]
  <2>1. Quiet(k)
    BY <1>1, <1>6 DEF SerialInv, Turns
  <2>2. \A h \in Ordinals : Copy(k, h)
    BY <1>1, <1>6 DEF CopyInv, Cursor
  <2>3. /\ sts'[k].tmpl = desired /\ sts'[k].part = RPS
        /\ \A j \in Shards \ {k} : sts'[j] = sts[j]
    BY <1>1, <1>3, <1>6, AppliedType
  <2>4. ASSUME NEW j \in Shards PROVE Cursor(j)'
    <3>1. CASE j = k
      <4>1. \A h \in Ordinals : h =< RPS /\ h \in Nat
        BY Constants
      <4> QED
        BY <1>2, <1>6, <2>1, <2>2, <2>3, <3>1, <4>1, Constants DEF Cursor, Copy, Quiet
    <3>2. CASE j # k
      BY <1>2, <2>3, <3>2 DEF CopyInv, Cursor, Copy
    <3> QED
      BY <3>1, <3>2
  <2>5. ASSUME NEW j \in Shards PROVE Owned(j)'
    <3>1. Owned(j)
      BY DEF CopyInv
    <3> QED
      BY <1>2, <3>1 DEF Owned, Copy
  <2> QED
    BY <1>4, <2>4, <2>5 DEF CopyInv, Gathered
<1>7. CASE /\ \/ cache[k].tmpl = desired /\ statefulSetRolloutSettled(cache[k])
              \/ sts[k].tmpl = desired /\ statefulSetRolloutSettled(sts[k])
           /\ sts' = [sts EXCEPT ![k] = Applied(sts[k], 0)]
  <2>1. sts[k].tmpl = desired /\ Quiet(k)
    BY <1>1, <1>7 DEF SerialInv, Status, statefulSetRolloutSettled
  <2>2. sts[k].part = 0
    <3>1. sts[k].part \in Nat
      BY <1>1, Constants DEF STS
    <3>2. ~(0 < sts[k].part)
      BY <1>1, <1>3, <2>1 DEF CopyInv, Cursor, Quiet
    <3> QED
      BY <3>1, <3>2
  <2>3. /\ sts'[k].tmpl = desired /\ sts'[k].part = 0
        /\ \A j \in Shards \ {k} : sts'[j] = sts[j]
    BY <1>1, <1>3, <1>7, AppliedType
  <2> QED
    BY <1>1, <1>2, <1>4, <2>1, <2>2, <2>3, CopyFrame
<1> QED
  BY <1>1, <1>5, <1>6, <1>7, ApplyWrites

LEMMA CopyGather == CopyInv /\ Gather => CopyInv'
<1> SUFFICES ASSUME CopyInv, Gather PROVE CopyInv'
  OBVIOUS
<1>1. UNCHANGED <<desired, sts, pod>>
  BY DEF Gather
<1>2. CASE op' = NextPass
  BY <1>1, <1>2, CopyFrame DEF NextPass, At
<1>3. CASE op' = At("advance", 0, [k \in Shards |-> [o \in Ordinals |->
                      [redis |-> pod[k][o].redis, synced |-> pod[k][o].synced]]])
  <2>1. ASSUME NEW k \in Shards PROVE Cursor(k)'
    <3>1. Cursor(k)
      BY DEF CopyInv
    <3> QED
      BY <1>1, <3>1 DEF Cursor, Copy
  <2>2. ASSUME NEW k \in Shards PROVE Owned(k)'
    <3>1. Owned(k)
      BY DEF CopyInv
    <3> QED
      BY <1>1, <3>1 DEF Owned, Copy
  <2>3. ASSUME NEW k \in Shards, NEW o \in Ordinals
        PROVE  op'.gt[k][o].redis = pod[k][o].redis /\ op'.gt[k][o].synced = pod[k][o].synced
    BY <1>3 DEF At
  <2>4. Gathered'
    <3>1. ASSUME NEW k \in Shards PROVE \E w \in Ordinals : op'.gt[k][w].redis = "owner"
      BY <2>3 DEF CopyInv, Owned
    <3>2. ASSUME NEW k \in Shards, NEW o \in Ordinals, op'.gt[k][o].synced PROVE Copy(k, o)'
      BY <1>1, <2>3, <3>2 DEF Copy
    <3> QED
      BY <3>1, <3>2 DEF Gathered
  <2> QED
    BY <2>1, <2>2, <2>4 DEF CopyInv
<1> QED
  BY <1>2, <1>3 DEF Gather

\* The gate moves down over a pod only when that pod is a copy: the status is
\* of this template, and what the gather saw of the pod still holds.
LEMMA CopyAdvance == Prompt /\ SerialInv /\ CopyInv /\ AdvanceClusterRollout => CopyInv'
<1> SUFFICES ASSUME Prompt, SerialInv, CopyInv, AdvanceClusterRollout PROVE CopyInv'
  OBVIOUS
<1>1. TypeOK /\ sts \in [Shards -> STS]
  BY DEF SerialInv, TypeOK
<1>2. /\ UNCHANGED <<desired, cache, pod>>
      /\ op.pc = "advance" /\ op'.pc = "repair" /\ op'.gt = op.gt
      /\ \A k \in Shards : sts[k].obs = sts[k].gen
  BY DEF AdvanceClusterRollout, At
<1>3. CASE sts' = sts
  BY <1>2, <1>3, CopyFrame
<1>4. ASSUME NEW k \in Shards, sts[k] \in STS, sts[k].part - 1 \in Ordinals,
             Advances(sts[k], pod[k], op.gt[k]),
             sts' = [sts EXCEPT ![k] = Applied(sts[k], sts[k].part - 1)]
      PROVE  CopyInv'
  <2>1. sts[k].tmpl = desired /\ sts[k].upd = sts[k].tmpl /\ sts[k].part \in Nat
    BY <1>2, <1>4, Constants DEF Advances, SerialInv, Status, STS
  <2>2. /\ sts'[k].tmpl = desired /\ sts'[k].part = sts[k].part - 1
        /\ \A j \in Shards \ {k} : sts'[j] = sts[j]
    BY <1>1, <1>4, AppliedType
  <2>3. ASSUME NEW h \in Ordinals, h >= sts[k].part
        PROVE  pod[k][h].rev = sts[k].tmpl /\ pod[k][h].ready /\ Copy(k, h)
    <3>1. h \in sts[k].part .. RPS
      BY <2>1, <2>3, Constants
    <3>2. /\ pod[k][h].rev = sts[k].upd /\ pod[k][h].ready
          /\ op.gt[k][h].redis = "replica" /\ op.gt[k][h].synced
      BY <1>4, <3>1 DEF Advances, Holds, SyncedWithOwner
    <3> QED
      BY <1>2, <2>1, <3>2 DEF CopyInv, Gathered
  <2>4. ASSUME NEW h \in Ordinals, h < sts[k].part
        PROVE  pod[k][h].rev # sts[k].tmpl /\ pod[k][h].ready /\ Copy(k, h)
    <3>1. h # sts[k].part
      BY <2>1, <2>4, Constants
    <3> QED
      BY <2>4, <3>1 DEF CopyInv, Cursor
  <2>5. ASSUME NEW j \in Shards PROVE Cursor(j)'
    <3>1. CASE j = k
      <4>1. ASSUME NEW h \in Ordinals
            PROVE  /\ h \in Nat /\ (h >= sts[k].part \/ h < sts[k].part)
                   /\ h < sts[k].part - 1 => h < sts[k].part
                   /\ h > sts[k].part - 1 => h >= sts[k].part
        BY <2>1, Constants
      <4> QED
        BY <1>2, <2>1, <2>2, <2>3, <2>4, <3>1, <4>1 DEF Cursor, Copy
    <3>2. CASE j # k
      BY <1>2, <2>2, <3>2 DEF CopyInv, Cursor, Copy
    <3> QED
      BY <3>1, <3>2
  <2>6. ASSUME NEW j \in Shards PROVE Owned(j)'
    <3>1. Owned(j)
      BY DEF CopyInv
    <3> QED
      BY <1>2, <3>1 DEF Owned, Copy
  <2>7. Gathered'
    BY <1>2 DEF CopyInv, Gathered
  <2> QED
    BY <2>5, <2>6, <2>7 DEF CopyInv
<1> QED
  BY <1>1, <1>3, <1>4, AdvanceWrites

\* An owner was gathered, so the repair makes replicas of empty pods and never
\* a second owner.
LEMMA CopyRepair == SerialInv /\ CopyInv /\ Repair => CopyInv'
<1> SUFFICES ASSUME SerialInv, CopyInv, Repair PROVE CopyInv'
  OBVIOUS
<1>1. TypeOK /\ UNCHANGED <<desired, sts>> /\ op.pc = "repair" /\ op'.pc = "apply"
  BY DEF SerialInv, Repair, NextPass, At
<1>2. ASSUME NEW k \in Shards PROVE \E w \in Ordinals : op.gt[k][w].redis = "owner"
  BY <1>1 DEF CopyInv, Gathered
<1>3. ASSUME NEW k \in Shards, NEW o \in Ordinals
      PROVE  /\ Kept(pod'[k][o], pod[k][o]) /\ pod'[k][o].synced = pod[k][o].synced
             /\ \/ pod'[k][o].redis = pod[k][o].redis
                \/ pod[k][o].redis = "empty" /\ pod'[k][o].redis = "replica"
  <2>1. \/ pod'[k][o] = pod[k][o]
        \/ pod[k][o].redis = "empty" /\ pod'[k][o] = [pod[k][o] EXCEPT !.redis = "replica"]
    BY <1>1, <1>2, RepairWrites
  <2>2. pod[k][o] \in Pod
    BY <1>1 DEF TypeOK
  <2> QED
    BY <2>1, <2>2 DEF Pod, Kept
<1>4. ASSUME NEW k \in Shards, NEW o \in Ordinals PROVE Copy(k, o)' <=> Copy(k, o)
  BY <1>3 DEF Copy
<1>5. ASSUME NEW k \in Shards PROVE Cursor(k)'
  <2>1. Cursor(k)
    BY DEF CopyInv
  <2> QED
    BY <1>1, <1>3, <1>4, <2>1 DEF Cursor, Kept
<1>6. ASSUME NEW k \in Shards PROVE Owned(k)'
  <2>1. ASSUME NEW o \in Ordinals PROVE pod'[k][o].redis = "owner" <=> pod[k][o].redis = "owner"
    BY <1>3
  <2>2. ASSUME NEW o \in Ordinals
        PROVE  pod[k][o].redis = "down" => pod'[k][o].redis = "down"
    BY <1>3
  <2>3. Owned(k)
    BY DEF CopyInv
  <2>4. ASSUME NEW o \in Ordinals
        PROVE  /\ Copy(k, o)' => pod'[k][o].data
               /\ ~pod'[k][o].ready /\ pod'[k][o].proc # "terminating" => pod'[k][o].redis = "down"
    BY <1>3, <1>4, <2>2, <2>3 DEF Owned, Kept
  <2> QED
    BY <2>1, <2>3, <2>4 DEF Owned
<1> QED
  BY <1>1, <1>5, <1>6 DEF CopyInv, Gathered

\* A step on one pod of shard k, which no longer has to be ready or a copy: the
\* pod at the gate.
LEMMA CopyPodFrame ==
    ASSUME CopyInv, NEW k \in Shards, UNCHANGED <<desired, sts, op>>,
           \A j \in Shards \ {k}, h \in Ordinals : pod'[j][h] = pod[j][h],
           Cursor(k)', Owned(k)',
           op.pc = "advance" => \A h \in Ordinals :
              pod'[k][h].ready => pod[k][h].ready /\ (Copy(k, h) => Copy(k, h)')
    PROVE  CopyInv'
<1>1. ASSUME NEW j \in Shards, j # k, NEW h \in Ordinals PROVE Copy(j, h)' <=> Copy(j, h)
  BY <1>1 DEF Copy
<1>2. ASSUME NEW j \in Shards, j # k PROVE Cursor(j)'
  <2>1. Cursor(j)
    BY DEF CopyInv
  <2> QED
    BY <1>1, <1>2, <2>1 DEF Cursor
<1>3. ASSUME NEW j \in Shards, j # k PROVE Owned(j)'
  <2>1. Owned(j)
    BY DEF CopyInv
  <2>2. \A h \in Ordinals : pod'[j][h] = pod[j][h]
    BY <1>3
  <2> QED
    <3>1. ASSUME NEW h \in Ordinals PROVE Copy(j, h)' <=> Copy(j, h)
      BY <1>1, <1>3
    <3> QED
      BY <2>1, <2>2, <3>1 DEF Owned
<1>4. Gathered'
  <2>1. Gathered
    BY DEF CopyInv
  <2>2. ASSUME op.pc = "advance", NEW j \in Shards, NEW h \in Ordinals, pod'[j][h].ready
        PROVE  pod[j][h].ready /\ (Copy(j, h) => Copy(j, h)')
    <3>1. CASE j = k
      BY <2>2, <3>1
    <3>2. CASE j # k
      BY <1>1, <2>2, <3>2
    <3> QED
      BY <3>1, <3>2
  <2> QED
    BY <2>1, <2>2 DEF Gathered
<1> QED
  BY <1>2, <1>3, <1>4 DEF CopyInv

\* A pod that is not ready is the one at the gate, and nobody depends on it.
LEMMA CopyGate ==
    ASSUME SerialInv, CopyInv, NEW k \in Shards, NEW o \in Ordinals, NEW p \in Pod, Writes(k, o, p),
           UNCHANGED <<desired, sts, op>>, o = sts[k].part,
           sts[k].tmpl # desired => p.redis = "owner" \/ p.synced,
           pod[k][o].redis = "owner" <=> p.redis = "owner",
           p.redis = "owner" \/ p.synced => p.data,
           ~p.ready /\ p.proc # "terminating" => p.redis = "down",
           op.pc = "advance" /\ p.ready =>
              pod[k][o].ready /\ (Copy(k, o) => p.redis = "owner" \/ p.synced)
    PROVE  CopyInv'
<1>1. /\ pod'[k][o] = p
      /\ \A j \in Shards, h \in Ordinals : j # k \/ h # o => pod'[j][h] = pod[j][h]
  BY Written DEF SerialInv
<1>2. ASSUME NEW h \in Ordinals, h # o
      PROVE  pod'[k][h] = pod[k][h] /\ (Copy(k, h)' <=> Copy(k, h))
  BY <1>1, <1>2 DEF Copy
<1>3. Copy(k, o)' <=> p.redis = "owner" \/ p.synced
  BY <1>1 DEF Copy
<1>4. ~(o < o) /\ ~(o > o) /\ sts[k].part = o
  BY Constants
<1>5. Cursor(k)'
  <2>1. Cursor(k)
    BY DEF CopyInv
  <2>2. ASSUME NEW h \in Ordinals, h # o PROVE pod'[k][h].ready /\ Copy(k, h)'
    BY <1>2, <1>4, <2>1, <2>2 DEF Cursor
  <2>3. ASSUME NEW h \in Ordinals, h # o, h < o PROVE pod'[k][h].rev # sts[k].tmpl
    BY <1>2, <1>4, <2>1, <2>3 DEF Cursor
  <2>4. ASSUME NEW h \in Ordinals, h # o, h > o PROVE pod'[k][h].rev = sts[k].tmpl
    BY <1>2, <1>4, <2>1, <2>4 DEF Cursor
  <2>5. ASSUME sts[k].tmpl # desired, NEW h \in Ordinals PROVE Copy(k, h)'
    BY <1>3, <2>2, <2>5
  <2> QED
    BY <1>4, <2>2, <2>3, <2>4, <2>5 DEF Cursor
<1>6. Owned(k)'
  <2>1. ASSUME NEW h \in Ordinals PROVE pod'[k][h].redis = "owner" <=> pod[k][h].redis = "owner"
    BY <1>1, <1>2
  <2>2. ASSUME NEW h \in Ordinals
        PROVE  /\ Copy(k, h)' => pod'[k][h].data
               /\ ~pod'[k][h].ready /\ pod'[k][h].proc # "terminating" => pod'[k][h].redis = "down"
    <3>1. CASE h = o
      BY <1>1, <1>3, <3>1
    <3>2. CASE h # o
      <4>1. Owned(k)
        BY DEF CopyInv
      <4> QED
        BY <1>2, <3>2, <4>1 DEF Owned
    <3> QED
      BY <3>1, <3>2
  <2>3. \E w \in Ordinals : pod'[k][w].redis = "owner"
    BY <2>1 DEF CopyInv, Owned
  <2>4. \A w, v \in Ordinals : pod'[k][w].redis = "owner" /\ pod'[k][v].redis = "owner" => w = v
    BY <2>1 DEF CopyInv, Owned
  <2> QED
    BY <2>2, <2>3, <2>4 DEF Owned
<1>7. ASSUME op.pc = "advance", NEW h \in Ordinals
      PROVE  pod'[k][h].ready => pod[k][h].ready /\ (Copy(k, h) => Copy(k, h)')
  BY <1>1, <1>2, <1>3, <1>7
<1>8. \A j \in Shards \ {k}, h \in Ordinals : pod'[j][h] = pod[j][h]
  BY <1>1
<1> QED
  BY <1>5, <1>6, <1>7, <1>8, CopyPodFrame

LEMMA CopyDelete ==
    ASSUME SerialInv, CopyInv, NEW k \in Shards, NEW o \in Ordinals, DeleteOutdated(k, o)
    PROVE  CopyInv'
<1> DEFINE p == [pod[k][o] EXCEPT !.proc = "terminating", !.ready = FALSE]
<1>1. TypeOK /\ pod[k][o] \in Pod /\ UNCHANGED <<desired, sts, op>> /\ o \in Nat /\ sts[k].part \in Nat
  BY Constants DEF SerialInv, TypeOK, DeleteOutdated, STS
<1>2. /\ p \in Pod /\ Writes(k, o, p) /\ p.ready = FALSE /\ p.proc = "terminating"
      /\ p.redis = pod[k][o].redis /\ p.synced = pod[k][o].synced /\ p.data = pod[k][o].data
  BY <1>1, DeleteWrites DEF Pod
<1> HIDE DEF p
<1>3. o = sts[k].part
  <2>1. o >= sts[k].part /\ pod[k][o].rev # sts[k].tmpl
    BY DEF DeleteOutdated
  <2>2. ~(o > sts[k].part)
    BY <2>1 DEF CopyInv, Cursor
  <2> QED
    BY <1>1, <2>1, <2>2
<1>4. /\ sts[k].tmpl # desired => Copy(k, o)
      /\ Copy(k, o) => pod[k][o].data
      /\ Copy(k, o) <=> p.redis = "owner" \/ p.synced
  BY <1>2 DEF CopyInv, Cursor, Owned, Copy
<1> QED
  BY <1>1, <1>2, <1>3, <1>4, CopyGate

\* The pod that ends is not the owner: the other pods are its synced
\* replicas, so the preStop hook has handed the slots over.
LEMMA CopyTerminate ==
    ASSUME SerialInv, CopyInv, NEW k \in Shards, NEW o \in Ordinals, Terminate(k, o)
    PROVE  CopyInv'
<1> DEFINE p == [pod[k][o] EXCEPT !.proc = "absent", !.redis = "down", !.synced = FALSE, !.data = FALSE]
<1>1. TypeOK /\ pod[k][o] \in Pod /\ UNCHANGED <<desired, sts, op>>
  BY DEF SerialInv, TypeOK, Terminate
<1>2. /\ p \in Pod /\ Writes(k, o, p) /\ p.ready = pod[k][o].ready /\ p.proc = "absent"
      /\ p.redis = "down" /\ p.synced = FALSE
  BY <1>1, TerminateWrites DEF Pod
<1> HIDE DEF p
<1>3. ~pod[k][o].ready
  BY DEF Terminate, SerialInv, TopDown
<1>4. o = sts[k].part
  BY <1>3 DEF CopyInv, Cursor
<1>5. sts[k].tmpl = desired
  <2>1. ~Quiet(k)
    BY <1>3 DEF Quiet
  <2>2. k =< k
    BY Constants
  <2> QED
    BY <2>1, <2>2 DEF SerialInv, Turns
<1>6. pod[k][o].redis # "owner"
  <2> SUFFICES ASSUME pod[k][o].redis = "owner" PROVE FALSE
    OBVIOUS
  <2>1. PICK r \in Ordinals : r # o
    <3>1. 0 \in Ordinals /\ 1 \in Ordinals
      BY Constants
    <3> QED
      BY <3>1
  <2>2. Copy(k, r) /\ pod[k][r].redis # "owner"
    BY <1>4, <2>1 DEF CopyInv, Cursor, Owned
  <2> QED
    BY <2>2 DEF Copy, Terminate
<1> QED
  BY <1>1, <1>2, <1>3, <1>4, <1>5, <1>6, CopyGate

LEMMA CopyCreate ==
    ASSUME SerialInv, CopyInv, NEW k \in Shards, NEW o \in Ordinals, CreatePod(k, o)
    PROVE  CopyInv'
<1> DEFINE r == IF o < sts[k].part THEN sts[k].cur ELSE sts[k].tmpl
           p == [pod[k][o] EXCEPT !.proc = "running", !.rev = r]
<1>1. TypeOK /\ pod[k][o] \in Pod /\ UNCHANGED <<desired, sts, op>> /\ pod[k][o].proc = "absent"
  BY DEF SerialInv, TypeOK, CreatePod
<1>2. /\ p \in Pod /\ Writes(k, o, p) /\ p.ready = pod[k][o].ready
      /\ p.redis = pod[k][o].redis /\ p.synced = pod[k][o].synced /\ p.data = pod[k][o].data
  BY <1>1, CreateWrites DEF Pod
<1> HIDE DEF p
<1>3. ~pod[k][o].ready
  BY <1>1 DEF SerialInv, TopDown
<1>4. o = sts[k].part /\ pod[k][o].redis = "down"
  BY <1>1, <1>3 DEF CopyInv, Cursor, Owned
<1>5. /\ sts[k].tmpl # desired => Copy(k, o)
      /\ Copy(k, o) => pod[k][o].data
      /\ Copy(k, o) <=> p.redis = "owner" \/ p.synced
  BY <1>2 DEF CopyInv, Cursor, Owned, Copy
<1> QED
  BY <1>1, <1>2, <1>3, <1>4, <1>5, CopyGate

LEMMA CopyReady ==
    ASSUME Prompt, SerialInv, CopyInv, NEW k \in Shards, NEW o \in Ordinals, BecomeReady(k, o)
    PROVE  CopyInv'
<1> DEFINE p == [pod[k][o] EXCEPT !.ready = TRUE, !.redis = "empty"]
<1>1. /\ TypeOK /\ pod[k][o] \in Pod /\ UNCHANGED <<desired, sts, op>> /\ op.pc # "advance"
      /\ pod[k][o].proc = "running" /\ ~pod[k][o].ready
  BY DEF SerialInv, TypeOK, BecomeReady
<1>2. /\ p \in Pod /\ Writes(k, o, p) /\ p.ready = TRUE
      /\ p.redis = "empty" /\ p.synced = pod[k][o].synced /\ p.data = pod[k][o].data
  BY <1>1, ReadyWrites DEF Pod
<1> HIDE DEF p
<1>3. o = sts[k].part /\ pod[k][o].redis = "down"
  BY <1>1 DEF CopyInv, Cursor, Owned
<1>4. /\ sts[k].tmpl # desired => Copy(k, o)
      /\ Copy(k, o) => pod[k][o].data
      /\ Copy(k, o) <=> p.redis = "owner" \/ p.synced
  BY <1>2, <1>3 DEF CopyInv, Cursor, Owned, Copy
<1> QED
  BY <1>1, <1>2, <1>3, <1>4, CopyGate

\* A full sync copies an owner, which has the keys.
LEMMA CopySync ==
    ASSUME SerialInv, CopyInv, NEW k \in Shards, NEW o \in Ordinals, FullSync(k, o)
    PROVE  CopyInv'
<1>1. /\ TypeOK /\ pod[k][o] \in Pod /\ UNCHANGED <<desired, sts, op>>
      /\ pod[k][o].redis = "replica" /\ ~pod[k][o].synced
  BY DEF SerialInv, TypeOK, FullSync
<1>2. PICK w \in Ordinals :
            LET p == [pod[k][o] EXCEPT !.synced = TRUE, !.data = pod[k][w].data]
            IN  pod[k][w].redis = "owner" /\ p \in Pod /\ Writes(k, o, p)
  BY <1>1, SyncWrites
<1> DEFINE p == [pod[k][o] EXCEPT !.synced = TRUE, !.data = pod[k][w].data]
<1>3. pod[k][w].data
  BY <1>2 DEF CopyInv, Owned, Copy
<1>4. /\ p \in Pod /\ Writes(k, o, p) /\ p.ready = pod[k][o].ready /\ p.proc = pod[k][o].proc
      /\ p.redis = "replica" /\ p.synced = TRUE /\ p.data = pod[k][w].data
  BY <1>1, <1>2 DEF Pod
<1> HIDE DEF p
<1>5. o = sts[k].part
  BY <1>1 DEF CopyInv, Cursor, Copy
<1>6. ~p.ready /\ p.proc # "terminating" => p.redis = "down"
  BY <1>1, <1>4 DEF CopyInv, Owned
<1> QED
  BY <1>1, <1>3, <1>4, <1>5, <1>6, CopyGate

LEMMA CopyHandOver ==
    ASSUME SerialInv, CopyInv, NEW k \in Shards, NEW o \in Ordinals, NEW r \in Ordinals, r # o,
           HandOver(k, o, r)
    PROVE  CopyInv'
<1>1. /\ TypeOK /\ UNCHANGED <<desired, sts, op>>
      /\ pod[k][o].proc = "terminating" /\ pod[k][o].redis = "owner"
      /\ pod[k][r].proc = "running" /\ pod[k][r].redis = "replica" /\ pod[k][r].synced
  BY DEF SerialInv, HandOver
<1>2. /\ pod'[k][o].redis = "replica" /\ pod'[k][o].synced = TRUE
      /\ pod'[k][r].redis = "owner"
  BY <1>1, HandOverWrites
<1>3. ASSUME NEW j \in Shards, NEW h \in Ordinals
      PROVE  /\ pod'[j][h].rev = pod[j][h].rev /\ pod'[j][h].proc = pod[j][h].proc
             /\ pod'[j][h].ready = pod[j][h].ready /\ pod'[j][h].data = pod[j][h].data
  <2>1. Kept(pod'[j][h], pod[j][h])
    BY <1>1, HandOverWrites
  <2> QED
    BY <2>1 DEF Kept
<1>4. ASSUME NEW j \in Shards, NEW h \in Ordinals, j # k \/ (h # o /\ h # r)
      PROVE  pod'[j][h] = pod[j][h]
  <2>1. pod \in [Shards -> [Ordinals -> Pod]]
    BY <1>1 DEF TypeOK
  <2>2. pod' = [pod EXCEPT ![k][r].redis = "owner", ![k][r].synced = FALSE,
                           ![k][o].redis = "replica", ![k][o].synced = TRUE]
    BY DEF HandOver
  <2> QED
    BY <1>4, <2>1, <2>2
<1>5. ASSUME NEW h \in Ordinals PROVE Copy(k, h)' <=> Copy(k, h)
  <2>1. CASE h # o /\ h # r
    BY <1>4, <2>1 DEF Copy
  <2>2. CASE h = o \/ h = r
    BY <1>1, <1>2, <2>2 DEF Copy
  <2> QED
    BY <2>1, <2>2
<1>6. ASSUME NEW h \in Ordinals PROVE pod'[k][h].redis = "owner" <=> h = r
  <2>1. CASE h # o /\ h # r
    <3>1. pod'[k][h] = pod[k][h] /\ pod[k][h].redis # "owner"
      BY <1>1, <1>4, <2>1 DEF CopyInv, Owned
    <3> QED
      BY <2>1, <3>1
  <2>2. CASE h = o \/ h = r
    BY <1>2, <2>2
  <2> QED
    BY <2>1, <2>2
<1>7. ASSUME NEW h \in Ordinals
      PROVE  ~pod'[k][h].ready /\ pod'[k][h].proc # "terminating" => pod'[k][h].redis = "down"
  <2>1. ~pod[k][h].ready /\ pod[k][h].proc # "terminating" => pod[k][h].redis = "down"
    BY DEF CopyInv, Owned
  <2>2. CASE h # o /\ h # r
    BY <1>4, <2>1, <2>2
  <2>3. CASE h = o \/ h = r
    BY <1>1, <1>3, <2>1, <2>3
  <2> QED
    BY <2>2, <2>3
<1>8. Cursor(k)'
  <2>1. Cursor(k)
    BY DEF CopyInv
  <2>2. ASSUME NEW h \in Ordinals
        PROVE  /\ h # sts[k].part => pod'[k][h].ready /\ Copy(k, h)'
               /\ h < sts[k].part => pod'[k][h].rev # sts[k].tmpl
               /\ h > sts[k].part => pod'[k][h].rev = sts[k].tmpl
               /\ sts[k].tmpl # desired => Copy(k, h)'
    BY <1>3, <1>5, <2>1 DEF Cursor
  <2> QED
    BY <1>1, <2>2 DEF Cursor
<1>9. Owned(k)'
  <2>1. Owned(k)
    BY DEF CopyInv
  <2>2. ASSUME NEW h \in Ordinals PROVE Copy(k, h)' => pod'[k][h].data
    BY <1>3, <1>5, <2>1 DEF Owned
  <2> QED
    BY <1>6, <1>7, <2>2 DEF Owned
<1>10. ASSUME NEW h \in Ordinals
      PROVE  pod'[k][h].ready => pod[k][h].ready /\ (Copy(k, h) => Copy(k, h)')
  BY <1>3, <1>5
<1>11. \A j \in Shards \ {k}, h \in Ordinals : pod'[j][h] = pod[j][h]
  BY <1>4
<1> QED
  BY <1>1, <1>8, <1>9, <1>10, <1>11, CopyPodFrame

LEMMA CopyStep == ~Hasty /\ Prompt /\ SerialInv /\ CopyInv /\ [Next]_vars => CopyInv'
<1> SUFFICES ASSUME ~Hasty, Prompt, SerialInv, CopyInv, [Next]_vars PROVE CopyInv'
  OBVIOUS
<1>1. CASE UNCHANGED vars
  BY <1>1, CopyFrame DEF vars
<1>2. ASSUME NEW k \in Shards, InformerDelivers(k) PROVE CopyInv'
  BY <1>2, CopyFrame DEF InformerDelivers
<1>3. ASSUME NEW k \in Shards, StatusSync(k) PROVE CopyInv'
  <2>1. TypeOK /\ UNCHANGED <<desired, pod, op>>
    BY <1>3 DEF StatusSync, SerialInv
  <2>2. PICK t \in STS : /\ sts' = [sts EXCEPT ![k] = t]
                        /\ t.tmpl = sts[k].tmpl /\ t.part = sts[k].part
    BY <1>3, <2>1, SyncedStatus
  <2>3. \A j \in Shards : sts'[j].tmpl = sts[j].tmpl /\ sts'[j].part = sts[j].part
    BY <2>1, <2>2 DEF TypeOK
  <2> QED
    BY <2>1, <2>3, CopyFrame
<1>4. ASSUME NEW k \in Shards, NEW o \in Ordinals, PodStep(k, o) PROVE CopyInv'
  <2>1. ASSUME NEW r \in Ordinals \ {o}, HandOver(k, o, r) PROVE CopyInv'
    <3>1. r \in Ordinals /\ r # o
      OBVIOUS
    <3> QED
      BY <2>1, <3>1, CopyHandOver
  <2> QED
    BY <1>4, <2>1, CopyDelete, CopyTerminate, CopyCreate, CopyReady, CopySync DEF PodStep
<1> QED
  BY <1>1, <1>2, <1>3, <1>4, CopyEdit, CopyApply, CopyGather, CopyAdvance, CopyRepair DEF Next, Operator

\* A rollout never takes the last copy of a shard's keys, with any number of
\* shards, replicas and edits: planShardRolloutPartition lets the gate down
\* only over a pod that has synced with the owner, and the preStop hook hands
\* the slots over.  It rests on the two timing assumptions of the model: the
\* spec is edited between rollouts, and the controller observes an apply
\* before the operator next advances.
THEOREM ShardKeepsACopyAlways == ASSUME ~Hasty, Prompt PROVE Spec => []ShardKeepsACopy
<1>1. Init => SerialInv /\ CopyInv
  BY SerialInit, CopyInit
<1>2. SerialInv /\ CopyInv /\ [Next]_vars => (SerialInv /\ CopyInv)'
  BY SerialStep, CopyStep
<1>3. SerialInv /\ CopyInv => ShardKeepsACopy
  BY DEF CopyInv, Owned, Copy, ShardKeepsACopy
<1> QED
  BY <1>1, <1>2, <1>3, PTL DEF Spec
============================================================================
