---------------------- MODULE ClusterMigration_proofs ----------------------
(***************************************************************************)
(* The migration of a legacy cluster costs no copies that faults did not.  *)
(*                                                                         *)
(* MigrationInv: whoever has data owns its range or follows the owner, and *)
(* a shard has enough copies that neither a planned attach nor the         *)
(* decommission of the legacy pods takes.                                  *)
(***************************************************************************)
EXTENDS ClusterMigration, FiniteSetTheorems, TLAPS

Counters == {"crashes", "losses", "probes", "errors", "holds", "faults"}

Phases == {"Gather", "Standup", "Meet", "Replicate", "Failover", "Decommission"}
Command == Pods \X (Pods \cup {Ghost})

TypeOK ==
    /\ pod \in [Pods -> {"absent", "down", "up"}] /\ data \in [Pods -> {"none", "copy", "live"}]
    /\ master \in [Pods -> Pods \cup {NoPod, Ghost}] /\ owner \in [Shards -> Pods \cup {Ghost}]
    /\ sts \subseteq {"old", "new"} /\ budget \in [Counters -> Nat]
    /\ op \in [phase : Phases, acts : SUBSET Command]

\* A pod that holds data is up, and is the owner of its range or follows it.
Placed(p) ==
    /\ pod[p] # "up" => data[p] = "none"
    /\ p \in New /\ pod[p] # "absent" => "new" \in sts
    /\ master[p] \in Pods => master[p] = owner[ShardOf(p)]
    /\ data[p] # "none" => owner[ShardOf(p)] = p \/ master[p] = owner[ShardOf(p)]

\* The owner of a range is a master of its shard that exists.  It has no data
\* only when nobody has.
Headed(k) == owner[k] \in Pods =>
    /\ ShardOf(owner[k]) = k /\ pod[owner[k]] # "absent" /\ master[owner[k]] = NoPod
    /\ pod[owner[k]] = "up" /\ data[owner[k]] = "none" =>
          \A q \in Pods : ShardOf(q) = k => data[q] = "none"

Shape == (\A p \in Pods : Placed(p)) /\ (\A k \in Shards : Headed(k))

\* The commands of the pass, since they were planned.
Pending ==
    /\ "old" \notin sts => op = Idle
    /\ op.phase = "Replicate" => \A a \in op.acts : a[2] \in Pods =>
          /\ ShardOf(a[2]) = ShardOf(a[1])
          /\ owner[ShardOf(a[1])] = a[2] \/ master[a[2]] # NoPod
    /\ op.phase = "Failover" => \A a, b \in op.acts : a = b

Leaving == "old" \notin sts \/ op.phase = "Decommission"
Attaches(p) == op.phase = "Replicate" /\ \E a \in op.acts : a[1] = p

\* A copy that neither a planned attach nor the deletion of the legacy pods
\* will take.
Lasts(p) == pod[p] = "up" /\ data[p] # "none" /\ ~Attaches(p) /\ (Leaving => p \in New)
Lasting(k) == {p \in Pods : ShardOf(p) = k /\ Lasts(p)}

Enough == \A k \in Shards : Cardinality(Lasting(k)) + budget.faults >= 1 + RPS

MigrationInv == TypeOK /\ Shape /\ Pending /\ Enough

----------------------------------------------------------------------------
(* Pods and copies.                                                        *)

LEMMA PodFacts ==
    /\ Pods = Old \cup New /\ NoPod \notin Pods /\ Ghost \notin Pods /\ NoPod # Ghost
    /\ \A p \in Pods : ShardOf(p) \in Shards
    /\ \A p \in Old : p[1] = "old" /\ p \notin New
    /\ \A p \in New : p[1] = "new"
    /\ \A k \in Shards : NewMaster(k) \in New /\ ShardOf(NewMaster(k)) = k
<1>1. RPS \in Nat /\ 0 \in 0 .. RPS
  BY MigrationConstants
<1>2. NoPod \notin Pods /\ Ghost \notin Pods /\ NoPod # Ghost
  BY DEF Pods, Old, New, NoPod, Ghost
<1>3. \A p \in Pods : ShardOf(p) \in Shards
  BY DEF Pods, Old, New, ShardOf
<1>4. /\ \A p \in Old : p[1] = "old" /\ p \notin New
      /\ \A p \in New : p[1] = "new"
  BY DEF Old, New
<1>5. \A k \in Shards : NewMaster(k) \in New /\ ShardOf(NewMaster(k)) = k
  BY <1>1 DEF New, NewMaster, ShardOf
<1> QED
  BY <1>2, <1>3, <1>4, <1>5 DEF Pods

Members(which, k) == {p \in which : ShardOf(p) = k}

\* A shard has RPS + 1 pods of either kind.
LEMMA ShardSize ==
    ASSUME NEW k \in Shards
    PROVE  /\ IsFiniteSet(Members(Pods, k))
           /\ IsFiniteSet(Members(New, k)) /\ Cardinality(Members(New, k)) = 1 + RPS
<1> DEFINE N == Members(New, k)
           O == Members(Old, k)
           f == [m \in 0 .. RPS |-> <<"new", k, m>>]
           g == [m \in 0 .. RPS |-> <<"old", k, m>>]
<1>1. RPS \in Nat /\ IsFiniteSet(0 .. RPS) /\ Cardinality(0 .. RPS) = 1 + RPS
  BY FS_Interval, MigrationConstants
<1>2. f \in Bijection(0 .. RPS, N)
  <2>1. f \in [0 .. RPS -> N] /\ \A a, b \in 0 .. RPS : f[a] = f[b] => a = b
    BY DEF New, ShardOf, Members
  <2>2. \A t \in N : \E m \in 0 .. RPS : f[m] = t
    BY DEF New, ShardOf, Members
  <2> QED
    BY <2>1, <2>2 DEF Bijection, Injection, Surjection, IsInjective
<1>3. g \in Bijection(0 .. RPS, O)
  <2>1. g \in [0 .. RPS -> O] /\ \A a, b \in 0 .. RPS : g[a] = g[b] => a = b
    BY DEF Old, ShardOf, Members
  <2>2. \A t \in O : \E m \in 0 .. RPS : g[m] = t
    BY DEF Old, ShardOf, Members
  <2> QED
    BY <2>1, <2>2 DEF Bijection, Injection, Surjection, IsInjective
<1> HIDE DEF f, g
<1>4. /\ IsFiniteSet(N) /\ Cardinality(N) = 1 + RPS
      /\ IsFiniteSet(O)
  BY <1>1, <1>2, <1>3, FS_Bijection DEF ExistsBijection
<1>5. Members(Pods, k) = N \cup O
  BY DEF Members, Pods
<1> QED
  BY <1>4, <1>5, FS_Union

\* All but one of enough copies are enough but one.
LEMMA CountDown ==
    ASSUME NEW k \in Shards, NEW S, NEW T, T \subseteq Members(Pods, k), NEW p, S \ {p} \subseteq T,
           S \subseteq Members(Pods, k)
    PROVE  /\ Cardinality(S) \in Nat /\ Cardinality(T) \in Nat
           /\ Cardinality(S) =< Cardinality(T) + 1
           /\ p \notin S => Cardinality(S) =< Cardinality(T)
<1>1. IsFiniteSet(S) /\ IsFiniteSet(T)
  BY ShardSize, FS_Subset
<1>2. Cardinality(S) \in Nat /\ Cardinality(T) \in Nat
  BY <1>1, FS_CardinalityType
<1>3. Cardinality(S \ {p}) =< Cardinality(T)
  BY <1>1, FS_Subset
<1>4. Cardinality(S \ {p}) = IF p \in S THEN Cardinality(S) - 1 ELSE Cardinality(S)
  BY <1>1, FS_RemoveElement
<1> QED
  BY <1>2, <1>3, <1>4

----------------------------------------------------------------------------
(* What a pass may do.                                                     *)

LEMMA SpendFacts ==
    ASSUME budget \in [Counters -> Nat], NEW what \in Counters \ {"faults"}
    PROVE  /\ Spend(what) => budget' \in [Counters -> Nat] /\ budget'.faults = budget.faults
           /\ Fault(what) => budget' \in [Counters -> Nat] /\ budget'.faults = budget.faults + 1
<1>1. budget.faults \in Nat /\ budget[what] \in Nat /\ what \in Counters /\ what # "faults"
  BY DEF Counters
<1>2. Spend(what) => budget' \in [Counters -> Nat] /\ budget'.faults = budget.faults
  BY <1>1 DEF Spend, Counters
<1>3. ASSUME Fault(what) PROVE budget' \in [Counters -> Nat] /\ budget'.faults = budget.faults + 1
  <2>1. budget[what] - 1 \in Nat /\ budget.faults + 1 \in Nat
    <3>1. budget[what] > 0
      BY <1>3 DEF Fault
    <3> QED
      BY <1>1, <3>1
  <2>2. budget' = [budget EXCEPT ![what] = budget[what] - 1, !["faults"] = budget.faults + 1]
    BY <1>1, <1>3 DEF Fault, Counters
  <2> QED
    BY <1>1, <2>1, <2>2 DEF Counters
<1> QED
  BY <1>2, <1>3

LEMMA PlanCases ==
    ASSUME NEW R, NEW c, NEW seed
    PROVE  LET plan      == PlanClusterMigration(R, c, seed)
               unsettled == {p \in New : ~Settled(R, c, p)}
           IN  \/ plan = [phase |-> "Meet", acts |-> missingNewPodMeets(R, c) \X {seed}]
               \/ plan = [phase |-> "Standup", acts |-> {}]
               \/ plan = [phase |-> "Replicate", acts |-> planReplicates(R, c)]
               \/ plan = [phase |-> "Failover", acts |-> nextFailover]
               \/ /\ New \ Met(R, c) = {} /\ unsettled = {} /\ nextFailover = {}
                  /\ plan = [phase |-> "Decommission", acts |-> {}]
<1> DEFINE missing   == New \ Met(R, c)
           meets     == missingNewPodMeets(R, c)
           unsettled == {p \in New : ~Settled(R, c, p)}
<1> HIDE DEF missing, meets, unsettled
<1>1. PlanClusterMigration(R, c, seed) =
          CASE meets # {}     -> [phase |-> "Meet", acts |-> meets \X {seed}]
            [] missing # {} /\ meets = {} -> [phase |-> "Standup", acts |-> {}]
            [] missing = {} /\ unsettled # {} ->
                  [phase |-> "Replicate", acts |-> planReplicates(R, c)]
            [] missing = {} /\ unsettled = {} /\ nextFailover # {} ->
                  [phase |-> "Failover", acts |-> nextFailover]
            [] OTHER -> [phase |-> "Decommission", acts |-> {}]
  BY DEF PlanClusterMigration, missing, meets, unsettled
<1>2. missing = {} => meets = {}
  BY DEF missing, meets, missingNewPodMeets
<1> QED
  BY <1>1, <1>2 DEF missing, meets, unsettled

\* A pass reads what is up; where it decommissions, every new pod is up and
\* settled and the first of each shard owns the range.
LEMMA GatherPlans ==
    ASSUME TypeOK, NEW c, NEW seed \in Old, Gather(c, seed)
    PROVE  /\ UNCHANGED <<nodes, sts>> /\ op = Idle /\ "old" \in sts
           /\ budget' \in [Counters -> Nat] /\ budget'.faults = budget.faults
           /\ \E R \in SUBSET Pods :
                 /\ \A p \in R : pod[p] = "up"
                 /\ op' = PlanClusterMigration(R, c, seed)
<1>1. PICK blind : LET R == {p \in Pods \ blind : pod[p] = "up"}
                   IN  /\ \/ UNCHANGED budget
                          \/ Spend("probes")
                       /\ op' = PlanClusterMigration(R, c, seed)
  BY DEF Gather
<1>2. budget' \in [Counters -> Nat] /\ budget'.faults = budget.faults
  <2>1. "probes" \in Counters \ {"faults"} /\ budget \in [Counters -> Nat]
    BY DEF Counters, TypeOK
  <2> QED
    BY <1>1, <2>1, SpendFacts
<1> DEFINE R == {p \in Pods \ blind : pod[p] = "up"}
<1>3. R \in SUBSET Pods /\ (\A p \in R : pod[p] = "up") /\ op' = PlanClusterMigration(R, c, seed)
  BY <1>1
<1> HIDE DEF R
<1> QED
  BY <1>2, <1>3 DEF Gather

\* At most one failover is planned.
LEMMA OneFailover == TypeOK => /\ nextFailover \subseteq Command
                               /\ \A a, b \in nextFailover : a = b
<1> SUFFICES ASSUME TypeOK
             PROVE  /\ nextFailover \subseteq Command
                    /\ \A a, b \in nextFailover : a = b
  OBVIOUS
<1> DEFINE first(k) == /\ k \in Shards /\ owner[k] # NewMaster(k)
                       /\ \A j \in Shards : owner[j] # NewMaster(j) => k =< j
<1>1. ASSUME NEW a \in nextFailover PROVE \E k \in Shards : first(k) /\ a = <<NewMaster(k), owner[k]>>
  BY DEF nextFailover
<1>2. ASSUME NEW k, first(k) PROVE <<NewMaster(k), owner[k]>> \in Command
  BY <1>2, PodFacts DEF TypeOK, Command
<1>3. ASSUME NEW k, NEW j, first(k), first(j) PROVE k = j
  <2>1. k \in Nat /\ j \in Nat /\ k =< j /\ j =< k
    BY <1>3, MigrationConstants DEF Shards
  <2> QED
    BY <2>1
<1> HIDE DEF first
<1> QED
  BY <1>1, <1>2, <1>3

----------------------------------------------------------------------------
(* Types.                                                                  *)

LEMMA TypeInit == Init => TypeOK
<1> SUFFICES ASSUME Init PROVE TypeOK
  OBVIOUS
<1>1. \A p \in Old : <<"old", p[2], 0>> \in Pods
  BY MigrationConstants DEF Old, Pods
<1>2. \A k \in Shards : <<"old", k, 0>> \in Pods
  BY MigrationConstants DEF Old, Pods
<1>3. master \in [Pods -> Pods \cup {NoPod, Ghost}]
  BY <1>1 DEF Init
<1>4. owner \in [Shards -> Pods \cup {Ghost}]
  BY <1>2 DEF Init
<1>5. pod \in [Pods -> {"absent", "down", "up"}] /\ data \in [Pods -> {"none", "copy", "live"}]
  BY DEF Init
<1>6. budget \in [Counters -> Nat]
  BY MigrationConstants DEF Init, Counters
<1>7. op \in [phase : Phases, acts : SUBSET Command]
  BY DEF Init, Idle, Phases
<1> QED
  BY <1>3, <1>4, <1>5, <1>6, <1>7 DEF Init, TypeOK

LEMMA PlanType ==
    ASSUME TypeOK, NEW R \in SUBSET Pods, NEW c, NEW seed \in Old
    PROVE  PlanClusterMigration(R, c, seed) \in [phase : Phases, acts : SUBSET Command]
<1>1. New \subseteq Pods /\ Old \subseteq Pods
  BY PodFacts
<1>2. missingNewPodMeets(R, c) \X {seed} \in SUBSET Command
  BY <1>1 DEF missingNewPodMeets, Command
<1>3. planReplicates(R, c) \in SUBSET Command
  BY <1>1 DEF planReplicates, Command
<1>4. nextFailover \in SUBSET Command
  BY OneFailover
<1>5. {} \in SUBSET Command
  OBVIOUS
<1> QED
  BY <1>2, <1>3, <1>4, <1>5, PlanCases DEF Phases

\* p takes its range over: what becomes of pod q and of range j.
LEMMA TakeoverEffect ==
    ASSUME TypeOK, NEW p \in Pods, TakesOver(p), NEW q \in Pods, NEW j \in Shards
    PROVE  /\ master' \in [Pods -> Pods \cup {NoPod, Ghost}] /\ owner' \in [Shards -> Pods \cup {Ghost}]
           /\ data' \in [Pods -> {"none", "copy", "live"}]
           /\ owner'[j] = IF j = ShardOf(p) THEN p ELSE owner[j]
           /\ q = p => master'[q] = NoPod /\ data'[q] = "live"
           /\ q # p => (data'[q] = "none" <=> data[q] = "none")
           /\ q # p /\ ShardOf(q) = ShardOf(p) /\ (master[q] = owner[ShardOf(p)] \/ q = owner[ShardOf(p)])
              => master'[q] = p
           /\ q # p /\ (ShardOf(q) # ShardOf(p) \/ (master[q] # owner[ShardOf(p)] /\ q # owner[ShardOf(p)]))
              => master'[q] = master[q]
<1> DEFINE k == ShardOf(p)
           old == owner[k]
           Follows(x) == x # p /\ ShardOf(x) = k /\ (master[x] = old \/ x = old)
<1>1. /\ owner' = [owner EXCEPT ![k] = p]
      /\ master' = [x \in Pods |-> IF x = p THEN NoPod ELSE IF Follows(x) THEN p ELSE master[x]]
      /\ data' = [x \in Pods |-> IF x = p THEN "live"
                                 ELSE IF Follows(x) /\ data[x] = "live" THEN "copy" ELSE data[x]]
  BY DEF TakesOver
<1>2. k \in Shards
  BY PodFacts
<1>3. owner' \in [Shards -> Pods \cup {Ghost}] /\ owner'[j] = IF j = k THEN p ELSE owner[j]
  BY <1>1, <1>2 DEF TypeOK
<1>4. /\ master' \in [Pods -> Pods \cup {NoPod, Ghost}]
      /\ data' \in [Pods -> {"none", "copy", "live"}]
  BY <1>1 DEF TypeOK
<1>5. /\ master'[q] = IF q = p THEN NoPod ELSE IF Follows(q) THEN p ELSE master[q]
      /\ data'[q] = IF q = p THEN "live" ELSE IF Follows(q) /\ data[q] = "live" THEN "copy" ELSE data[q]
  BY <1>1
<1> QED
  BY <1>3, <1>4, <1>5

\* Pod p goes: what becomes of pod q, of range j and of the pending commands.
LEMMA RemovedEffect ==
    ASSUME TypeOK, NEW p \in Pods, Removed(p), NEW q \in Pods, NEW j \in Shards
    PROVE  /\ pod' \in [Pods -> {"absent", "down", "up"}] /\ data' \in [Pods -> {"none", "copy", "live"}]
           /\ master' \in [Pods -> Pods \cup {NoPod, Ghost}] /\ owner' \in [Shards -> Pods \cup {Ghost}]
           /\ op' \in [phase : Phases, acts : SUBSET Command] /\ op'.phase = op.phase
           /\ op'.acts = {<<a[1], IF a[2] = p THEN Ghost ELSE a[2]>> : a \in {a \in op.acts : a[1] # p}}
           /\ owner'[j] = IF owner[j] = p THEN Ghost ELSE owner[j]
           /\ q = p => pod'[q] = "absent" /\ data'[q] = "none" /\ master'[q] = NoPod
           /\ q # p => /\ pod'[q] = pod[q] /\ (data'[q] = "none" <=> data[q] = "none")
                       /\ master'[q] = IF master[q] = p THEN Ghost ELSE master[q]
<1> DEFINE A == {<<a[1], IF a[2] = p THEN Ghost ELSE a[2]>> : a \in {a \in op.acts : a[1] # p}}
<1>1. op.acts \in SUBSET Command /\ op.phase \in Phases /\ op \in [phase : Phases, acts : SUBSET Command]
  BY DEF TypeOK
<1>2. A \in SUBSET Command
  BY <1>1 DEF Command
<1>3. op' = [op EXCEPT !.acts = A]
  BY DEF Removed
<1> HIDE DEF A
<1>4. op' \in [phase : Phases, acts : SUBSET Command] /\ op'.phase = op.phase /\ op'.acts = A
  BY <1>1, <1>2, <1>3
<1>5. /\ pod' \in [Pods -> {"absent", "down", "up"}]
      /\ q = p => pod'[q] = "absent"
      /\ q # p => pod'[q] = pod[q]
  BY DEF Removed, TypeOK
<1>6. /\ data' \in [Pods -> {"none", "copy", "live"}]
      /\ q = p => data'[q] = "none"
      /\ q # p => (data'[q] = "none" <=> data[q] = "none")
  BY DEF Removed, Unlinked, TypeOK
<1>7. /\ master' \in [Pods -> Pods \cup {NoPod, Ghost}]
      /\ q = p => master'[q] = NoPod
      /\ q # p => master'[q] = IF master[q] = p THEN Ghost ELSE master[q]
  BY DEF Removed, TypeOK
<1>8. owner' \in [Shards -> Pods \cup {Ghost}] /\ owner'[j] = IF owner[j] = p THEN Ghost ELSE owner[j]
  BY DEF Removed, TypeOK
<1> QED
  BY <1>4, <1>5, <1>6, <1>7, <1>8 DEF A

LEMMA SentFacts ==
    ASSUME TypeOK, NEW ok, Sent(ok)
    PROVE  ok \subseteq op.acts /\ budget' \in [Counters -> Nat] /\ budget'.faults = budget.faults
<1>1. "errors" \in Counters \ {"faults"} /\ budget \in [Counters -> Nat]
  BY DEF Counters, TypeOK
<1> QED
  BY <1>1, SpendFacts DEF Sent

\* CLUSTER REPLICATE: what becomes of pod q.
LEMMA ReplicateEffect ==
    ASSUME TypeOK, Replicate, NEW q \in Pods
    PROVE  /\ master' \in [Pods -> Pods \cup {NoPod, Ghost}]
           /\ data' \in [Pods -> {"none", "copy", "live"}]
           /\ budget' \in [Counters -> Nat] /\ budget'.faults = budget.faults
           /\ \/ master'[q] = master[q] /\ data'[q] = data[q]
              \/ \E a \in op.acts :
                    /\ a[1] = q /\ pod[q] = "up" /\ owner[ShardOf(q)] # q
                    /\ a[2] = Ghost \/ master[a[2]] = NoPod
                    /\ master'[q] = a[2] /\ data'[q] = "none"
<1> DEFINE Taken(ok) == {a \in ok : /\ pod[a[1]] = "up" /\ owner[ShardOf(a[1])] # a[1]
                                    /\ a[2] = Ghost \/ master[a[2]] = NoPod}
<1>1. PICK ok : /\ Sent(ok)
                /\ master' = [p \in Pods |-> IF \E a \in Taken(ok) : a[1] = p
                                             THEN (CHOOSE a \in Taken(ok) : a[1] = p)[2] ELSE master[p]]
                /\ data' = [p \in Pods |-> IF \E a \in Taken(ok) : a[1] = p THEN "none" ELSE data[p]]
  BY DEF Replicate
<1>2. ok \subseteq op.acts /\ op.acts \subseteq Command
      /\ budget' \in [Counters -> Nat] /\ budget'.faults = budget.faults
  BY <1>1, SentFacts DEF TypeOK
<1> DEFINE c(p) == CHOOSE a \in Taken(ok) : a[1] = p
<1>3. ASSUME NEW p \in Pods, \E a \in Taken(ok) : a[1] = p
      PROVE  c(p) \in Taken(ok) /\ c(p)[1] = p
  BY <1>3
<1>4. ASSUME NEW p \in Pods, \E a \in Taken(ok) : a[1] = p
      PROVE  c(p)[2] \in Pods \cup {Ghost}
  BY <1>2, <1>3, <1>4 DEF Command
<1>5. master' = [p \in Pods |-> IF \E a \in Taken(ok) : a[1] = p THEN c(p)[2] ELSE master[p]]
  BY <1>1
<1> HIDE DEF c
<1>6. master' \in [Pods -> Pods \cup {NoPod, Ghost}] /\ data' \in [Pods -> {"none", "copy", "live"}]
  <2>1. \A p \in Pods : (IF \E a \in Taken(ok) : a[1] = p THEN c(p)[2] ELSE master[p]) \in Pods \cup {NoPod, Ghost}
    BY <1>4 DEF TypeOK
  <2>2. \A p \in Pods : (IF \E a \in Taken(ok) : a[1] = p THEN "none" ELSE data[p]) \in {"none", "copy", "live"}
    BY DEF TypeOK
  <2> QED
    BY <1>1, <1>5, <2>1, <2>2
<1>7. CASE \E a \in Taken(ok) : a[1] = q
  <2>1. c(q) \in Taken(ok) /\ c(q)[1] = q
    BY <1>3, <1>7
  <2>2. master'[q] = c(q)[2] /\ data'[q] = "none"
    BY <1>1, <1>5, <1>7
  <2>3. /\ c(q) \in op.acts /\ pod[q] = "up" /\ owner[ShardOf(q)] # q
        /\ c(q)[2] = Ghost \/ master[c(q)[2]] = NoPod
    BY <1>2, <2>1
  <2> QED
    BY <1>2, <1>6, <2>1, <2>2, <2>3
<1>8. CASE ~ \E a \in Taken(ok) : a[1] = q
  <2>1. master'[q] = master[q] /\ data'[q] = data[q]
    BY <1>1, <1>8
  <2> QED
    BY <1>2, <1>6, <2>1
<1> QED
  BY <1>7, <1>8

\* CLUSTER FAILOVER: nothing, or the takeover by a live replica of the owner.
LEMMA FailoverEffect ==
    ASSUME TypeOK, Pending, Failover
    PROVE  /\ budget' \in [Counters -> Nat] /\ budget'.faults = budget.faults
           /\ \/ UNCHANGED <<master, data, owner>>
              \/ \E p \in Pods : /\ pod[p] = "up" /\ data[p] # "none"
                                 /\ master[p] = owner[ShardOf(p)] /\ TakesOver(p)
<1>1. PICK ok \in SUBSET op.acts :
         /\ Sent(ok)
         /\ IF \E a \in ok : pod[a[1]] = "up" /\ IsLinkUpReplicaOf(a[1], owner[ShardOf(a[1])])
            THEN \E a \in ok : TakesOver(a[1])
            ELSE UNCHANGED <<master, data, owner>>
  BY DEF Failover
<1>2. \A a, b \in ok : a = b
  BY <1>1 DEF Failover, Pending
<1>3. \A a \in ok : a[1] \in Pods
  BY <1>1 DEF TypeOK, Command
<1>4. budget' \in [Counters -> Nat] /\ budget'.faults = budget.faults
  BY <1>1, SentFacts
<1>5. CASE \E a \in ok : pod[a[1]] = "up" /\ IsLinkUpReplicaOf(a[1], owner[ShardOf(a[1])])
  <2>1. PICK a \in ok : pod[a[1]] = "up" /\ IsLinkUpReplicaOf(a[1], owner[ShardOf(a[1])])
    BY <1>5
  <2>2. TakesOver(a[1])
    BY <1>1, <1>2, <1>5, <2>1
  <2> QED
    BY <1>3, <1>4, <2>1, <2>2 DEF IsLinkUpReplicaOf
<1> QED
  BY <1>1, <1>4, <1>5

LEMMA TypeStep == TypeOK /\ Pending /\ [Next]_vars => TypeOK'
<1> SUFFICES ASSUME TypeOK, Pending, [Next]_vars PROVE TypeOK'
  OBVIOUS
<1>1. Idle \in [phase : Phases, acts : SUBSET Command]
  BY DEF Idle, Phases
<1>2. "errors" \in Counters \ {"faults"} /\ "holds" \in Counters \ {"faults"}
      /\ "losses" \in Counters \ {"faults"} /\ "crashes" \in Counters \ {"faults"}
      /\ budget \in [Counters -> Nat]
  BY DEF Counters, TypeOK
<1>3. ASSUME NEW c \in Meshes, NEW seed \in Old, Gather(c, seed) PROVE TypeOK'
  <2>1. /\ UNCHANGED <<nodes, sts>> /\ budget' \in [Counters -> Nat]
        /\ \E R \in SUBSET Pods : op' = PlanClusterMigration(R, c, seed)
    BY <1>3, GatherPlans
  <2>2. op' \in [phase : Phases, acts : SUBSET Command]
    BY <2>1, PlanType
  <2> QED
    BY <2>1, <2>2 DEF TypeOK, nodes
<1>4. CASE Standup
  BY <1>1, <1>4 DEF Standup, TypeOK, nodes
<1>5. CASE Meet
  <2>1. PICK ok : Sent(ok)
    BY <1>5 DEF Meet
  <2> QED
    BY <1>1, <1>5, <2>1, SentFacts DEF Meet, TypeOK
<1>6. CASE Replicate
  <2>1. \E q \in Pods : TRUE
    BY PodFacts, MigrationConstants DEF Shards
  <2>2. /\ master' \in [Pods -> Pods \cup {NoPod, Ghost}]
        /\ data' \in [Pods -> {"none", "copy", "live"}] /\ budget' \in [Counters -> Nat]
    BY <1>6, <2>1, ReplicateEffect
  <2>3. UNCHANGED <<pod, owner, sts>> /\ op' = Idle
    BY <1>6 DEF Replicate
  <2> QED
    BY <1>1, <2>2, <2>3 DEF TypeOK
<1>7. ASSUME NEW p \in Pods, TakesOver(p)
      PROVE  /\ master' \in [Pods -> Pods \cup {NoPod, Ghost}] /\ owner' \in [Shards -> Pods \cup {Ghost}]
             /\ data' \in [Pods -> {"none", "copy", "live"}]
  BY <1>7, TakeoverEffect, PodFacts
<1>8. CASE Failover
  <2>1. /\ master' \in [Pods -> Pods \cup {NoPod, Ghost}] /\ owner' \in [Shards -> Pods \cup {Ghost}]
        /\ data' \in [Pods -> {"none", "copy", "live"}] /\ budget' \in [Counters -> Nat]
    BY <1>7, <1>8, FailoverEffect DEF TypeOK
  <2> QED
    BY <1>1, <1>8, <2>1 DEF Failover, TypeOK
<1>9. CASE Decommission
  BY <1>1, <1>2, <1>9, SpendFacts DEF Decommission, TypeOK
<1>10. CASE Resume \/ Release \/ UNCHANGED vars
  BY <1>10 DEF Resume, Release, TypeOK, nodes, vars
<1>11. CASE Hold
  BY <1>2, <1>11, SpendFacts DEF Hold, TypeOK, nodes
<1>12. ASSUME NEW p \in Pods, Environment(p) \/ Crash(p) \/ Lose(p) PROVE TypeOK'
  <2>1. CASE StartPod(p) \/ Restart(p)
    BY <2>1 DEF StartPod, Restart, TypeOK
  <2>2. CASE Terminate(p) \/ Lose(p)
    <3>1. Removed(p) /\ budget' \in [Counters -> Nat] /\ sts' = sts
      BY <1>2, <2>2, SpendFacts DEF Terminate, Lose, Removed
    <3>2. \E j \in Shards : TRUE
      BY PodFacts
    <3>3. /\ pod' \in [Pods -> {"absent", "down", "up"}] /\ data' \in [Pods -> {"none", "copy", "live"}]
          /\ master' \in [Pods -> Pods \cup {NoPod, Ghost}] /\ owner' \in [Shards -> Pods \cup {Ghost}]
          /\ op' \in [phase : Phases, acts : SUBSET Command]
      BY <3>1, <3>2, RemovedEffect
    <3> QED
      BY <3>1, <3>3 DEF TypeOK
  <2>3. CASE Elected(p)
    BY <1>7, <2>3 DEF Elected, TypeOK
  <2>4. CASE Gossip(p)
    BY <2>4 DEF Gossip, TypeOK
  <2>5. CASE Sync(p)
    BY <2>5 DEF Sync, TypeOK
  <2>6. CASE Crash(p)
    <3>1. budget' \in [Counters -> Nat]
      BY <1>2, <2>6, SpendFacts DEF Crash
    <3>2. data' \in [Pods -> {"none", "copy", "live"}] /\ pod' \in [Pods -> {"absent", "down", "up"}]
      BY <2>6 DEF Crash, Unlinked, TypeOK
    <3> QED
      BY <2>6, <3>1, <3>2 DEF Crash, TypeOK
  <2> QED
    BY <1>12, <2>1, <2>2, <2>3, <2>4, <2>5, <2>6 DEF Environment
<1> QED
  BY <1>3, <1>4, <1>5, <1>6, <1>8, <1>9, <1>10, <1>11, <1>12 DEF Next, Operator, Act

----------------------------------------------------------------------------
(* Owners and followers.                                                   *)

LEMMA ShapeInit == Init => Shape
<1> SUFFICES ASSUME Init PROVE Shape
  OBVIOUS
<1>1. ASSUME NEW p \in Pods PROVE Placed(p)
  <2>1. CASE p \in Old
    <3>1. ShardOf(p) \in Shards /\ owner[ShardOf(p)] = <<"old", ShardOf(p), 0>> /\ pod[p] = "up"
      BY <2>1, PodFacts DEF Init
    <3>2. p = <<"old", ShardOf(p), p[3]>> /\ p[3] \in 0 .. RPS
      BY <2>1 DEF Old, ShardOf
    <3>3. master[p] = IF p[3] > 0 THEN <<"old", ShardOf(p), 0>> ELSE NoPod
      BY <2>1 DEF Init, ShardOf
    <3>4. p[3] = 0 \/ p[3] > 0
      BY <3>2, MigrationConstants
    <3> QED
      BY <2>1, <3>1, <3>2, <3>3, <3>4, PodFacts DEF Placed
  <2>2. CASE p \in New
    BY <2>2, PodFacts DEF Init, Placed
  <2> QED
    BY <2>1, <2>2, PodFacts
<1>2. ASSUME NEW k \in Shards PROVE Headed(k)
  <2>1. owner[k] = <<"old", k, 0>> /\ owner[k] \in Old /\ ShardOf(owner[k]) = k /\ owner[k][3] = 0
    BY MigrationConstants DEF Init, Old, ShardOf
  <2>2. owner[k] \in Pods
    BY <2>1, PodFacts
  <2>3. pod[owner[k]] = "up" /\ data[owner[k]] = "live" /\ master[owner[k]] = NoPod
    BY <2>1, <2>2 DEF Init
  <2> QED
    BY <2>1, <2>3 DEF Headed
<1> QED
  BY <1>1, <1>2 DEF Shape

\* A step that leaves the nodes alone.
LEMMA ShapeFrame ==
    ASSUME Shape, UNCHANGED <<pod, master, data, owner>>, "new" \in sts => "new" \in sts'
    PROVE  Shape'
<1>1. ASSUME NEW p \in Pods PROVE Placed(p)'
  <2>1. Placed(p)
    BY DEF Shape
  <2> QED
    BY <2>1 DEF Placed
<1>2. ASSUME NEW k \in Shards PROVE Headed(k)'
  <2>1. Headed(k)
    BY DEF Shape
  <2> QED
    BY <2>1 DEF Headed
<1> QED
  BY <1>1, <1>2 DEF Shape

LEMMA ShapeTakeover ==
    ASSUME TypeOK, Shape, NEW p \in Pods, pod[p] = "up", TakesOver(p), UNCHANGED <<pod, sts>>
    PROVE  Shape'
<1>1. ShardOf(p) \in Shards
  BY PodFacts
<1>2. ASSUME NEW q \in Pods PROVE Placed(q)'
  <2>1. Placed(q) /\ ShardOf(q) \in Shards
    BY PodFacts DEF Shape
  <2>2. owner'[ShardOf(q)] = IF ShardOf(q) = ShardOf(p) THEN p ELSE owner[ShardOf(q)]
    BY <2>1, TakeoverEffect
  <2>3. CASE q = p
    <3>1. master'[q] = NoPod
      BY <2>3, <1>1, TakeoverEffect
    <3> QED
      BY <2>1, <2>2, <2>3, <3>1, PodFacts DEF Placed
  <2>4. CASE q # p /\ ShardOf(q) = ShardOf(p) /\ (master[q] = owner[ShardOf(p)] \/ q = owner[ShardOf(p)])
    <3>1. master'[q] = p /\ (data'[q] = "none" <=> data[q] = "none")
      BY <1>1, <2>4, TakeoverEffect
    <3> QED
      BY <2>1, <2>2, <2>4, <3>1 DEF Placed
  <2>5. CASE q # p /\ (ShardOf(q) # ShardOf(p) \/ (master[q] # owner[ShardOf(p)] /\ q # owner[ShardOf(p)]))
    <3>1. master'[q] = master[q] /\ (data'[q] = "none" <=> data[q] = "none")
      BY <1>1, <2>5, TakeoverEffect
    <3> QED
      BY <2>1, <2>2, <2>5, <3>1 DEF Placed
  <2> QED
    BY <2>3, <2>4, <2>5
<1>3. ASSUME NEW k \in Shards PROVE Headed(k)'
  <2>1. CASE k = ShardOf(p)
    <3>1. owner'[k] = p /\ master'[p] = NoPod /\ data'[p] = "live"
      BY <2>1, TakeoverEffect
    <3> QED
      BY <2>1, <3>1 DEF Headed
  <2>2. CASE k # ShardOf(p)
    <3>1. Headed(k) /\ owner'[k] = owner[k]
      BY <2>2, TakeoverEffect DEF Shape
    <3> SUFFICES ASSUME owner[k] \in Pods PROVE Headed(k)'
      BY <3>1 DEF Headed
    <3>2. ASSUME NEW q \in Pods, ShardOf(q) = k
          PROVE  master'[q] = master[q] /\ (data'[q] = "none" <=> data[q] = "none")
      BY <1>1, <2>2, <3>2, TakeoverEffect
    <3> QED
      BY <3>1, <3>2 DEF Headed
  <2> QED
    BY <2>1, <2>2
<1> QED
  BY <1>2, <1>3 DEF Shape

LEMMA ShapeRemoved ==
    ASSUME TypeOK, Shape, NEW p \in Pods, Removed(p)
    PROVE  Shape'
<1>1. ASSUME NEW q \in Pods PROVE Placed(q)'
  <2>1. Placed(q) /\ ShardOf(q) \in Shards /\ sts' = sts
    BY PodFacts DEF Shape, Removed
  <2>2. owner'[ShardOf(q)] = IF owner[ShardOf(q)] = p THEN Ghost ELSE owner[ShardOf(q)]
    BY <2>1, RemovedEffect
  <2>3. CASE q = p
    <3>1. pod'[q] = "absent" /\ data'[q] = "none" /\ master'[q] = NoPod
      BY <2>1, <2>3, RemovedEffect
    <3> QED
      BY <3>1, PodFacts DEF Placed
  <2>4. CASE q # p
    <3>1. /\ pod'[q] = pod[q] /\ (data'[q] = "none" <=> data[q] = "none")
          /\ master'[q] = IF master[q] = p THEN Ghost ELSE master[q]
      BY <2>1, <2>4, RemovedEffect
    <3> QED
      BY <2>1, <2>2, <2>4, <3>1, PodFacts DEF Placed
  <2> QED
    BY <2>3, <2>4
<1>2. ASSUME NEW k \in Shards PROVE Headed(k)'
  <2>1. Headed(k)
    BY DEF Shape
  <2>2. owner'[k] = IF owner[k] = p THEN Ghost ELSE owner[k]
    BY RemovedEffect
  <2> SUFFICES ASSUME owner[k] # p, owner[k] \in Pods PROVE Headed(k)'
    BY <2>2, PodFacts DEF Headed
  <2>3. /\ pod'[owner[k]] = pod[owner[k]] /\ (data'[owner[k]] = "none" <=> data[owner[k]] = "none")
        /\ master[owner[k]] # p => master'[owner[k]] = master[owner[k]]
    BY RemovedEffect
  <2>4. ASSUME NEW q \in Pods PROVE data[q] = "none" => data'[q] = "none"
    BY RemovedEffect
  <2> QED
    BY <2>1, <2>2, <2>3, <2>4, PodFacts DEF Headed
<1> QED
  BY <1>1, <1>2 DEF Shape

\* Data goes and processes come and go; no owner changes.
LEMMA ShapeLess ==
    ASSUME Shape, UNCHANGED <<master, owner, sts>>,
           \A q \in Pods : /\ data[q] = "none" => data'[q] = "none"
                           /\ pod'[q] = "absent" <=> pod[q] = "absent"
                           /\ pod'[q] # "up" => data'[q] = "none",
           \A k \in Shards : owner[k] \in Pods /\ pod'[owner[k]] = "up" /\ data'[owner[k]] = "none" =>
              \/ pod[owner[k]] = "up" /\ data[owner[k]] = "none"
              \/ \A q \in Pods : ShardOf(q) = k => data'[q] = "none"
    PROVE  Shape'
<1>1. ASSUME NEW p \in Pods PROVE Placed(p)'
  <2>1. Placed(p)
    BY DEF Shape
  <2> QED
    BY <2>1 DEF Placed
<1>2. ASSUME NEW k \in Shards PROVE Headed(k)'
  <2>1. Headed(k)
    BY DEF Shape
  <2> QED
    BY <2>1 DEF Headed
<1> QED
  BY <1>1, <1>2 DEF Shape

LEMMA CrashEffect ==
    ASSUME TypeOK, NEW p \in Pods, Crash(p), NEW q \in Pods
    PROVE  /\ UNCHANGED <<master, owner, sts, op>> /\ budget'.faults = budget.faults + 1
           /\ q = p => pod'[q] = "down" /\ data'[q] = "none"
           /\ q # p => pod'[q] = pod[q] /\ (data'[q] = "none" <=> data[q] = "none")
<1>1. "crashes" \in Counters \ {"faults"} /\ budget \in [Counters -> Nat]
  BY DEF Counters, TypeOK
<1>2. budget'.faults = budget.faults + 1
  BY <1>1, SpendFacts DEF Crash
<1>3. /\ q = p => pod'[q] = "down" /\ data'[q] = "none"
      /\ q # p => pod'[q] = pod[q] /\ (data'[q] = "none" <=> data[q] = "none")
  BY DEF Crash, Unlinked, TypeOK
<1> QED
  BY <1>2, <1>3 DEF Crash

LEMMA ShapeCrash ==
    ASSUME TypeOK, Shape, NEW p \in Pods, Crash(p)
    PROVE  Shape'
<1>1. UNCHANGED <<master, owner, sts>> /\ pod[p] = "up"
  BY DEF Crash
<1>2. ASSUME NEW q \in Pods
      PROVE  /\ q = p => pod'[q] = "down" /\ data'[q] = "none"
             /\ q # p => pod'[q] = pod[q] /\ (data'[q] = "none" <=> data[q] = "none")
  BY CrashEffect
<1>3. ASSUME NEW q \in Pods
      PROVE  /\ data[q] = "none" => data'[q] = "none"
             /\ pod'[q] = "absent" <=> pod[q] = "absent"
             /\ pod'[q] # "up" => data'[q] = "none"
  <2>1. pod[q] # "up" => data[q] = "none"
    BY DEF Shape, Placed
  <2> QED
    BY <1>1, <1>2, <2>1
<1>4. ASSUME NEW q \in Pods, pod'[q] = "up", data'[q] = "none" PROVE pod[q] = "up" /\ data[q] = "none"
  BY <1>2, <1>4
<1> QED
  BY <1>1, <1>3, <1>4, ShapeLess

\* An owner that comes back empty had no replica to take over.
LEMMA ShapeRestart ==
    ASSUME TypeOK, Shape, NEW p \in Pods, Restart(p)
    PROVE  Shape'
<1>1. /\ UNCHANGED <<master, owner, sts, data>> /\ pod[p] = "down"
      /\ \A q \in Pods : ~(master[q] = p /\ pod[q] = "up" /\ data[q] # "none")
  BY DEF Restart
<1>2. ASSUME NEW q \in Pods PROVE (q = p => pod'[q] = "up") /\ (q # p => pod'[q] = pod[q])
  BY DEF Restart, TypeOK
<1>3. ASSUME NEW q \in Pods PROVE pod[q] # "up" => data[q] = "none"
  BY DEF Shape, Placed
<1>4. ASSUME NEW q \in Pods
      PROVE  /\ data[q] = "none" => data'[q] = "none"
             /\ pod'[q] = "absent" <=> pod[q] = "absent"
             /\ pod'[q] # "up" => data'[q] = "none"
  BY <1>1, <1>2, <1>3
<1>5. ASSUME NEW k \in Shards, owner[k] = p, NEW q \in Pods, ShardOf(q) = k PROVE data[q] = "none"
  <2>1. data[q] # "none" => owner[k] = q \/ master[q] = owner[k]
    BY <1>5 DEF Shape, Placed
  <2> QED
    BY <1>1, <1>3, <1>5, <2>1
<1>6. ASSUME NEW k \in Shards, owner[k] \in Pods, pod'[owner[k]] = "up", data'[owner[k]] = "none"
      PROVE  \/ pod[owner[k]] = "up" /\ data[owner[k]] = "none"
             \/ \A q \in Pods : ShardOf(q) = k => data'[q] = "none"
  BY <1>1, <1>2, <1>5, <1>6
<1> QED
  BY <1>1, <1>4, <1>6, ShapeLess

LEMMA ShapeStart ==
    ASSUME TypeOK, Shape, NEW p \in Pods, StartPod(p)
    PROVE  Shape'
<1>1. UNCHANGED <<master, owner, sts, data>> /\ pod[p] = "absent" /\ p[1] \in sts
  BY DEF StartPod
<1>2. ASSUME NEW q \in Pods PROVE (q = p => pod'[q] = "up") /\ (q # p => pod'[q] = pod[q])
  BY DEF StartPod, TypeOK
<1>3. ASSUME NEW q \in Pods PROVE Placed(q)'
  <2>1. Placed(q) /\ Placed(p)
    BY DEF Shape
  <2> QED
    BY <1>1, <1>2, <2>1, PodFacts DEF Placed
<1>4. ASSUME NEW k \in Shards PROVE Headed(k)'
  <2>1. Headed(k)
    BY DEF Shape
  <2>2. owner[k] \in Pods => owner[k] # p /\ pod'[owner[k]] = pod[owner[k]]
    BY <1>1, <1>2, <2>1 DEF Headed
  <2> QED
    BY <1>1, <2>1, <2>2 DEF Headed
<1> QED
  BY <1>3, <1>4 DEF Shape

LEMMA ShapeSync ==
    ASSUME TypeOK, Shape, NEW p \in Pods, Sync(p)
    PROVE  Shape'
<1>1. /\ UNCHANGED <<master, owner, sts, pod>> /\ pod[p] = "up" /\ master[p] \in Pods
      /\ pod[master[p]] = "up" /\ data[master[p]] = "live"
  BY DEF Sync
<1>2. ASSUME NEW q \in Pods PROVE (q = p => data'[q] = "live") /\ (q # p => data'[q] = data[q])
  BY DEF Sync, TypeOK
<1>3. master[p] = owner[ShardOf(p)]
  BY <1>1 DEF Shape, Placed
<1>4. ASSUME NEW q \in Pods PROVE Placed(q)'
  <2>1. Placed(q)
    BY DEF Shape
  <2> QED
    BY <1>1, <1>2, <1>3, <2>1 DEF Placed
<1>5. ASSUME NEW k \in Shards PROVE Headed(k)'
  <2>1. Headed(k)
    BY DEF Shape
  <2> SUFFICES ASSUME owner[k] \in Pods, data'[owner[k]] = "none", pod[owner[k]] = "up",
                      NEW q \in Pods, ShardOf(q) = k
               PROVE  data'[q] = "none"
    BY <1>1, <2>1 DEF Headed
  <2>2. owner[k] # p /\ data[owner[k]] = "none"
    BY <1>2
  <2>3. data[q] = "none" /\ q # p
    BY <1>1, <1>3, <2>1, <2>2 DEF Headed
  <2> QED
    BY <1>2, <2>3
<1> QED
  BY <1>4, <1>5 DEF Shape

LEMMA ShapeReplicate ==
    ASSUME TypeOK, Shape, Pending, Replicate
    PROVE  Shape'
<1>1. UNCHANGED <<owner, sts, pod>> /\ op.phase = "Replicate"
  BY DEF Replicate
<1>2. ASSUME NEW q \in Pods
      PROVE  \/ master'[q] = master[q] /\ data'[q] = data[q]
             \/ /\ owner[ShardOf(q)] # q /\ data'[q] = "none"
                /\ master'[q] \in Pods => master'[q] = owner[ShardOf(q)]
  <2>1. CASE master'[q] = master[q] /\ data'[q] = data[q]
    BY <2>1
  <2>2. CASE \E a \in op.acts :
                    /\ a[1] = q /\ pod[q] = "up" /\ owner[ShardOf(q)] # q
                    /\ a[2] = Ghost \/ master[a[2]] = NoPod
                    /\ master'[q] = a[2] /\ data'[q] = "none"
    BY <1>1, <2>2, PodFacts DEF Pending
  <2> QED
    BY <2>1, <2>2, ReplicateEffect
<1>3. ASSUME NEW q \in Pods PROVE Placed(q)'
  <2>1. Placed(q)
    BY DEF Shape
  <2> QED
    BY <1>1, <1>2, <2>1 DEF Placed
<1>4. ASSUME NEW k \in Shards PROVE Headed(k)'
  <2>1. Headed(k)
    BY DEF Shape
  <2> SUFFICES ASSUME owner[k] \in Pods PROVE Headed(k)'
    BY <1>1 DEF Headed
  <2>2. ShardOf(owner[k]) = k
    BY <2>1 DEF Headed
  <2>3. master'[owner[k]] = master[owner[k]] /\ data'[owner[k]] = data[owner[k]]
    BY <1>2, <2>2
  <2>4. ASSUME NEW q \in Pods PROVE data[q] = "none" => data'[q] = "none"
    BY <1>2
  <2> QED
    BY <1>1, <2>1, <2>3, <2>4 DEF Headed
<1> QED
  BY <1>3, <1>4 DEF Shape

LEMMA ShapeStep == TypeOK /\ Pending /\ Shape /\ [Next]_vars => Shape'
<1> SUFFICES ASSUME TypeOK, Pending, Shape, [Next]_vars PROVE Shape'
  OBVIOUS
<1>1. CASE Standup \/ Meet \/ Decommission \/ Resume \/ Hold \/ Release \/ UNCHANGED vars
  BY <1>1, ShapeFrame DEF Standup, Meet, Decommission, Resume, Hold, Release, nodes, vars
<1>2. ASSUME NEW c \in Meshes, NEW seed \in Old, Gather(c, seed) PROVE Shape'
  BY <1>2, ShapeFrame DEF Gather, nodes
<1>3. CASE Replicate
  BY <1>3, ShapeReplicate
<1>4. CASE Failover
  <2>1. UNCHANGED <<pod, sts>>
    BY <1>4 DEF Failover
  <2>2. CASE UNCHANGED <<master, data, owner>>
    BY <2>1, <2>2, ShapeFrame
  <2>3. ASSUME NEW p \in Pods, pod[p] = "up", TakesOver(p) PROVE Shape'
    BY <2>1, <2>3, ShapeTakeover
  <2> QED
    BY <1>4, <2>2, <2>3, FailoverEffect
<1>5. ASSUME NEW p \in Pods, Environment(p) \/ Crash(p) \/ Lose(p) PROVE Shape'
  <2>1. CASE Gossip(p)
    BY <2>1, ShapeFrame DEF Gossip
  <2>2. CASE Elected(p)
    BY <2>2, ShapeTakeover DEF Elected
  <2>3. CASE Terminate(p) \/ Lose(p)
    BY <2>3, ShapeRemoved DEF Terminate, Lose
  <2> QED
    BY <1>5, <2>1, <2>2, <2>3, ShapeCrash, ShapeRestart, ShapeStart, ShapeSync DEF Environment
<1> QED
  BY <1>1, <1>2, <1>3, <1>4, <1>5 DEF Next, Operator, Act

----------------------------------------------------------------------------
(* The commands of a pass.                                                 *)

LEMMA PendingFrame ==
    ASSUME Pending, UNCHANGED <<master, owner, sts, op>>
    PROVE  Pending'
BY DEF Pending

LEMMA PendingTakeover ==
    ASSUME TypeOK, Shape, Pending, NEW p \in Pods, TakesOver(p), UNCHANGED <<sts, op>>
    PROVE  Pending'
<1> SUFFICES ASSUME op.phase = "Replicate", NEW a \in op.acts, a[2] \in Pods
             PROVE  /\ ShardOf(a[2]) = ShardOf(a[1])
                    /\ owner'[ShardOf(a[1])] = a[2] \/ master'[a[2]] # NoPod
  BY DEF Pending
<1>1. /\ ShardOf(a[2]) = ShardOf(a[1]) /\ a[1] \in Pods /\ ShardOf(a[1]) \in Shards
      /\ owner[ShardOf(a[1])] = a[2] \/ master[a[2]] # NoPod
  BY PodFacts DEF Pending, TypeOK, Command
<1>2. CASE a[2] = p
  <2>1. owner'[ShardOf(a[1])] = p
    BY <1>1, <1>2, TakeoverEffect
  <2> QED
    BY <1>1, <1>2, <2>1
<1>3. CASE a[2] # p /\ ShardOf(a[2]) = ShardOf(p) /\ (master[a[2]] = owner[ShardOf(p)] \/ a[2] = owner[ShardOf(p)])
  <2>1. master'[a[2]] = p
    BY <1>1, <1>3, TakeoverEffect
  <2> QED
    BY <1>1, <2>1, PodFacts
<1>4. CASE a[2] # p /\ (ShardOf(a[2]) # ShardOf(p) \/ (master[a[2]] # owner[ShardOf(p)] /\ a[2] # owner[ShardOf(p)]))
  <2>1. master'[a[2]] = master[a[2]]
    BY <1>1, <1>4, TakeoverEffect
  <2>2. owner'[ShardOf(a[1])] = IF ShardOf(a[1]) = ShardOf(p) THEN p ELSE owner[ShardOf(a[1])]
    BY <1>1, TakeoverEffect
  <2> QED
    BY <1>1, <1>4, <2>1, <2>2
<1> QED
  BY <1>2, <1>3, <1>4

LEMMA PendingRemoved ==
    ASSUME TypeOK, Pending, NEW p \in Pods, Removed(p)
    PROVE  Pending'
<1>1. ShardOf(p) \in Shards
  BY PodFacts
<1>2. /\ sts' = sts /\ op'.phase = op.phase /\ op' \in [phase : Phases, acts : SUBSET Command]
      /\ op'.acts = {<<a[1], IF a[2] = p THEN Ghost ELSE a[2]>> : a \in {a \in op.acts : a[1] # p}}
  BY <1>1, RemovedEffect DEF Removed
<1>3. ASSUME "old" \notin sts' PROVE op' = Idle
  <2>1. op.phase = "Gather" /\ op.acts = {}
    BY <1>2, <1>3 DEF Pending, Idle
  <2>2. op'.phase = "Gather" /\ op'.acts = {}
    BY <1>2, <2>1
  <2> QED
    BY <1>2, <2>2 DEF Idle
<1>4. ASSUME op'.phase = "Replicate", NEW b \in op'.acts, b[2] \in Pods
      PROVE  /\ ShardOf(b[2]) = ShardOf(b[1])
             /\ owner'[ShardOf(b[1])] = b[2] \/ master'[b[2]] # NoPod
  <2>1. PICK a \in op.acts : a[1] # p /\ b = <<a[1], IF a[2] = p THEN Ghost ELSE a[2]>>
    BY <1>2
  <2>2. b = a /\ b[2] # p /\ b[1] \in Pods /\ ShardOf(b[1]) \in Shards
    <3>1. b[1] = a[1] /\ b[2] = a[2] /\ b[2] # p
      BY <1>4, <2>1, PodFacts
    <3>2. a \in Command
      BY DEF TypeOK
    <3> QED
      BY <2>1, <3>1, <3>2, PodFacts DEF Command
  <2>3. /\ ShardOf(b[2]) = ShardOf(b[1])
        /\ owner[ShardOf(b[1])] = b[2] \/ master[b[2]] # NoPod
    BY <1>2, <1>4, <2>2 DEF Pending
  <2>4. /\ owner'[ShardOf(b[1])] = IF owner[ShardOf(b[1])] = p THEN Ghost ELSE owner[ShardOf(b[1])]
        /\ master'[b[2]] = IF master[b[2]] = p THEN Ghost ELSE master[b[2]]
    BY <1>4, <2>2, RemovedEffect
  <2> QED
    BY <2>2, <2>3, <2>4, PodFacts
<1>5. ASSUME op'.phase = "Failover" PROVE \A a, b \in op'.acts : a = b
  BY <1>2, <1>5 DEF Pending
<1> QED
  BY <1>3, <1>4, <1>5 DEF Pending

LEMMA PendingGather ==
    ASSUME TypeOK, Shape, NEW c, NEW seed \in Old, Gather(c, seed)
    PROVE  Pending'
<1>1. /\ UNCHANGED <<nodes, sts>> /\ "old" \in sts
      /\ \E R \in SUBSET Pods : op' = PlanClusterMigration(R, c, seed)
  BY GatherPlans
<1>2. PICK R \in SUBSET Pods : op' = PlanClusterMigration(R, c, seed)
  BY <1>1
<1>3. op'.phase = "Replicate" => op'.acts = planReplicates(R, c)
  BY <1>2, PlanCases
<1>4. op'.phase = "Failover" => op'.acts = nextFailover
  BY <1>2, PlanCases
<1>5. ASSUME NEW a \in planReplicates(R, c), a[2] \in Pods
      PROVE  ShardOf(a[2]) = ShardOf(a[1]) /\ owner[ShardOf(a[1])] = a[2]
  <2>1. a[1] \in Pods /\ a[2] = ownerOfRange(R, c, ShardOf(a[1])) /\ ShardOf(a[1]) \in Shards
    BY PodFacts DEF planReplicates
  <2>2. owner[ShardOf(a[1])] = a[2]
    BY <1>5, <2>1, PodFacts DEF ownerOfRange
  <2> QED
    BY <1>5, <2>1, <2>2 DEF Shape, Headed
<1> QED
  BY <1>1, <1>3, <1>4, <1>5, OneFailover DEF Pending, nodes

LEMMA PendingStep == TypeOK /\ Shape /\ Pending /\ [Next]_vars => Pending'
<1> SUFFICES ASSUME TypeOK, Shape, Pending, [Next]_vars PROVE Pending'
  OBVIOUS
<1>1. CASE Act
  <2>1. op' = Idle
    BY <1>1 DEF Act, Standup, Meet, Replicate, Failover, Decommission
  <2> QED
    BY <2>1 DEF Pending, Idle
<1>2. ASSUME NEW c \in Meshes, NEW seed \in Old, Gather(c, seed) PROVE Pending'
  BY <1>2, PendingGather
<1>3. CASE Resume \/ Hold \/ Release \/ UNCHANGED vars
  BY <1>3, PendingFrame DEF Resume, Hold, Release, nodes, vars
<1>4. ASSUME NEW p \in Pods, Environment(p) \/ Crash(p) \/ Lose(p) PROVE Pending'
  <2>1. CASE StartPod(p) \/ Restart(p) \/ Gossip(p) \/ Sync(p) \/ Crash(p)
    BY <2>1, PendingFrame DEF StartPod, Restart, Gossip, Sync, Crash
  <2>2. CASE Elected(p)
    BY <2>2, PendingTakeover DEF Elected
  <2>3. CASE Terminate(p) \/ Lose(p)
    BY <2>3, PendingRemoved DEF Terminate, Lose
  <2> QED
    BY <1>4, <2>1, <2>2, <2>3 DEF Environment
<1> QED
  BY <1>1, <1>2, <1>3, <1>4 DEF Next, Operator

----------------------------------------------------------------------------
(* Counting the copies.                                                    *)

LEMMA LastingIn ==
    ASSUME NEW k \in Shards
    PROVE  /\ Lasting(k) \subseteq Members(Pods, k) /\ Lasting(k)' \subseteq Members(Pods, k)
           /\ Copies(k) \subseteq Members(Pods, k) /\ Lasting(k) \subseteq Copies(k)
BY DEF Lasting, Lasts, Copies, Members

\* A step that takes no lasting copy.
LEMMA EnoughKeeps ==
    ASSUME TypeOK, TypeOK', Enough, \A q \in Pods : Lasts(q) => Lasts(q)',
           budget'.faults = budget.faults
    PROVE  Enough'
<1> SUFFICES ASSUME NEW k \in Shards PROVE Cardinality(Lasting(k)') + budget'.faults >= 1 + RPS
  BY DEF Enough
<1>1. Lasting(k) \ {NoPod} \subseteq Lasting(k)' /\ NoPod \notin Lasting(k)
  BY PodFacts DEF Lasting
<1>2. /\ Cardinality(Lasting(k)) \in Nat /\ Cardinality(Lasting(k)') \in Nat
      /\ Cardinality(Lasting(k)) =< Cardinality(Lasting(k)')
  BY <1>1, LastingIn, CountDown
<1>3. budget.faults \in Nat /\ RPS \in Nat
  BY MigrationConstants DEF TypeOK, Counters
<1>4. Cardinality(Lasting(k)) + budget.faults >= 1 + RPS
  BY DEF Enough
<1> QED
  BY <1>2, <1>3, <1>4

\* A fault takes one.
LEMMA EnoughFault ==
    ASSUME TypeOK, TypeOK', Enough, NEW p \in Pods, \A q \in Pods : q # p /\ Lasts(q) => Lasts(q)',
           budget'.faults = budget.faults + 1
    PROVE  Enough'
<1> SUFFICES ASSUME NEW k \in Shards PROVE Cardinality(Lasting(k)') + budget'.faults >= 1 + RPS
  BY DEF Enough
<1>1. Lasting(k) \ {p} \subseteq Lasting(k)'
  BY DEF Lasting
<1>2. /\ Cardinality(Lasting(k)) \in Nat /\ Cardinality(Lasting(k)') \in Nat
      /\ Cardinality(Lasting(k)) =< Cardinality(Lasting(k)') + 1
  BY <1>1, LastingIn, CountDown
<1>3. budget.faults \in Nat /\ RPS \in Nat
  BY MigrationConstants DEF TypeOK, Counters
<1>4. Cardinality(Lasting(k)) + budget.faults >= 1 + RPS
  BY DEF Enough
<1> QED
  BY <1>2, <1>3, <1>4

\* Where the pass plans to decommission, the new pods of a shard hold its
\* range, all of them, or nobody does.
LEMMA EnoughDecommission ==
    ASSUME TypeOK, TypeOK', Shape, Enough, NEW c, NEW seed \in Old, Gather(c, seed),
           op'.phase = "Decommission"
    PROVE  Enough'
<1>1. /\ UNCHANGED <<nodes, sts>> /\ "old" \in sts /\ op = Idle /\ budget'.faults = budget.faults
      /\ \E R \in SUBSET Pods : (\A p \in R : pod[p] = "up") /\ op' = PlanClusterMigration(R, c, seed)
  BY GatherPlans
<1>2. PICK R \in SUBSET Pods : (\A p \in R : pod[p] = "up") /\ op' = PlanClusterMigration(R, c, seed)
  BY <1>1
<1>3. New \ Met(R, c) = {} /\ {p \in New : ~Settled(R, c, p)} = {}
  BY <1>2, PlanCases
<1>4. ASSUME NEW p \in New PROVE pod[p] = "up" /\ (owner[ShardOf(p)] = p \/ data[p] = "live")
  <2>1. p \in R
    BY <1>3 DEF Met
  <2>2. Settled(R, c, p)
    BY <1>3
  <2> QED
    BY <1>2, <2>1, <2>2 DEF Settled, IsLinkUpReplicaOf
<1> SUFFICES ASSUME NEW k \in Shards PROVE Cardinality(Lasting(k)') + budget'.faults >= 1 + RPS
  BY DEF Enough
<1>5. budget.faults \in Nat /\ RPS \in Nat /\ Cardinality(Lasting(k)') \in Nat
  <2>1. IsFiniteSet(Lasting(k)')
    BY LastingIn, ShardSize, FS_Subset
  <2> QED
    BY <2>1, MigrationConstants, FS_CardinalityType DEF TypeOK, Counters
<1>6. CASE \A p \in New : ShardOf(p) = k => data[p] # "none"
  <2>1. Members(New, k) \subseteq Lasting(k)'
    <3> SUFFICES ASSUME NEW p \in New, ShardOf(p) = k PROVE p \in Pods /\ Lasts(p)'
      BY DEF Members, Lasting
    <3>1. pod'[p] = "up" /\ data'[p] # "none" /\ p \in Pods
      BY <1>1, <1>4, <1>6, PodFacts DEF nodes
    <3>2. ~Attaches(p)'
      BY DEF Attaches
    <3> QED
      BY <3>1, <3>2 DEF Lasts
  <2>2. IsFiniteSet(Lasting(k)')
    BY LastingIn, ShardSize, FS_Subset
  <2>3. 1 + RPS =< Cardinality(Lasting(k)')
    BY <2>1, <2>2, ShardSize, FS_Subset
  <2> QED
    BY <1>1, <1>5, <2>3
<1>7. CASE \E p \in New : ShardOf(p) = k /\ data[p] = "none"
  <2>1. PICK p \in New : ShardOf(p) = k /\ data[p] = "none"
    BY <1>7
  <2>2. owner[k] = p /\ pod[p] = "up" /\ p \in Pods
    BY <1>4, <2>1, PodFacts
  <2>3. \A q \in Pods : ShardOf(q) = k => data[q] = "none"
    BY <2>1, <2>2 DEF Shape, Headed
  <2>4. Lasting(k) = {}
    BY <2>3 DEF Lasting, Lasts
  <2>5. Cardinality(Lasting(k)) = 0
    BY <2>4, FS_EmptySet
  <2>6. Cardinality(Lasting(k)) + budget.faults >= 1 + RPS
    BY DEF Enough
  <2> QED
    BY <1>1, <1>5, <2>5, <2>6
<1> QED
  BY <1>6, <1>7

LEMMA EnoughGather ==
    ASSUME TypeOK, TypeOK', Shape, Enough, NEW c, NEW seed \in Old, Gather(c, seed)
    PROVE  Enough'
<1> SUFFICES ASSUME op'.phase # "Decommission" PROVE Enough'
  BY EnoughDecommission
<1>1. /\ UNCHANGED <<nodes, sts>> /\ "old" \in sts /\ op = Idle /\ budget'.faults = budget.faults
      /\ \E R \in SUBSET Pods : op' = PlanClusterMigration(R, c, seed)
  BY GatherPlans
<1>2. PICK R \in SUBSET Pods : op' = PlanClusterMigration(R, c, seed)
  BY <1>1
<1>3. op'.phase = "Replicate" => op'.acts = planReplicates(R, c)
  BY <1>2, PlanCases
<1>4. ASSUME NEW q \in Pods, NEW a \in planReplicates(R, c), a[1] = q PROVE data[q] = "none"
  <2>1. /\ a[2] \in Pods /\ a[2] = ownerOfRange(R, c, ShardOf(q))
        /\ ~Settled(R, c, q) /\ master[q] # a[2]
    BY <1>4 DEF planReplicates
  <2>2. owner[ShardOf(q)] = a[2]
    BY <2>1, PodFacts DEF ownerOfRange
  <2>3. owner[ShardOf(q)] # q
    BY <2>1 DEF Settled
  <2> QED
    BY <2>1, <2>2, <2>3 DEF Shape, Placed
<1>5. ASSUME NEW q \in Pods, Lasts(q) PROVE Lasts(q)'
  <2>1. pod[q] = "up" /\ data[q] # "none"
    BY <1>5 DEF Lasts
  <2>2. ~Attaches(q)'
    BY <1>3, <1>4, <2>1 DEF Attaches
  <2>3. ~Leaving'
    BY <1>1 DEF Leaving
  <2> QED
    BY <1>1, <2>1, <2>2, <2>3 DEF Lasts, nodes
<1> QED
  BY <1>1, <1>5, EnoughKeeps

LEMMA EnoughAct ==
    ASSUME TypeOK, TypeOK', Pending, Enough, Act
    PROVE  Enough'
<1>1. op' = Idle /\ op'.phase # "Replicate" /\ op'.phase # "Decommission"
  <2>1. op' = Idle
    BY DEF Act, Standup, Meet, Replicate, Failover, Decommission
  <2> QED
    BY <2>1 DEF Idle
<1>2. "errors" \in Counters \ {"faults"} /\ budget \in [Counters -> Nat]
  BY DEF Counters, TypeOK
<1>3. Leaving' => Leaving
  BY <1>1 DEF Act, Standup, Meet, Replicate, Failover, Decommission, Leaving
<1>4. pod' = pod
  BY DEF Act, Standup, Meet, Replicate, Failover, Decommission, nodes
<1>5. budget'.faults = budget.faults
  <2>1. ASSUME NEW ok, Sent(ok) PROVE budget'.faults = budget.faults
    BY <2>1, SentFacts
  <2>2. Spend("errors") => budget'.faults = budget.faults
    BY <1>2, SpendFacts
  <2> QED
    BY <2>1, <2>2 DEF Act, Standup, Meet, Replicate, Failover, Decommission
<1>6. ASSUME NEW q \in Pods, Lasts(q) PROVE data'[q] # "none"
  <2>1. data[q] # "none" /\ ~Attaches(q)
    BY <1>6 DEF Lasts
  <2>2. CASE Standup \/ Meet \/ Decommission
    BY <2>1, <2>2 DEF Standup, Meet, Decommission, nodes
  <2>3. CASE Replicate
    <3>1. ~ \E a \in op.acts : a[1] = q
      BY <2>1, <2>3 DEF Attaches, Replicate
    <3>2. data'[q] = data[q] \/ \E a \in op.acts : a[1] = q
      BY <2>3, ReplicateEffect
    <3> QED
      BY <2>1, <3>1, <3>2
  <2>4. CASE Failover
    <3>1. CASE UNCHANGED <<master, data, owner>>
      BY <2>1, <3>1
    <3>2. ASSUME NEW p \in Pods, TakesOver(p) PROVE data'[q] # "none"
      <4>1. ShardOf(p) \in Shards
        BY PodFacts
      <4>2. (q = p => data'[q] = "live") /\ (q # p => (data'[q] = "none" <=> data[q] = "none"))
        BY <3>2, <4>1, TakeoverEffect
      <4> QED
        BY <2>1, <4>2
    <3> QED
      BY <2>4, <3>1, <3>2, FailoverEffect
  <2> QED
    BY <2>2, <2>3, <2>4 DEF Act
<1>7. ASSUME NEW q \in Pods, Lasts(q) PROVE Lasts(q)'
  BY <1>1, <1>3, <1>4, <1>6, <1>7 DEF Lasts, Attaches
<1> QED
  BY <1>5, <1>7, EnoughKeeps

\* The process or the pod goes that nobody may count on, or a fault takes it.
LEMMA EnoughRemoved ==
    ASSUME TypeOK, TypeOK', Shape, Enough, NEW p \in Pods, Terminate(p) \/ Lose(p)
    PROVE  Enough'
<1>1. Removed(p) /\ sts' = sts
  BY DEF Terminate, Lose, Removed
<1>2. ASSUME NEW q \in Pods, q # p, Lasts(q) PROVE Lasts(q)'
  <2>1. ShardOf(q) \in Shards
    BY PodFacts
  <2>2. /\ pod'[q] = pod[q] /\ (data'[q] = "none" <=> data[q] = "none") /\ op'.phase = op.phase
        /\ op'.acts = {<<a[1], IF a[2] = p THEN Ghost ELSE a[2]>> : a \in {a \in op.acts : a[1] # p}}
    BY <1>1, <1>2, <2>1, RemovedEffect
  <2>3. Attaches(q)' => Attaches(q)
    BY <2>2 DEF Attaches
  <2> QED
    BY <1>1, <1>2, <2>2, <2>3 DEF Lasts, Leaving
<1>3. CASE Terminate(p)
  <2>1. p[1] \notin sts /\ pod[p] # "absent" /\ budget' = budget
    BY <1>3 DEF Terminate
  <2>2. p \notin New
    BY <2>1, PodFacts DEF Shape, Placed
  <2>3. "old" \notin sts
    BY <2>1, <2>2, PodFacts
  <2>4. ~Lasts(p)
    BY <2>2, <2>3 DEF Lasts, Leaving
  <2> QED
    BY <1>2, <2>1, <2>4, EnoughKeeps
<1>4. CASE Lose(p)
  <2>1. "losses" \in Counters \ {"faults"} /\ budget \in [Counters -> Nat]
    BY DEF Counters, TypeOK
  <2>2. budget'.faults = budget.faults + 1
    BY <1>4, <2>1, SpendFacts DEF Lose
  <2> QED
    BY <1>2, <2>2, EnoughFault
<1> QED
  BY <1>3, <1>4

LEMMA EnoughStep == MigrationInv /\ TypeOK' /\ [Next]_vars => Enough'
<1> SUFFICES ASSUME TypeOK, Shape, Pending, Enough, TypeOK', [Next]_vars PROVE Enough'
  BY DEF MigrationInv
<1>1. ASSUME pod' = pod, data' = data, op' = op, sts' = sts, budget'.faults = budget.faults PROVE Enough'
  <2>1. ASSUME NEW q \in Pods, Lasts(q) PROVE Lasts(q)'
    BY <1>1, <2>1 DEF Lasts, Attaches, Leaving
  <2> QED
    BY <1>1, <2>1, EnoughKeeps
<1>2. CASE Resume \/ Release \/ UNCHANGED vars
  BY <1>1, <1>2 DEF Resume, Release, nodes, vars
<1>3. CASE Hold
  <2>1. "holds" \in Counters \ {"faults"} /\ budget \in [Counters -> Nat]
    BY DEF Counters, TypeOK
  <2>2. budget'.faults = budget.faults
    BY <1>3, <2>1, SpendFacts DEF Hold
  <2> QED
    BY <1>1, <1>3, <2>2 DEF Hold, nodes
<1>4. ASSUME NEW p \in Pods, Environment(p) \/ Crash(p) \/ Lose(p) PROVE Enough'
  <2>1. CASE StartPod(p) \/ Restart(p)
    <3>1. UNCHANGED <<data, op, sts, budget>>
      BY <2>1 DEF StartPod, Restart
    <3>2. ASSUME NEW q \in Pods, Lasts(q) PROVE Lasts(q)'
      <4>1. pod'[q] = "up"
        BY <2>1, <3>2 DEF StartPod, Restart, Lasts, TypeOK
      <4> QED
        BY <3>1, <3>2, <4>1 DEF Lasts, Attaches, Leaving
    <3> QED
      BY <3>1, <3>2, EnoughKeeps
  <2>2. CASE Gossip(p)
    BY <1>1, <2>2 DEF Gossip
  <2>3. CASE Sync(p)
    <3>1. UNCHANGED <<pod, op, sts, budget>>
      BY <2>3 DEF Sync
    <3>2. ASSUME NEW q \in Pods, Lasts(q) PROVE Lasts(q)'
      <4>1. data'[q] # "none"
        BY <2>3, <3>2 DEF Sync, Lasts, TypeOK
      <4> QED
        BY <3>1, <3>2, <4>1 DEF Lasts, Attaches, Leaving
    <3> QED
      BY <3>1, <3>2, EnoughKeeps
  <2>4. CASE Elected(p)
    <3>1. UNCHANGED <<pod, op, sts, budget>> /\ TakesOver(p) /\ ShardOf(p) \in Shards
      BY <2>4, PodFacts DEF Elected
    <3>2. ASSUME NEW q \in Pods, Lasts(q) PROVE Lasts(q)'
      <4>1. (q = p => data'[q] = "live") /\ (q # p => (data'[q] = "none" <=> data[q] = "none"))
        BY <3>1, TakeoverEffect
      <4> QED
        BY <3>1, <3>2, <4>1 DEF Lasts, Attaches, Leaving
    <3> QED
      BY <3>1, <3>2, EnoughKeeps
  <2>5. CASE Crash(p)
    <3>1. ASSUME NEW q \in Pods, q # p, Lasts(q) PROVE Lasts(q)'
      <4>1. /\ UNCHANGED <<sts, op>>
            /\ pod'[q] = pod[q] /\ (data'[q] = "none" <=> data[q] = "none")
        BY <2>5, <3>1, CrashEffect
      <4> QED
        BY <3>1, <4>1 DEF Lasts, Attaches, Leaving
    <3>2. budget'.faults = budget.faults + 1
      BY <2>5, CrashEffect
    <3> QED
      BY <3>1, <3>2, EnoughFault
  <2> QED
    BY <1>4, <2>1, <2>2, <2>3, <2>4, <2>5, EnoughRemoved DEF Environment
<1> QED
  BY <1>2, <1>3, <1>4, EnoughAct, EnoughGather DEF Next, Operator

LEMMA EnoughInit == Init => Enough
<1> SUFFICES ASSUME Init, NEW k \in Shards PROVE Cardinality(Lasting(k)) + budget.faults >= 1 + RPS
  BY DEF Enough
<1>1. budget.faults \in Nat /\ RPS \in Nat
  BY TypeInit, MigrationConstants DEF TypeOK, Counters
<1> DEFINE g == [m \in 0 .. RPS |-> <<"old", k, m>>]
<1>2. g \in Injection(0 .. RPS, Lasting(k))
  <2>1. ASSUME NEW m \in 0 .. RPS PROVE <<"old", k, m>> \in Lasting(k)
    <3>1. <<"old", k, m>> \in Old /\ ShardOf(<<"old", k, m>>) = k
      BY DEF Old, ShardOf
    <3>2. <<"old", k, m>> \in Pods /\ pod[<<"old", k, m>>] = "up" /\ data[<<"old", k, m>>] = "live"
      BY <3>1, PodFacts DEF Init
    <3>3. ~Leaving /\ ~Attaches(<<"old", k, m>>)
      BY DEF Init, Idle, Leaving, Attaches
    <3> QED
      BY <3>1, <3>2, <3>3 DEF Lasting, Lasts
  <2>2. g \in [0 .. RPS -> Lasting(k)] /\ \A a, b \in 0 .. RPS : g[a] = g[b] => a = b
    BY <2>1
  <2> QED
    BY <2>2 DEF Injection, IsInjective
<1> HIDE DEF g
<1>3. IsFiniteSet(Lasting(k))
  BY LastingIn, ShardSize, FS_Subset
<1>4. Cardinality(0 .. RPS) =< Cardinality(Lasting(k))
  BY <1>2, <1>3, FS_Injection
<1>5. Cardinality(0 .. RPS) = 1 + RPS
  BY <1>1, FS_Interval
<1>6. Cardinality(Lasting(k)) \in Nat
  BY <1>3, FS_CardinalityType
<1> QED
  BY <1>1, <1>4, <1>5, <1>6

\* The migration keeps its inductive invariant, whatever faults, failed probes
\* and failed commands interleave with the passes of migrateLegacyCluster.
THEOREM MigrationInvAlways == Spec => []MigrationInv
<1>1. Init => MigrationInv
  <2>1. Init => Pending
    BY DEF Init, Pending, Idle
  <2> QED
    BY <2>1, TypeInit, ShapeInit, EnoughInit DEF MigrationInv
<1>2. MigrationInv /\ [Next]_vars => MigrationInv'
  BY TypeStep, ShapeStep, PendingStep, EnoughStep DEF MigrationInv
<1> QED
  BY <1>1, <1>2, PTL DEF Spec

\* The migration never uses redundancy up, with any number of shards and
\* replicas and any number of faults: PlanClusterMigration decommissions only
\* when every new pod is the owner of its range or a live replica of it, and
\* attaches only pods that hold nothing.
THEOREM CopiesSurviveAlways == Spec => []CopiesSurvive
<1>1. MigrationInv => CopiesSurvive
  <2> SUFFICES ASSUME MigrationInv, NEW k \in Shards
               PROVE  Cardinality(Copies(k)) + budget.faults >= 1 + RPS
    BY DEF CopiesSurvive
  <2>1. IsFiniteSet(Copies(k)) /\ Lasting(k) \subseteq Copies(k)
    BY LastingIn, ShardSize, FS_Subset
  <2>2. /\ Cardinality(Lasting(k)) \in Nat /\ Cardinality(Copies(k)) \in Nat
        /\ Cardinality(Lasting(k)) =< Cardinality(Copies(k))
    BY <2>1, FS_Subset, FS_CardinalityType
  <2>3. budget.faults \in Nat /\ RPS \in Nat
    BY MigrationConstants DEF MigrationInv, TypeOK, Counters
  <2>4. Cardinality(Lasting(k)) + budget.faults >= 1 + RPS
    BY DEF MigrationInv, Enough
  <2> QED
    BY <2>2, <2>3, <2>4
<1> QED
  BY <1>1, MigrationInvAlways, PTL
=============================================================================
