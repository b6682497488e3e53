--------------------------- MODULE ClusterRollout ---------------------------
(***************************************************************************)
(* The rolling update of a cluster: reconcileClusterStatefulSet applies a  *)
(* changed pod template to one shard's StatefulSet at a time, gated at the *)
(* highest ordinal, and advanceClusterRollout lowers the partition by one  *)
(* step each time the replaced pods are synced copies of the slot owner.   *)
(*                                                                         *)
(* desired   the template of the spec (its hash)                           *)
(* sts[k]    shard k's StatefulSet: spec (tmpl, part, gen) and status      *)
(*           (obs, upd, cur, updated, ready)                               *)
(* cache[k]  the operator's cached copy of it                              *)
(* pod[k][o] the pod: rev is its revision; proc is "running",              *)
(*           "terminating" or "absent"; redis is "owner" of the shard's    *)
(*           slots, "replica" of the owner, "empty" master or "down";      *)
(*           synced is the replication link; data tells whether it holds   *)
(*           the shard's keys                                              *)
(* op        the pass under way: where it is, at which shard, what the     *)
(*           gather saw                                                    *)
(* blocked   the condition ClusterRolloutBlocked                           *)
(* edits     the changes of the spec still to come                         *)
(*                                                                         *)
(* The StatefulSet controller, the kubelet and Redis are not code of the   *)
(* repository.  A template is its own revision: Kubernetes gives equal     *)
(* templates one revision.                                                 *)
(***************************************************************************)
EXTENDS Integers, FiniteSets

CONSTANTS NShards,      \* spec.cluster.shards
          RPS,          \* spec.cluster.replicasPerShard
          Templates,    \* the pod templates a user may ask for
          MaxEdits,     \* how often
          Hasty,        \* whether an edit may come during a rollout
          Prompt        \* whether the StatefulSet controller has observed an
                        \* apply by the time the operator reads the object
                        \* back, and no pod is replaced between a gather and
                        \* that read

ASSUME RolloutConstants ==
    /\ NShards \in Nat \ {0} /\ RPS \in Nat \ {0} /\ MaxEdits \in Nat
    /\ Templates # {} /\ {Hasty, Prompt} \subseteq BOOLEAN

VARIABLES desired, sts, cache, pod, op, blocked, edits

vars == <<desired, sts, cache, pod, op, blocked, edits>>

Shards   == 0..(NShards - 1)
Ordinals == 0..RPS
want     == RPS + 1

At(pc, k, gt) == [pc |-> pc, k |-> k, gt |-> gt]
NextPass == At("apply", 0, <<>>)

----------------------------------------------------------------------------
(* The decision.                                                           *)

IgnoresObserved(s) ==                                              \* mutant
    s.upd = s.cur /\ s.updated = want /\ s.ready = want
statefulSetRolloutSettled(s) ==
    s.obs = s.gen /\ s.upd = s.cur /\ s.updated = want /\ s.ready = want

\* shardSlotOwner and buildShardRolloutInput: o is a link-up replica of the
\* gathered owner.
SyncedWithOwner(gt, o) ==
    /\ \E w \in Ordinals : gt[w].redis = "owner"
    /\ gt[o].redis = "replica" /\ gt[o].synced

\* The clauses of planShardRolloutPartition on one pod at or above the
\* partition: present and not terminating, updated, ready, a synced copy.
ReadyOnly(s, pods, gt, o) ==                                       \* mutant
    pods[o].proc = "running" /\ pods[o].rev = s.upd /\ pods[o].ready
Holds(s, pods, gt, o) ==
    /\ pods[o].proc = "running" /\ pods[o].rev = s.upd /\ pods[o].ready
    /\ SyncedWithOwner(gt, o)

Complete(s) == s.obs = s.gen /\ s.upd = s.cur

\* The partition to apply without the pods, before the gather.
StructuralPartition(s) ==
    IF s.tmpl # desired THEN RPS
    ELSE IF Complete(s) THEN 0 ELSE s.part

StopsAtOne(s, pods, gt) ==                                         \* mutant
    /\ s.tmpl = desired /\ ~Complete(s) /\ s.part > 1
    /\ \A o \in s.part..RPS : Holds(s, pods, gt, o)

\* The verdict Advance.
Advances(s, pods, gt) ==
    /\ s.tmpl = desired /\ ~Complete(s) /\ s.part > 0
    /\ \A o \in s.part..RPS : Holds(s, pods, gt, o)

\* A pod that may count as stalled once it has been ready for two minutes:
\* updated, ready, not the owner and not attached to it.
MayStall(s, pods, gt) == \E o \in s.part..RPS :
    /\ pods[o].proc = "running" /\ pods[o].rev = s.upd /\ pods[o].ready
    /\ gt[o].redis \notin {"owner", "replica"}

----------------------------------------------------------------------------
(* The user.                                                               *)

AtRest == \A k \in Shards :
    /\ sts[k].tmpl = desired /\ statefulSetRolloutSettled(sts[k]) /\ cache[k] = sts[k]
    /\ \A o \in Ordinals : pod[k][o].redis = "owner" \/ pod[k][o].synced

EditSpec ==
    /\ edits > 0 /\ (Hasty \/ (AtRest /\ op = NextPass))
    /\ \E t \in Templates \ {desired} : desired' = t
    /\ edits' = edits - 1
    /\ UNCHANGED <<sts, cache, pod, op, blocked>>

----------------------------------------------------------------------------
(* The operator.                                                           *)

\* Server-side apply: the generation moves only when the spec changes.
Applied(s, part) ==
    [s EXCEPT !.tmpl = desired, !.part = part,
              !.gen = IF s.tmpl # desired \/ s.part # part THEN @ + 1 ELSE @]

\* refreshShardSTSForRollout: the cached object only where it is settled at
\* the desired template.
AlwaysCached(k) == cache[k]                                        \* mutant
Refreshed(k) ==
    IF cache[k].tmpl = desired /\ statefulSetRolloutSettled(cache[k]) THEN cache[k] ELSE sts[k]

\* The reconcile of shard k's StatefulSet: a changed template is applied and
\* the later shards wait; so do they while this one has not settled.
ReconcileStatefulSet ==
    LET k == op.k
        s == Refreshed(k)
    IN  /\ op.pc = "apply"
        /\ IF s.tmpl # desired \/ statefulSetRolloutSettled(s)
           THEN sts' = [sts EXCEPT ![k] = Applied(@, StructuralPartition(s))]
           ELSE UNCHANGED sts
        /\ op' = IF s.tmpl = desired /\ statefulSetRolloutSettled(s) /\ k + 1 \in Shards
                 THEN At("apply", k + 1, <<>>) ELSE At("gather", 0, <<>>)
        /\ UNCHANGED <<desired, cache, pod, blocked, edits>>

\* Every shard's cached status has to count all its pods as ready; then the
\* pods are gathered.
Gather ==
    /\ op.pc = "gather"
    /\ op' = IF \A k \in Shards : cache[k].ready = want
             THEN At("advance", 0, [k \in Shards |-> [o \in Ordinals |->
                      [redis |-> pod[k][o].redis, synced |-> pod[k][o].synced]]])
             ELSE NextPass
    /\ UNCHANGED <<desired, sts, cache, pod, blocked, edits>>

\* The first shard not at rest, read afresh, with what the gather saw.
AdvanceClusterRollout ==
    LET busy  == {k \in Shards : ~(sts[k].tmpl = desired /\ statefulSetRolloutSettled(sts[k]))}
        first == CHOOSE k \in busy : \A j \in busy : k =< j
        s     == sts[first]
    IN  /\ op.pc = "advance"
        /\ Prompt => \A k \in Shards : sts[k].obs = sts[k].gen
        /\ IF busy # {} /\ Advances(s, pod[first], op.gt[first])
           THEN sts' = [sts EXCEPT ![first] = Applied(@, s.part - 1)]
           ELSE UNCHANGED sts
        /\ \/ blocked' = FALSE
           \/ /\ busy # {} /\ s.tmpl = desired /\ ~Complete(s) /\ blocked' = TRUE
              /\ MayStall(s, pod[first], op.gt[first])
        /\ op' = At("repair", 0, op.gt)
        /\ UNCHANGED <<desired, cache, pod, edits>>

\* repairCluster, as far as a rollout needs it (Cluster.tla has all of it):
\* an empty pod is attached to the gathered owner, or, without one, ordinal 0
\* is given the range.
Repair ==
    /\ op.pc = "repair"
    /\ LET gt       == op.gt
           owned(k) == \E o \in Ordinals : gt[k][o].redis = "owner"
           fix(k, o) ==
               IF pod[k][o].redis # "empty" \/ gt[k][o].redis # "empty" THEN pod[k][o]
               ELSE IF owned(k) THEN [pod[k][o] EXCEPT !.redis = "replica"]
               ELSE IF o = 0 THEN [pod[k][o] EXCEPT !.redis = "owner"] ELSE pod[k][o]
       IN  pod' = [k \in Shards |-> [o \in Ordinals |-> fix(k, o)]]
    /\ op' = NextPass
    /\ UNCHANGED <<desired, sts, cache, blocked, edits>>

Operator ==
    ReconcileStatefulSet \/ Gather \/ AdvanceClusterRollout \/ Repair

InformerDelivers(k) ==
    /\ cache[k] # sts[k] /\ cache' = [cache EXCEPT ![k] = sts[k]]
    /\ UNCHANGED <<desired, sts, pod, op, blocked, edits>>

----------------------------------------------------------------------------
(* The StatefulSet controller, the kubelet and Redis.                      *)

\* A sync writes the status.  The current revision follows once all pods are
\* updated and ready.  The cache lags by one write of the status at most, or by
\* the operator's own apply and what the controller wrote of it.
StatusSync(k) ==
    LET s       == sts[k]
        updated == Cardinality({o \in Ordinals : pod[k][o].proc # "absent" /\ pod[k][o].rev = s.tmpl})
        ready   == Cardinality({o \in Ordinals : pod[k][o].ready})
        t       == [s EXCEPT !.obs = s.gen, !.upd = s.tmpl, !.updated = updated, !.ready = ready,
                             !.cur = IF updated = want /\ ready = want THEN s.tmpl ELSE @]
    IN  /\ cache[k] = s \/ cache[k].gen < s.gen
        /\ s # t /\ sts' = [sts EXCEPT ![k] = t]
        /\ UNCHANGED <<desired, cache, pod, op, blocked, edits>>

\* The highest pod of another revision is deleted, once those above it are
\* healthy, down to the partition.
DeleteOutdated(k, o) ==
    /\ o >= sts[k].part /\ pod[k][o].proc = "running" /\ pod[k][o].rev # sts[k].tmpl
    /\ \A h \in (o + 1)..RPS : pod[k][h].rev = sts[k].tmpl /\ pod[k][h].ready
    /\ pod' = [pod EXCEPT ![k][o].proc = "terminating", ![k][o].ready = FALSE]
    /\ UNCHANGED <<desired, sts, cache, op, blocked, edits>>

\* The preStop hook of an owner hands the slots to a healthy replica, which
\* the manual failover lets catch up first.
HandOver(k, o, r) ==
    /\ pod[k][o].proc = "terminating" /\ pod[k][o].redis = "owner"
    /\ pod[k][r].proc = "running" /\ pod[k][r].redis = "replica" /\ pod[k][r].synced
    /\ pod' = [pod EXCEPT ![k][r].redis = "owner", ![k][r].synced = FALSE,
                          ![k][o].redis = "replica", ![k][o].synced = TRUE]
    /\ UNCHANGED <<desired, sts, cache, op, blocked, edits>>

\* The pod ends with its memory.  An owner leaves without a handover only when
\* it has no synced replica.
Terminate(k, o) ==
    /\ pod[k][o].proc = "terminating"
    /\ pod[k][o].redis = "owner" => \A r \in Ordinals : ~pod[k][r].synced
    /\ pod' = [pod EXCEPT ![k][o] = [@ EXCEPT !.proc = "absent", !.redis = "down",
                                              !.synced = FALSE, !.data = FALSE]]
    /\ UNCHANGED <<desired, sts, cache, op, blocked, edits>>

\* A missing pod below the partition is created at the current revision.
CreatePod(k, o) ==
    /\ pod[k][o].proc = "absent"
    /\ pod' = [pod EXCEPT ![k][o].proc = "running",
                          ![k][o].rev = IF o < sts[k].part THEN sts[k].cur ELSE sts[k].tmpl]
    /\ UNCHANGED <<desired, sts, cache, op, blocked, edits>>

\* Redis answers PING: an empty master with a new node ID.
BecomeReady(k, o) ==
    /\ pod[k][o].proc = "running" /\ ~pod[k][o].ready
    /\ Prompt => op.pc # "advance"
    /\ pod' = [pod EXCEPT ![k][o].ready = TRUE, ![k][o].redis = "empty"]
    /\ UNCHANGED <<desired, sts, cache, op, blocked, edits>>

FullSync(k, o) ==
    /\ pod[k][o].redis = "replica" /\ ~pod[k][o].synced
    /\ \E w \in Ordinals :
          /\ pod[k][w].redis = "owner"
          /\ pod' = [pod EXCEPT ![k][o].synced = TRUE, ![k][o].data = pod[k][w].data]
    /\ UNCHANGED <<desired, sts, cache, op, blocked, edits>>

PodStep(k, o) ==
    \/ DeleteOutdated(k, o) \/ Terminate(k, o) \/ CreatePod(k, o) \/ BecomeReady(k, o)
    \/ FullSync(k, o) \/ \E r \in Ordinals \ {o} : HandOver(k, o, r)

----------------------------------------------------------------------------

\* A cluster at rest; an earlier failover may have left the slots with any
\* ordinal.
Init ==
    /\ desired = CHOOSE t \in Templates : TRUE
    /\ sts = [k \in Shards |-> [tmpl |-> desired, part |-> 0, gen |-> 1, obs |-> 1,
                                upd |-> desired, cur |-> desired, updated |-> want, ready |-> want]]
    /\ cache = sts
    /\ \E w \in Ordinals : pod = [k \in Shards |-> [o \in Ordinals |->
          [rev |-> desired, proc |-> "running", ready |-> TRUE, data |-> TRUE,
           redis |-> IF o = w THEN "owner" ELSE "replica", synced |-> o # w]]]
    /\ op = NextPass /\ blocked = FALSE /\ edits = MaxEdits

Next ==
    \/ EditSpec \/ Operator
    \/ \E k \in Shards : InformerDelivers(k) \/ StatusSync(k) \/ \E o \in Ordinals : PodStep(k, o)

Spec == Init /\ [][Next]_vars

\* The operator requeues for ever; the informer, the controllers, the kubelet
\* and replication keep working.
Fairness ==
    /\ WF_vars(Operator)
    /\ \A k \in Shards :
          /\ WF_vars(InformerDelivers(k)) /\ WF_vars(StatusSync(k))
          /\ \A o \in Ordinals : WF_vars(PodStep(k, o))

FairSpec == Spec /\ Fairness

----------------------------------------------------------------------------
(* Properties.                                                             *)

\* "The shard's master is never taken down while no synced copy of its slots
\* exists": every shard keeps a pod that holds its keys, whatever the order of
\* applies, status updates, deletions, handovers and full syncs.
ShardKeepsACopy == \A k \in Shards : \E o \in Ordinals : pod[k][o].data

\* The pods of shard k that are being replaced.
Disturbed(k) == {o \in Ordinals : pod[k][o].proc # "running" \/ ~pod[k][o].ready}

\* A template change restarts the pods of one shard at a time, and of that
\* shard one pod: the later shards wait until it has settled
\* (reconcileClusterStatefulSet, planShardRolloutPartition).
OnePodAtATime == \A k, j \in Shards : \A o \in Disturbed(k), h \in Disturbed(j) : k = j /\ o = h

\* Every rollout completes: all pods at the desired template, redundant, and
\* no shard reported as blocked.
RolloutCompletes ==
    <>[](/\ ~blocked
         /\ \A k \in Shards, o \in Ordinals :
               pod[k][o].rev = desired /\ pod[k][o].data /\ (pod[k][o].redis = "owner" \/ pod[k][o].synced))
=============================================================================
