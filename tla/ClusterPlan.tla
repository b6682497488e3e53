---------------------------- MODULE ClusterPlan ----------------------------
(***************************************************************************)
(* The pure half of cluster mode: the slot ranges of the shards, the       *)
(* ground truth the operator gathers (cluster_state.go, gather.go) and     *)
(* what it plans from one ground truth: whom to MEET, which range may be   *)
(* handed to which pod, which range must move (reshard_plan.go), which     *)
(* master an empty pod is attached to (cluster_topology.go).               *)
(*                                                                         *)
(* A pod is <<shard, ordinal>>, so the code's name order is the            *)
(* lexicographic order.  A Redis node ID is <<shard, ordinal, start>>: the *)
(* start-up script guarantees a fresh ID at every process start.           *)
(*                                                                         *)
(* gt.nodes is a function on the pods that had an address when the gather  *)
(* ran; an unreachable one has id NoId, role "" and no slots, like the     *)
(* zero ClusterNodeState.  gt.views is a function on the pods whose        *)
(* CLUSTER NODES was read: .seen has every ID of the view, .known those    *)
(* not flagged as failed.                                                  *)
(***************************************************************************)
EXTENDS Integers, FiniteSets

CONSTANTS NShards,     \* spec.cluster.shards
          RPS,         \* spec.cluster.replicasPerShard
          NSlots       \* 16384 in Redis

ASSUME ClusterConstants ==
    /\ NShards \in Nat \ {0}
    /\ RPS \in Nat
    /\ NSlots \in Nat /\ NSlots >= NShards

Shards   == 0..(NShards - 1)
Slots    == 0..(NSlots - 1)
Ordinals == 0..RPS
NoId     == <<>>
NoPod    == <<>>

\* ClusterPodRefs and shardMasterPodName.
ClusterPodRefs        == Shards \X Ordinals
shardMasterPodName(k) == <<k, 0>>
IdOf(p, start)        == <<p[1], p[2], start>>
PodOf(id)             == <<id[1], id[2]>>
ShardIndexFromPodName(p) == p[1]
NameBefore(p, q) == p[1] < q[1] \/ (p[1] = q[1] /\ p[2] < q[2])

----------------------------------------------------------------------------
(* Slot ranges.                                                            *)

RangeSize(k)  == NSlots \div NShards + (IF k < NSlots % NShards THEN 1 ELSE 0)
RangeStart(k) == k * (NSlots \div NShards) + (IF k < NSlots % NShards THEN k ELSE NSlots % NShards)

\* GenerateSlotRanges: consecutive ranges, the remainder on the first shards.
GenerateSlotRanges == [k \in Shards |-> <<RangeStart(k), RangeStart(k) + RangeSize(k) - 1>>]

ExpandSlotRange(r) == r[1]..r[2]

\* CLUSTER NODES prints the slots of a node as maximal runs: two adjacent
\* ranges of one owner come out as ONE range.
SlotRuns(S) == {r \in S \X S :
    /\ r[1] =< r[2] /\ r[1]..r[2] \subseteq S
    /\ r[1] - 1 \notin S /\ r[2] + 1 \notin S}

Aligned(r)    == \E k \in Shards : GenerateSlotRanges[k] = r
ShardOf(r)    == CHOOSE k \in Shards : GenerateSlotRanges[k] = r

----------------------------------------------------------------------------
(* The ground truth.                                                       *)

Nodes(gt)     == DOMAIN gt.nodes
Reachable(gt) == {p \in Nodes(gt) : gt.nodes[p].reachable}
Viewed(gt)    == DOMAIN gt.views
LiveIDs(gt)   == {gt.nodes[p].id : p \in Reachable(gt)}

\* AllNodeIDs: every ID of every view, failed entries included.
AllNodeIDs(gt) == UNION {gt.views[p].seen : p \in Viewed(gt)}
GhostNodes(gt) == AllNodeIDs(gt) \ LiveIDs(gt)

\* NodeKnows: the observer's own view names the target.
NodeKnows(gt, observer, target) ==
    \E p \in Viewed(gt) : gt.nodes[p].id = observer /\ target \in gt.views[p].known

\* computePartitions: what a breadth-first walk over the views, restricted to
\* the nodes that have a pod, reaches from each of them.
Neighbours(gt, ids) ==
    UNION {gt.views[p].known : p \in {PodOf(id) : id \in ids \cap LiveIDs(gt)} \cap Viewed(gt)}
ReachedFrom(gt, p) ==
    LET step[n \in 0..Cardinality(ClusterPodRefs)] ==
            IF n = 0 THEN {gt.nodes[p].id} ELSE Neighbours(gt, step[n - 1])
    IN  {p} \cup {PodOf(id) : id \in step[Cardinality(ClusterPodRefs)] \cap LiveIDs(gt)}
Partitions(gt)    == {ReachedFrom(gt, p) : p \in Reachable(gt)}
HasPartitions(gt) == Cardinality(Partitions(gt)) > 1

IsOwner(gt, p)      == gt.nodes[p].role = "master" /\ gt.nodes[p].runs # {}
CountMasters(gt)    == Cardinality({p \in Nodes(gt) : IsOwner(gt, p)})
GetEmptyMasters(gt) == {p \in Nodes(gt) : gt.nodes[p].role = "master" /\ gt.nodes[p].runs = {}}
Replicas(gt)        == {p \in Nodes(gt) : gt.nodes[p].role = "replica"}
ReplicasOf(gt, id)  == {p \in Replicas(gt) : gt.nodes[p].master = id}

\* TotalSlots and ClusterState: the largest count, "ok" if any node says so.
HasOrphanedSlots(gt) == \A p \in Viewed(gt) : gt.views[p].assigned < NSlots
NoSlotAssigned(gt)   == \A p \in Viewed(gt) : gt.views[p].assigned = 0
StateOk(gt)          == \E p \in Viewed(gt) : gt.views[p].ok

IsHealthy(gt) ==
    /\ Nodes(gt) = ClusterPodRefs
    /\ Cardinality(AllNodeIDs(gt)) = Cardinality(ClusterPodRefs)
    /\ ~HasPartitions(gt)
    /\ CountMasters(gt) = NShards
    /\ GetEmptyMasters(gt) = {}
    /\ StateOk(gt) /\ ~HasOrphanedSlots(gt)

\* The condition of reconcileCluster for entering repairCluster.
NeedsRepair(gt) ==
    \/ ~IsHealthy(gt) \/ HasPartitions(gt) \/ GhostNodes(gt) # {}
    \/ HasOrphanedSlots(gt) \/ GetEmptyMasters(gt) # {}

----------------------------------------------------------------------------
(* Replicas whose master is gone (Steps 0 and 1 of repairCluster).         *)

EveryReplica(gt) == {p \in Replicas(gt) : gt.nodes[p].master # NoId}  \* mutant
Stranded(gt) == {p \in Replicas(gt) :
    gt.nodes[p].master # NoId /\ gt.nodes[p].master \notin LiveIDs(gt)}

QuorumLost(gt) == CountMasters(gt) =< NShards \div 2

\* Step 1 waits only for a master that some view still names.
Orphans(gt) == {p \in Stranded(gt) : gt.nodes[p].master \in GhostNodes(gt)}

----------------------------------------------------------------------------
(* CLUSTER MEET.                                                           *)

\* AttributeMeetTarget on meetCandidate(n): a pod in gt.nodes always has an
\* address.
AttributeMeetTarget(gt, p) ==
    IF p \notin Reachable(gt) THEN "unidentified"
    ELSE IF p \notin Viewed(gt) THEN "no-view"
    ELSE LET peers == gt.views[p].known \ {gt.nodes[p].id}
         IN  IF peers \cap LiveIDs(gt) # {} THEN "member"
             ELSE IF peers # {} THEN "unattributed" ELSE "fresh"

MembersOnly(v) == v = "member"                                     \* mutant
AdmissibleWhenConfirmed(v) == v \in {"member", "fresh", "unattributed"}

\* GetLargestPartitionSeed: Go's map order picks among equally large
\* partitions, and the member the walk started from.
GetLargestPartitionSeed(gt) ==
    UNION {P \in Partitions(gt) : \A Q \in Partitions(gt) : Cardinality(Q) =< Cardinality(P)}

\* The targets of PlanPartitionMeets for one seed.
MeetTargets(gt, seed) ==
    {p \in Nodes(gt) \ {seed} : AdmissibleWhenConfirmed(AttributeMeetTarget(gt, p))}

----------------------------------------------------------------------------
(* Ghosts, ranges, replicas (Steps 2 to 4).                                *)

protectedMasters(gt) == {gt.nodes[p].master : p \in Replicas(gt)} \ {NoId}

ghostsToRemove(gt) == GhostNodes(gt) \ protectedMasters(gt)

Misaligned(gt) == \E p \in Nodes(gt) : \E r \in gt.nodes[p].runs : ~Aligned(r)

missingShardIndices(gt) ==
    {k \in Shards : \A p \in Nodes(gt) : GenerateSlotRanges[k] \notin gt.nodes[p].runs}

SafeMissingShardTarget(gt, p) ==
    p \in Reachable(gt) /\ gt.nodes[p].role = "master" /\ gt.nodes[p].runs = {}

intendedMasters(gt) == {k \in Shards : SafeMissingShardTarget(gt, shardMasterPodName(k))}

\* PlanReshard: every range a master owns beyond its lowest one is surplus;
\* the lowest surplus range goes to the first empty master by name.  Only the
\* first move of the plan is executed, and a misaligned range defers them all.
Surplus(gt) ==
    LET owned(p) == {ShardOf(r) : r \in gt.nodes[p].runs}
    IN  {m \in [shard : Shards, source : Reachable(gt)] :
            /\ IsOwner(gt, m.source) /\ m.shard \in owned(m.source)
            /\ \E j \in owned(m.source) : j < m.shard}
FirstByName(S) == {m \in S : \A n \in S \ {m} : NameBefore(m, n)}
PlanReshard(gt) ==
    LET lowest == {m \in Surplus(gt) : \A o \in Surplus(gt) : m.shard =< o.shard}
        dests  == FirstByName(GetEmptyMasters(gt) \cap Reachable(gt))
        bad    == \E p \in Reachable(gt) : IsOwner(gt, p) /\ \E r \in gt.nodes[p].runs : ~Aligned(r)
    IN  IF bad THEN {}
        ELSE {[shard |-> m.shard, source |-> m.source, dest |-> d] : m \in lowest, d \in dests}

\* chooseReattachTarget: an owner short of replicas, in the pod's own shard
\* if there is one, otherwise the first by name.
UnderReplicated(gt) ==
    {m \in Nodes(gt) : IsOwner(gt, m) /\ Cardinality(ReplicasOf(gt, gt.nodes[m].id)) < RPS}

AnyShardTarget(gt, em) == FirstByName(UnderReplicated(gt))         \* mutant
chooseReattachTarget(gt, em) ==
    LET own == {m \in UnderReplicated(gt) : ShardIndexFromPodName(m) = ShardIndexFromPodName(em)}
    IN  FirstByName(IF own # {} THEN own ELSE UnderReplicated(gt))

\* CheckShardColocation: no replica's master lives in another shard's set.
Colocated(gt) == \A p \in Replicas(gt) : \A m \in Reachable(gt) :
    gt.nodes[p].master = gt.nodes[m].id => ShardIndexFromPodName(m) = ShardIndexFromPodName(p)
=============================================================================
