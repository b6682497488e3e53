------------------------------ MODULE Cluster ------------------------------
(***************************************************************************)
(* Cluster mode: the reconcile pass of reconcileCluster and repairCluster  *)
(* over a Redis Cluster whose pods crash, disappear and come back empty.   *)
(*                                                                         *)
(* node[p]    the pod p and the Redis in it.  proc is "up", "yield" (the   *)
(*            container restarted and the start-up script waits for its    *)
(*            peers) or "gone" (no pod).  view is the set of IDs of its    *)
(*            CLUSTER NODES, smap its slot map with the epoch of each      *)
(*            claim, data the slots whose dataset it holds in memory.      *)
(* orphaned   status.cluster.orphanedReplicas: "no", "new", or "old" when  *)
(*            the entry is older than node timeout + grace period          *)
(* wipeSince  status.cluster.wipeDeadlockSince: "none", "armed" or         *)
(*            "elapsed" when it is older than the cooldown                 *)
(* phase      status.phase                                                 *)
(* op         the pass under way: where it is, its ground truth, the       *)
(*            commands still to issue, whether one of them succeeded       *)
(* budget     the faults left: crashes and lost pods, readiness flaps,     *)
(*            commands that fail, probes that time out; frail is the set   *)
(*            of pods the faults hit, and elects tells whether a replica   *)
(*            that may win an election is sure to hold one                 *)
(*                                                                         *)
(* Redis itself (gossip, slot-map merges, elections, replication) is not   *)
(* code of the repository: it is modelled from what the operator and the   *)
(* start-up script rely on.                                                *)
(***************************************************************************)
EXTENDS ClusterPlan, FiniteSetsExt

CONSTANTS Scenarios    \* the initial states: [node, budget] records

IDs == {NoId} \cup (Shards \X Ordinals \X Nat)
NodeStates ==
    [proc : {"up", "yield", "gone"}, ready : BOOLEAN, restarted : BOOLEAN, ip : Nat, start : Nat,
     role : {"master", "replica"}, master : IDs, view : SUBSET IDs,
     smap : [Slots -> [id : IDs, ep : Nat]], ep : Nat, data : SUBSET Slots]
Budgets ==
    [crashes : Nat, losses : Nat, flaps : Nat, errors : Nat, probes : Nat,
     frail : SUBSET ClusterPodRefs, elects : BOOLEAN]

\* The IDs a node has heard of, and those that some process of a pod had.
IdsIn(n) == n.view \cup {n.master} \cup {n.smap[s].id : s \in Slots}
Issued(nodes, id) ==
    id = NoId \/ \E p \in ClusterPodRefs : \E k \in 0..nodes[p].start : id = IdOf(p, k)

ASSUME ScenariosAssumption ==
    \A sc \in Scenarios :
        /\ sc.node \in [ClusterPodRefs -> NodeStates] /\ sc.budget \in Budgets
        /\ \A p \in ClusterPodRefs :
              /\ \A id \in IdsIn(sc.node[p]) : Issued(sc.node, id)
              /\ sc.node[p].proc = "up" => IdOf(p, sc.node[p].start) \in sc.node[p].view
              /\ sc.node[p].proc # "up" => sc.node[p].data = {} /\ ~sc.node[p].ready

VARIABLES node, orphaned, wipeSince, phase, op, budget

vars == <<node, orphaned, wipeSince, phase, op, budget>>

Pods == ClusterPodRefs
Free == [id |-> NoId, ep |-> 0]

NoGT == [nodes |-> <<>>, views |-> <<>>]
Idle == [pc |-> "idle", gt |-> NoGT, todo |-> {}, acted |-> FALSE]
At(pc, gt, todo) == [pc |-> pc, gt |-> gt, todo |-> todo, acted |-> FALSE]

----------------------------------------------------------------------------
(* Redis nodes.                                                            *)

Up(p)     == node[p].proc = "up"
Id(p)     == IdOf(p, node[p].start)
Alive(id) == id # NoId /\ Up(PodOf(id)) /\ Id(PodOf(id)) = id
Owned(p)  == {s \in Slots : node[p].smap[s].id = Id(p)}
Holders(s) == {p \in Pods : Up(p) /\ s \in node[p].data}
MaxEpoch  == Max({node[p].ep : p \in Pods} \cup
                 {node[p].smap[s].ep : p \in Pods, s \in Slots})

\* A process that starts: a fresh ID, an empty memory, a view of itself only.
Started(p, ip, start, restarted) ==
    [proc |-> "up", ready |-> TRUE, restarted |-> restarted, ip |-> ip, start |-> start,
     role |-> "master", master |-> NoId, view |-> {IdOf(p, start)},
     smap |-> [s \in Slots |-> Free], ep |-> 0, data |-> {}]

Stopped(n, proc) ==
    [n EXCEPT !.proc = proc, !.ready = FALSE, !.restarted = (proc = "yield"),
              !.role = "master", !.master = NoId, !.view = {},
              !.smap = [s \in Slots |-> Free], !.ep = 0, !.data = {}]

\* CLUSTER FAILOVER TAKEOVER on a replica: it claims its master's slots with
\* a new epoch.  A node that is no replica refuses the command.
CanTakeOver(p) == Up(p) /\ node[p].role = "replica"
TakenOver(p) ==
    LET claim == [id |-> Id(p), ep |-> MaxEpoch + 1]
    IN  [node[p] EXCEPT !.role = "master", !.master = NoId, !.ep = claim.ep,
            !.smap = [s \in Slots |-> IF @[s].id = node[p].master THEN claim ELSE @[s]]]

\* CLUSTER ADDSLOTS: refused when the node's own map has one of them taken.
CanAddSlots(p, S) == Up(p) /\ node[p].role = "master" /\ \A s \in S : node[p].smap[s].id = NoId
SlotsAdded(p, S) ==
    [node[p] EXCEPT !.smap = [s \in Slots |->
        IF s \in S THEN [id |-> Id(p), ep |-> node[p].ep] ELSE @[s]]]

\* CLUSTER REPLICATE: the node must know the master, and a master may be
\* turned into a replica only when it has neither slots nor keys.
CanReplicate(p, id) ==
    /\ Up(p) /\ id \in node[p].view \ {Id(p)}
    /\ Alive(id) => node[PodOf(id)].role = "master"
    /\ node[p].role = "master" => Owned(p) = {} /\ node[p].data = {}
Replicating(p, id) == [node[p] EXCEPT !.role = "replica", !.master = id]

----------------------------------------------------------------------------
(* The cluster bus.                                                        *)

\* The live nodes p hears of, directly or through others.
Views(ids) == UNION {node[PodOf(id)].view : id \in {i \in ids : Alive(i)}}
Mesh(p) ==
    LET step[n \in 0..Cardinality(Pods)] == IF n = 0 THEN {Id(p)} ELSE Views(step[n - 1])
        heard == step[Cardinality(Pods)]
    IN  {q \in Pods : Up(q) /\ Id(q) \in heard}

\* The live claims on s among the nodes M, and the one with the highest epoch.
Claims(M, s) == {q \in M : node[q].smap[s].id = Id(q)}
Beats(p, q)  == node[p].ep > node[q].ep \/ (node[p].ep = node[q].ep /\ NameBefore(p, q))
Best(C)      == {p \in C : \A q \in C \ {p} : Beats(p, q)}

\* The slot map of p after gossip.  A claim replaces no claim, a lower epoch,
\* or a claim its node has given up; the claim of a dead node with a higher
\* epoch stands.
MergedMap(p, M) == [s \in Slots |->
    LET old == node[p].smap[s]
        new == {[id |-> Id(q), ep |-> node[q].ep] : q \in Best(Claims(M, s))}
        won == {c \in new : Alive(old.id) \/ old.ep < c.ep \/ old.id = NoId}
    IN  IF won # {} THEN CHOOSE c \in won : TRUE ELSE old]

\* The node a master follows once its last slot is taken from it, and the one
\* a replica follows once its master's last slot is.
Heir(p, m) ==
    LET me   == IF node[p].role = "master" THEN Id(p) ELSE node[p].master
        had  == {s \in Slots : node[p].smap[s].id = me}
    IN  IF \E s \in had : m[s].id = me THEN {} ELSE {m[s].id : s \in had}

Merged(p) ==
    LET M == Mesh(p)
        m == MergedMap(p, M)
        w == Heir(p, m)
        n == [node[p] EXCEPT !.view = @ \cup {Id(q) : q \in M}, !.smap = m]
    IN  IF w = {} THEN n
        ELSE [n EXCEPT !.role = "replica", !.master = CHOOSE id \in w : TRUE]

\* p knows a live node that knows a live node p does not, or whose claim on
\* a slot p has yet to take over.
Behind(p) == Up(p) /\ \E q \in Pods \ {p} :
    /\ Up(q) /\ Id(q) \in node[p].view
    /\ \/ \E id \in node[q].view \ node[p].view : Alive(id)
       \/ \E s \in Slots :
             LET old == node[p].smap[s]
             IN  /\ node[q].smap[s].id = Id(q) /\ old # node[q].smap[s]
                 /\ old.id = NoId \/ Alive(old.id) \/ old.ep < node[q].ep

\* Gossip takes a second or two.  A synchronisation and the grace periods,
\* which are longer, end after it.
Settled == \A p \in Pods : ~Behind(p)

Gossip ==
    /\ ~Settled
    /\ node' = [p \in Pods |-> IF Up(p) THEN Merged(p) ELSE node[p]]
    /\ UNCHANGED <<orphaned, wipeSince, phase, op, budget>>

\* A replica elected by the majority of the slot-owning masters it knows.
Elected(p) ==
    LET owners == {node[p].smap[s].id : s \in Slots} \ {NoId}
    IN  /\ Up(p) /\ node[p].role = "replica" /\ ~Alive(node[p].master)
        /\ node[p].master \in owners
        /\ 2 * Cardinality({id \in owners \cap node[p].view : Alive(id)}) > Cardinality(owners)
        /\ node' = [node EXCEPT ![p] = TakenOver(p)]
        /\ UNCHANGED <<orphaned, wipeSince, phase, op, budget>>

\* A replica ends its synchronisation: it holds what its master holds.
Sync(p) ==
    /\ Up(p) /\ node[p].role = "replica" /\ Alive(node[p].master)
    /\ node[p].data # node[PodOf(node[p].master)].data /\ Settled
    /\ node' = [node EXCEPT ![p].data = node[PodOf(node[p].master)].data]
    /\ UNCHANGED <<orphaned, wipeSince, phase, op, budget>>

\* A client writes to a slot whose data is nowhere any more.
ClientWrite(p, s) ==
    /\ Up(p) /\ s \in Owned(p) /\ Holders(s) = {}
    /\ node' = [node EXCEPT ![p].data = @ \cup {s}]
    /\ UNCHANGED <<orphaned, wipeSince, phase, op, budget>>

----------------------------------------------------------------------------
(* Pods: faults, the StatefulSet controller, the start-up script.          *)

Spend(f) == budget[f] > 0 /\ budget' = [budget EXCEPT ![f] = @ - 1]

\* The container dies and restarts in place: same address, nodes.conf kept.
Crash(p) ==
    /\ Spend("crashes") /\ Up(p)
    /\ node' = [node EXCEPT ![p] = Stopped(@, "yield")]
    /\ UNCHANGED <<orphaned, wipeSince, phase, op>>

\* The pod is lost with its machine.
Lose(p) ==
    /\ Spend("losses") /\ node[p].proc # "gone"
    /\ node' = [node EXCEPT ![p] = Stopped(@, "gone")]
    /\ UNCHANGED <<orphaned, wipeSince, phase, op>>

\* The readiness probe fails for a while; Redis keeps its memory.
Flap(p) ==
    /\ Spend("flaps") /\ Up(p) /\ node[p].ready
    /\ node' = [node EXCEPT ![p].ready = FALSE]
    /\ UNCHANGED <<orphaned, wipeSince, phase, op>>

ReadyAgain(p) ==
    /\ Up(p) /\ ~node[p].ready
    /\ node' = [node EXCEPT ![p].ready = TRUE]
    /\ UNCHANGED <<orphaned, wipeSince, phase, op, budget>>

\* The StatefulSet controller replaces a missing pod: a new address, no
\* nodes.conf, so the script starts Redis at once.
Recreate(p) ==
    /\ node[p].proc = "gone"
    /\ node' = [node EXCEPT ![p] = Started(p, @.ip + 1, @.start + 1, FALSE)]
    /\ UNCHANGED <<orphaned, wipeSince, phase, op, budget>>

\* The yield loop.  A peer still sees this address as a master with slots.
StillOwnSlots(p) ==
    {q \in Pods \ {p} : Up(q) /\ \E s \in Slots : node[q].smap[s].id = Id(p)}
Peers(p) == {q \in Pods \ {p} : Up(q)}

StartsAnyway(p) ==                                                 \* mutant
    /\ node[p].proc = "yield"
    /\ node' = [node EXCEPT ![p] = [Started(p, @.ip, @.start + 1, TRUE) EXCEPT
                   !.view = UNION {node[q].view : q \in Peers(p)} \cup {IdOf(p, node[p].start + 1)}]]
    /\ UNCHANGED <<orphaned, wipeSince, phase, op, budget>>

\* No contacted peer says so (or none answers for all twelve attempts):
\* nodes.conf is removed and Redis starts as another node.
StartAfterYield(p) ==
    /\ node[p].proc = "yield" /\ StillOwnSlots(p) = {}
    /\ node' = [node EXCEPT ![p] = Started(p, @.ip, @.start + 1, TRUE)]
    /\ UNCHANGED <<orphaned, wipeSince, phase, op, budget>>

\* From the sixth attempt on the script forces a replica that such a peer
\* names.  Without one it stays parked and the liveness probe restarts it.
YieldTakeover(p) ==
    \E q \in StillOwnSlots(p), r \in Pods \ {p} :
        /\ node[p].proc = "yield"
        /\ CanTakeOver(r) /\ node[r].master = Id(p) /\ Id(r) \in node[q].view
        /\ node' = [node EXCEPT ![r] = TakenOver(r)]
        /\ UNCHANGED <<orphaned, wipeSince, phase, op, budget>>

\* Time: the markers in the status get old between two passes.
Tick ==
    /\ op.pc = "idle" /\ Settled
    /\ orphaned' = [p \in Pods |-> IF orphaned[p] = "new" THEN "old" ELSE orphaned[p]]
    /\ wipeSince' = IF wipeSince = "armed" THEN "elapsed" ELSE wipeSince
    /\ <<orphaned', wipeSince'>> # <<orphaned, wipeSince>>
    /\ UNCHANGED <<node, phase, op, budget>>

----------------------------------------------------------------------------
(* The gather.                                                             *)

\* What GatherClusterGroundTruth reads while the pods in lost do not answer.
Gathered(lost) ==
    LET present == {p \in Pods : node[p].proc # "gone"}
        answers == {p \in present \ lost : Up(p)}
    IN  [nodes |-> [p \in present |->
            IF p \in answers
            THEN [ip |-> node[p].ip, reachable |-> TRUE, id |-> Id(p), role |-> node[p].role,
                  master |-> node[p].master, runs |-> SlotRuns(Owned(p))]
            ELSE [ip |-> node[p].ip, reachable |-> FALSE, id |-> NoId, role |-> "",
                  master |-> NoId, runs |-> {}]],
         views |-> [p \in answers |->
            [seen     |-> node[p].view,
             known    |-> {id \in node[p].view : Alive(id)},
             assigned |-> Cardinality({s \in Slots : node[p].smap[s].id # NoId}),
             ok       |-> \A s \in Slots : Alive(node[p].smap[s].id)]]]

\* A command addressed to the gathered address of p reaches Redis.
Answers(gt, p) == Up(p) /\ gt.nodes[p].ip = node[p].ip

\* confirmPodIP: the API server still has this pod at this address.
confirmPodIP(gt, p) == node[p].proc # "gone" /\ gt.nodes[p].ip = node[p].ip

----------------------------------------------------------------------------
(* The pass: what follows each step of repairCluster.                      *)

AfterStep4(gt) ==
    IF NoSlotAssigned(gt) /\ Replicas(gt) = {} THEN At("bootstrap", gt, {}) ELSE At("status", gt, {})

Reattachable(gt) == {em \in GetEmptyMasters(gt) :
    \E m \in chooseReattachTarget(gt, em) : NodeKnows(gt, gt.nodes[em].id, gt.nodes[m].id)}
AfterReshard(gt) ==
    IF RPS # 0 /\ Reattachable(gt) # {} THEN At("reattach", gt, Reattachable(gt)) ELSE AfterStep4(gt)

AfterAddSlots(gt) ==
    IF PlanReshard(gt) # {} THEN At("reshard", gt, PlanReshard(gt)) ELSE AfterReshard(gt)

AfterGhosts(gt) ==
    IF Misaligned(gt) THEN Idle
    ELSE LET todo == missingShardIndices(gt) \cap intendedMasters(gt)
         IN  IF todo # {} THEN At("addslots", gt, todo) ELSE AfterAddSlots(gt)

AfterPartitions(gt) ==
    IF ghostsToRemove(gt) # {} THEN At("forget", gt, ghostsToRemove(gt)) ELSE AfterGhosts(gt)

ForcedOrphans(gt) == {p \in Orphans(gt) : orphaned[p] = "old"}
AfterQuorum(gt) ==
    IF HasPartitions(gt)
    THEN IF ForcedOrphans(gt) # {} THEN At("force", gt, ForcedOrphans(gt)) ELSE At("track", gt, {})
    ELSE AfterPartitions(gt)

RepairStart(gt) ==
    IF QuorumLost(gt) /\ Stranded(gt) # {} THEN At("takeover", gt, Stranded(gt)) ELSE AfterQuorum(gt)

----------------------------------------------------------------------------
(* The actions of the operator.                                            *)

AllReady == \A p \in Pods : node[p].ready

\* planClusterWipeRecovery and its execution, then the status update of the
\* branch of reconcileCluster that waits for the pods.
EvenIfReady(p) == node[p].proc # "gone" /\ node[p].restarted       \* mutant
recyclable(p) == node[p].proc # "gone" /\ ~node[p].ready /\ node[p].restarted
Recyclable == {p \in Pods : recyclable(p)}

WaitForPods ==
    /\ op.pc = "idle" /\ ~AllReady
    /\ phase' = "Initializing"
    /\ \/ Recyclable = {} /\ wipeSince' = "none" /\ UNCHANGED node
       \/ Recyclable # {} /\ wipeSince = "none" /\ wipeSince' = "armed" /\ UNCHANGED node
       \/ Recyclable # {} /\ wipeSince = "armed" /\ UNCHANGED <<wipeSince, node>>
       \/ /\ Recyclable # {} /\ wipeSince = "elapsed" /\ wipeSince' = "none"
          /\ node' = [p \in Pods |-> IF p \in Recyclable THEN Stopped(node[p], "gone") ELSE node[p]]
    /\ UNCHANGED <<orphaned, op, budget>>

\* Deleting a pod fails: the pass ends before the marker is cleared.
RecycleFails ==
    /\ op.pc = "idle" /\ ~AllReady /\ wipeSince = "elapsed" /\ Spend("errors")
    /\ \E D \in SUBSET Recyclable :
          /\ D # Recyclable
          /\ node' = [p \in Pods |-> IF p \in D THEN Stopped(node[p], "gone") ELSE node[p]]
    /\ UNCHANGED <<orphaned, wipeSince, phase, op>>

\* All pods are ready: the pass goes on to the gather.
StartPass ==
    /\ op.pc = "idle" /\ AllReady
    /\ op' = At("gather", NoGT, {})
    /\ UNCHANGED <<node, orphaned, wipeSince, phase, budget>>

\* updateClusterStatus: Running only with every pod ready and a healthy gt.
PhaseFor(gt) == IF AllReady /\ IsHealthy(gt) THEN "Running"
                ELSE IF phase = "Pending" THEN "Pending" ELSE "Initializing"

\* No probe fails, or those of all the frail pods do.
Gather ==
    /\ op.pc = "gather"
    /\ \/ op' = At("plan", Gathered({}), {}) /\ UNCHANGED budget
       \/ Spend("probes") /\ op' = At("plan", Gathered(budget.frail), {})
    /\ UNCHANGED <<node, orphaned, wipeSince, phase>>

\* The decision on a ground truth does no I/O: nothing happens meanwhile.
Plan ==
    /\ op.pc = "plan"
    /\ IF NeedsRepair(op.gt)
       THEN op' = RepairStart(op.gt) /\ UNCHANGED phase
       ELSE op' = Idle /\ phase' = PhaseFor(op.gt)
    /\ UNCHANGED <<node, orphaned, wipeSince, budget>>

\* One command of a step was issued to p.
Next1(done, after) ==
    IF op.todo # {done} THEN [op EXCEPT !.todo = @ \ {done}] ELSE after

\* Step 0 and the forced promotions of Step 1.  A failed command leaves the
\* pass going; one success ends it.
Takeover(p) ==
    LET ok    == CanTakeOver(p) /\ Answers(op.gt, p)
        acted == [op EXCEPT !.acted = TRUE, !.todo = @ \ {p}]
        after == IF op.pc = "takeover"
                 THEN IF op.acted THEN Idle ELSE AfterQuorum(op.gt)
                 ELSE [At("track", op.gt, {}) EXCEPT !.acted = op.acted]
    IN  /\ op.pc \in {"takeover", "force"} /\ p \in op.todo
        /\ \/ /\ ok /\ node' = [node EXCEPT ![p] = TakenOver(p)]
              /\ op' = IF op.todo # {p} THEN acted
                       ELSE IF op.pc = "takeover" THEN Idle
                       ELSE [At("track", op.gt, {}) EXCEPT !.acted = TRUE]
              /\ UNCHANGED budget
           \/ ~ok /\ op' = Next1(p, after) /\ UNCHANGED <<node, budget>>
           \/ ok /\ Spend("errors") /\ op' = Next1(p, after) /\ UNCHANGED node
        /\ UNCHANGED <<orphaned, wipeSince, phase>>

\* Step 1 writes the orphans it waits for, but only when their number changed
\* or one was promoted; a conflict ends the pass.
Waiting(gt) == {p \in Orphans(gt) : orphaned[p] # "old"}
TrackOrphans ==
    LET gt     == op.gt
        write  == op.acted \/ Cardinality({p \in Pods : orphaned[p] # "no"}) # Cardinality(Waiting(gt))
        after  == IF op.acted \/ Waiting(gt) # {} THEN Idle ELSE At("seed", gt, {})
    IN  /\ op.pc = "track"
        /\ \/ /\ orphaned' = IF write THEN [p \in Pods |-> IF p \in Waiting(gt) THEN "new" ELSE "no"]
                             ELSE orphaned
              /\ op' = after
              /\ UNCHANGED budget
           \/ write /\ Spend("errors") /\ op' = Idle /\ UNCHANGED orphaned
        /\ UNCHANGED <<node, wipeSince, phase>>

\* The MEET round from one seed: every confirmed target that answers.
Met(seed, T) == [p \in Pods |->
    IF p = seed THEN [node[p] EXCEPT !.view = @ \cup {Id(q) : q \in T}]
    ELSE IF p \in T THEN [node[p] EXCEPT !.view = @ \cup {Id(seed)}] ELSE node[p]]

HealPartitions ==
    /\ op.pc = "seed"
    /\ \E seed \in GetLargestPartitionSeed(op.gt) :
          LET ok == /\ AdmissibleWhenConfirmed(AttributeMeetTarget(op.gt, seed))
                    /\ confirmPodIP(op.gt, seed)
              T  == {q \in MeetTargets(op.gt, seed) : confirmPodIP(op.gt, q) /\ Up(q)}
          IN  node' = IF ok /\ Up(seed) THEN Met(seed, T) ELSE node
    /\ op' = Idle
    /\ UNCHANGED <<orphaned, wipeSince, phase, budget>>

\* Step 2: FORGET on every reachable node, errors ignored.  A node refuses to
\* forget the master it replicates.
Forgot(p, G) ==
    LET gone == G \ {node[p].master}
    IN  [node[p] EXCEPT !.view = @ \ gone,
            !.smap = [s \in Slots |-> IF @[s].id \in gone THEN Free ELSE @[s]]]
ForgetGhosts ==
    /\ op.pc = "forget"
    /\ node' = [p \in Pods |-> IF p \in Reachable(op.gt) /\ Answers(op.gt, p)
                               THEN Forgot(p, op.todo \ {Id(p)}) ELSE node[p]]
    /\ op' = Idle
    /\ UNCHANGED <<orphaned, wipeSince, phase, budget>>

\* Step 3: the whole range of a missing shard to its ordinal-0 pod.
AssignShard(k) ==
    LET p  == shardMasterPodName(k)
        S  == ExpandSlotRange(GenerateSlotRanges[k])
        ok == CanAddSlots(p, S) /\ Answers(op.gt, p)
    IN  /\ op.pc = "addslots" /\ k \in op.todo
        /\ \A j \in op.todo : k =< j
        /\ node' = IF ok THEN [node EXCEPT ![p] = SlotsAdded(p, S)] ELSE node
        /\ op' = IF op.todo # {k} THEN [op EXCEPT !.todo = @ \ {k}, !.acted = @ \/ ok]
                 ELSE IF ok \/ op.acted THEN Idle ELSE AfterAddSlots(op.gt)
        /\ UNCHANGED <<orphaned, wipeSince, phase, budget>>

\* SETSLOT NODE, and MIGRATE of the keys unless they are left behind.  The
\* replicas of the source delete what it deletes.
Flipped(m, S, moved) ==
    LET claim    == [id |-> Id(m.dest), ep |-> MaxEpoch + 1]
        remap(n) == [n EXCEPT !.smap = [s \in Slots |-> IF s \in S THEN claim ELSE @[s]]]
    IN  [p \in Pods |->
            IF p = m.dest THEN [remap(node[p]) EXCEPT !.ep = claim.ep, !.data = @ \cup moved]
            ELSE IF p = m.source THEN [remap(node[p]) EXCEPT !.data = @ \ S]
            ELSE IF node[p].master = Id(m.source) THEN [node[p] EXCEPT !.data = @ \ S]
            ELSE node[p]]

FlipsUndrained(m) ==                                               \* mutant
    /\ op.pc = "reshard" /\ m \in op.todo
    /\ node' = Flipped(m, ExpandSlotRange(GenerateSlotRanges[m.shard]), {})
    /\ op' = Idle
    /\ UNCHANGED <<orphaned, wipeSince, phase, budget>>

\* Step 3b: the surplus range moves with its keys.  SlotMove.tla has the
\* steps of the move; here it happens at once, or not at all.
MoveShard(m) ==
    LET S == ExpandSlotRange(GenerateSlotRanges[m.shard])
    IN  /\ op.pc = "reshard" /\ m \in op.todo
        /\ node' = IF Answers(op.gt, m.source) /\ Answers(op.gt, m.dest) /\ S \subseteq Owned(m.source)
                   THEN Flipped(m, S, S \cap node[m.source].data) ELSE node
        /\ op' = Idle
        /\ UNCHANGED <<orphaned, wipeSince, phase, budget>>

\* Step 4: one empty master becomes a replica and the pass ends.
Reattach(em) ==
    LET target == CHOOSE m \in chooseReattachTarget(op.gt, em) : TRUE
        id     == op.gt.nodes[target].id
        ok     == Answers(op.gt, em) /\ CanReplicate(em, id)
    IN  /\ op.pc = "reattach" /\ em \in op.todo
        /\ node' = IF ok THEN [node EXCEPT ![em] = Replicating(em, id)] ELSE node
        /\ op' = IF ok THEN Idle ELSE Next1(em, AfterStep4(op.gt))
        /\ UNCHANGED <<orphaned, wipeSince, phase, budget>>

\* The fall-through: updateClusterStatus gathers again.
GatherForStatus ==
    /\ op.pc = "status"
    /\ op' = At("report", Gathered({}), {})
    /\ UNCHANGED <<node, orphaned, wipeSince, phase, budget>>

UpdateStatus ==
    /\ op.pc = "report"
    /\ phase' = PhaseFor(op.gt) /\ op' = Idle
    /\ UNCHANGED <<node, orphaned, wipeSince, budget>>

----------------------------------------------------------------------------
(* bootstrapCluster.                                                       *)

\* Uncached reads of every pod, then one MEET round from shard 0's master.
\* A pod that is missing or does not answer ends the pass.
BootstrapMeet ==
    /\ op.pc = "bootstrap"
    /\ LET gt   == Gathered({})
           seed == shardMasterPodName(0)
       IN  IF Reachable(gt) = Pods
           THEN node' = Met(seed, Pods \ {seed}) /\ op' = At("bootslots", gt, Shards)
           ELSE op' = Idle /\ UNCHANGED node
    /\ UNCHANGED <<orphaned, wipeSince, phase, budget>>

\* Shard k's range to its ordinal-0 pod, unless that node owns slots already.
BootstrapSlots(k) ==
    LET p  == shardMasterPodName(k)
        S  == ExpandSlotRange(GenerateSlotRanges[k])
    IN  /\ op.pc = "bootslots" /\ k \in op.todo /\ \A j \in op.todo : k =< j
        /\ node' = IF Answers(op.gt, p) /\ Owned(p) = {} /\ CanAddSlots(p, S)
                   THEN [node EXCEPT ![p] = SlotsAdded(p, S)] ELSE node
        /\ op' = Next1(k, IF RPS = 0 THEN At("status", op.gt, {})
                          ELSE At("bootreplicas", op.gt, {p2 \in Pods : p2[2] # 0}))
        /\ UNCHANGED <<orphaned, wipeSince, phase, budget>>

\* Every other pod of shard k becomes a replica of that node.
BootstrapReplica(p) ==
    LET id == op.gt.nodes[shardMasterPodName(p[1])].id
    IN  /\ op.pc = "bootreplicas" /\ p \in op.todo /\ p \in FirstByName(op.todo)
        /\ node' = IF Answers(op.gt, p) /\ node[p].master # id /\ CanReplicate(p, id)
                   THEN [node EXCEPT ![p] = Replicating(p, id)] ELSE node
        /\ op' = Next1(p, At("status", op.gt, {}))
        /\ UNCHANGED <<orphaned, wipeSince, phase, budget>>

----------------------------------------------------------------------------

Init ==
    /\ \E s \in Scenarios : node = s.node /\ budget = s.budget
    /\ orphaned = [p \in Pods |-> "no"]
    /\ wipeSince = "none"
    /\ phase = "Pending"
    /\ op = Idle

Redis ==
    \/ Gossip
    \/ \E p \in Pods : Elected(p) \/ Sync(p) \/ \E s \in Slots : ClientWrite(p, s)

Kubernetes ==
    \E p \in Pods :
        \/ Recreate(p) \/ StartAfterYield(p) \/ YieldTakeover(p) \/ ReadyAgain(p)

Faults == \E p \in budget.frail : Crash(p) \/ Lose(p) \/ Flap(p)

Operator ==
    \/ WaitForPods \/ RecycleFails \/ StartPass \/ Gather
    \/ \E p \in Pods : Takeover(p)
    \/ TrackOrphans \/ HealPartitions \/ ForgetGhosts
    \/ \E k \in Shards : AssignShard(k)
    \/ \E m \in op.todo : MoveShard(m)
    \/ \E em \in Pods : Reattach(em)
    \/ GatherForStatus
    \/ BootstrapMeet
    \/ \E k \in Shards : BootstrapSlots(k)
    \/ \E p \in Pods : BootstrapReplica(p)

Next ==
    \/ Plan \/ UpdateStatus
    \/ op.pc \notin {"plan", "report"} /\ (Redis \/ Kubernetes \/ Faults \/ Tick \/ Operator)

Spec == Init /\ [][Next]_vars

\* The operator requeues for ever and its requeue intervals let time pass; the
\* kubelet and the StatefulSet controller keep working, and so do gossip and
\* replication.  A replica holds an election in the end only where the scenario
\* says so: Redis forbids it to one whose link was down for too long, which is
\* what the forced promotion is for.
Fairness ==
    /\ WF_vars(Plan) /\ WF_vars(UpdateStatus) /\ WF_vars(Operator)
    /\ SF_vars(Tick) /\ []<>Settled
    /\ WF_vars(Kubernetes) /\ WF_vars(\E p \in Pods : Sync(p))
    /\ WF_vars(budget.elects /\ \E p \in Pods : Elected(p))

FairSpec == Spec /\ Fairness

----------------------------------------------------------------------------
(* Properties.                                                             *)

\* The last copy of a slot's data dies only with the process that holds it:
\* no takeover, MEET, FORGET, ADDSLOTS or REPLICATE of a pass makes its holder
\* resynchronise from a node that lacks it, and a pod that
\* planClusterWipeRecovery recycles holds none.
LastCopyDiesWithItsProcess ==
    [][/\ \A s \in Slots : Holders(s) # {} /\ Holders(s)' = {} =>
             \E p \in Holders(s) : ~Up(p)'
       /\ WaitForPods => \A p \in Pods : node[p].data # {} => node'[p].proc # "gone"]_vars

\* Step 3 hands a range to an empty pod only when no running pod holds any of
\* its data.
AssignsOnlyLostRanges ==
    [][\A k \in Shards : AssignShard(k) /\ node' # node =>
          \A s \in ExpandSlotRange(GenerateSlotRanges[k]) : Holders(s) = {}]_vars

\* A forced promotion replaces a master that is really gone.
TakeoverReplacesDeadMaster ==
    [][\A p \in Pods : Takeover(p) /\ node' # node => ~Alive(node[p].master)]_vars

\* What updateClusterStatus calls healthy is a cluster where every shard's
\* range has exactly one owner, and each replica's master lives in the
\* replica's own shard StatefulSet.
HealthyIsServed ==
    op.pc \in {"plan", "report"} /\ IsHealthy(op.gt) =>
        /\ \A k \in Shards : \E p \in Nodes(op.gt) : op.gt.nodes[p].runs = {GenerateSlotRanges[k]}
        /\ Colocated(op.gt)

\* Once faults stop, the operator brings the cluster back to Running for good,
\* every pod up and every slot served by a live owner.
Converges == <>[](phase = "Running" /\ \A p \in Pods : Up(p) /\ \A s \in Slots : Alive(node[p].smap[s].id))
=============================================================================
