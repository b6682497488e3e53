--------------------------- MODULE FailoverPlan ---------------------------
(***************************************************************************)
(* The pure decision functions of failover mode: what the operator reads   *)
(* out of a pod list (failover_intent.go), when it declares the master     *)
(* dead and whom it makes master (failover_plan.go), and how it compares   *)
(* the data of the survivors (replication_state.go).  They do no I/O in    *)
(* the code and have no state here; Failover.tla runs them inside a pass.  *)
(*                                                                         *)
(* A pod is named by its StatefulSet ordinal, so the code's name order is  *)
(* the order of the naturals.  An address is <<ordinal, incarnation>>: a   *)
(* replaced pod keeps its name and gets another address.                   *)
(*                                                                         *)
(* snap is a pod list, [pod -> PodObject].  nodes is a gather, [pod ->     *)
(* observation], where .probed says that the pod was in the probe map.     *)
(***************************************************************************)
EXTENDS Integers, FiniteSets

NoPod == -1
NoIP  == <<0, 0>>

----------------------------------------------------------------------------
(* The intent: what the assignment annotations say.                        *)

Listed(snap)   == {p \in DOMAIN snap : snap[p].exists}
Assigned(snap) == {p \in Listed(snap) : snap[p].role # "none"}
Masters(snap)  == {p \in Assigned(snap) : snap[p].role = "master"}

MaxMasterEpoch(snap, e) ==                                         \* mutant
    /\ \A p \in Masters(snap) : snap[p].epoch =< e
    /\ e = 0 \/ \E p \in Masters(snap) : snap[p].epoch = e

\* e is intent.maxEpoch: it spans every assignment, replicas and terminating
\* pods included.
IsMaxEpoch(snap, e) ==
    /\ \A p \in Assigned(snap) : snap[p].epoch =< e
    /\ e = 0 \/ \E p \in Assigned(snap) : snap[p].epoch = e

\* m is intent.masterName: the master assignment of highest epoch, the
\* smallest name among equals, NoPod when no pod is assigned master.
IsIntendedMaster(snap, m) ==
    \/ m = NoPod /\ Masters(snap) = {}
    \/ /\ m \in Masters(snap)
       /\ \A q \in Masters(snap) \ {m} :
             \/ snap[q].epoch < snap[m].epoch
             \/ snap[q].epoch = snap[m].epoch /\ m < q

IntendedIP(snap, m) == IF m = NoPod THEN NoIP ELSE snap[m].ip

\* state.RedisNodes[intent.masterIP] exists and is reachable.
MasterReachable(nodes, m) == m # NoPod /\ nodes[m].probed /\ nodes[m].reachable

\* determineFailoverLiveMaster: the INTENDED master, once observed mastering.
LiveMaster(nodes, m) ==
    IF MasterReachable(nodes, m) /\ nodes[m].role = "master" THEN nodes[m].ip ELSE NoIP

\* needsPromotion: a reachable pod that does not run as a master.
NeedsPromotion(nodes, m) == MasterReachable(nodes, m) /\ nodes[m].role # "master"

failoverTransitionSettled(snap, nodes, m) ==
    m = NoPod \/ (LiveMaster(nodes, m) # NoIP /\ snap[m].label = "master")

NotSettled(snap, nodes, m) == ~failoverTransitionSettled(snap, nodes, m) \* mutant
failoverPromotionUnsettled(snap, nodes, m) ==
    MasterReachable(nodes, m) /\ ~failoverTransitionSettled(snap, nodes, m)

----------------------------------------------------------------------------
(* Failure detection.                                                      *)

\* The link states of the reachable replicas that follow the master.
ReplicaLinks(nodes, masterIP) ==
    {nodes[p].link : p \in {q \in DOMAIN nodes :
        /\ nodes[q].probed /\ nodes[q].reachable
        /\ nodes[q].ip # masterIP /\ nodes[q].mhost = masterIP}}

\* down is the masterDownSince marker: "none", "open" (set, downAfter not yet
\* over) or "elapsed".  links is the set of the replicas' link states.
planMasterDeath(view, reachable, links, down) ==
    IF ~view.exists \/ ~view.ready \/ view.terminating THEN "declareK8s"
    ELSE IF reachable THEN "clearMarker"
    ELSE CASE down = "none"    -> "startWindow"
           [] down = "open"    -> "wait"
           [] down = "elapsed" -> IF links = {"down"} THEN "declareProbe" ELSE "hold"

----------------------------------------------------------------------------
(* Who holds data, and who holds the most of it.                           *)

NoneAuthFailed(nodes)       == {}                                  \* mutant
AuthFailedRedisNodes(nodes) == {p \in DOMAIN nodes : nodes[p].probed /\ nodes[p].authFailed}

DataHolders(nodes) ==
    {p \in DOMAIN nodes : nodes[p].probed /\ nodes[p].reachable /\ nodes[p].keys > 0}

\* The replication ids of a node that are not the all-zero id.
Replids(node) == {node.replid, node.replid2} \ {0}

\* More than one independent lineage: the holders split into two non-empty
\* groups that share no replication id.  (HolderElection.tla checks the code's
\* union-find against this.)
holdersDiverged(nodes) ==
    \E S \in SUBSET DataHolders(nodes) :
        /\ S # {} /\ S # DataHolders(nodes)
        /\ \A a \in S, b \in DataHolders(nodes) \ S :
              Replids(nodes[a]) \cap Replids(nodes[b]) = {}

NeverForked(nodes) == FALSE                                        \* mutant
holdersForked(nodes) ==
    \E a, b \in DataHolders(nodes) :
        a # b /\ nodes[a].role = "master" /\ nodes[b].role = "master"

LeastData(nodes) ==                                                \* mutant
    {b \in DOMAIN nodes : nodes[b].reachable /\ \A h \in DOMAIN nodes :
        nodes[h].reachable => nodes[b].offset =< nodes[h].offset}

\* Highest offset, then most keys; the order of the address strings among
\* equals is the CNI's, so any of them.
BestDataHolders(nodes) ==
    {b \in DataHolders(nodes) : \A h \in DataHolders(nodes) :
        \/ nodes[h].offset < nodes[b].offset
        \/ nodes[h].offset = nodes[b].offset /\ nodes[h].keys =< nodes[b].keys}

----------------------------------------------------------------------------
(* The failover decision.                                                  *)

\* pickBootstrapMasterIP: redis-0 if it is in the probe map, else the smallest.
BootstrapCandidates(nodes) ==
    {p \in DOMAIN nodes : nodes[p].probed
        /\ \A q \in DOMAIN nodes : nodes[q].probed => p =< q}

Plan(action, target) == [action |-> action, target |-> target]

\* The decisions planFailover may return: one, but for ties in BestDataHolder.
\* cooling: the post-transition cooldown is running.
planFailover(nodes, live, allowUnsafe, unsettled, cooling) ==
    IF live # NoIP THEN {Plan("none", NoPod)}
    ELSE IF unsettled \/ cooling THEN {Plan("wait", NoPod)}
    ELSE IF AuthFailedRedisNodes(nodes) # {} THEN {Plan("refuseUnverified", NoPod)}
    ELSE IF DataHolders(nodes) = {} THEN
        IF BootstrapCandidates(nodes) = {} THEN {Plan("wait", NoPod)}
        ELSE {Plan("seed", p) : p \in BootstrapCandidates(nodes)}
    ELSE IF ~(holdersDiverged(nodes) \/ holdersForked(nodes)) THEN
        {Plan("promote", b) : b \in BestDataHolders(nodes)}
    ELSE IF allowUnsafe THEN {Plan("unsafeElect", b) : b \in BestDataHolders(nodes)}
    ELSE {Plan("refuse", NoPod)}

masterStartAuthorizedFor(action) == action = "seed"

FenceNewMaster(snap, outgoing, new) == new                         \* mutant

\* planFailoverFence: the outgoing master's address if a listed pod still has
\* it (terminating pods count) and it is not the new master's.
planFailoverFence(snap, outgoing, new) ==
    IF outgoing \notin {NoIP, new} /\ \E p \in Listed(snap) : snap[p].ip = outgoing
    THEN outgoing ELSE NoIP

----------------------------------------------------------------------------
(* Healing under a live master.                                            *)

RepointEveryMaster(nodes, live) ==                                 \* mutant
    {p \in DOMAIN nodes : nodes[p].probed /\ nodes[p].reachable
                          /\ (nodes[p].role = "master" \/ nodes[p].mhost # live)}

planFailoverRepoints(nodes, live) ==
    {p \in DOMAIN nodes : /\ nodes[p].probed /\ nodes[p].reachable
                          /\ nodes[p].ip # live
                          /\ nodes[p].role = "master" \/ nodes[p].mhost # live}

Reauthorizable(snap, m, live) ==
    {p \in Listed(snap) : snap[p].ip \notin {NoIP, live} /\ ~snap[p].terminating /\ p # m}

\* Pods stamped at the current epoch: nothing was consumed.
NoFreshPods(snap, m, live) == {}                                   \* mutant
FreshPods(snap, m, live) == Reauthorizable(snap, m, live) \ Assigned(snap)

EveryRestartedPod(snap, nodes, m, live) ==                         \* mutant
    {p \in Reauthorizable(snap, m, live) \cap Assigned(snap) : snap[p].restarted}

\* Pods stamped at a bumped epoch: redis restarted, not Ready, not reachable.
ParkedPods(snap, nodes, m, live) ==
    {p \in Reauthorizable(snap, m, live) \cap Assigned(snap) :
        /\ ~snap[p].ready /\ snap[p].restarted
        /\ ~(nodes[p].probed /\ nodes[p].reachable)}
============================================================================
