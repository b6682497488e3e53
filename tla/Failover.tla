----------------------------- MODULE Failover -----------------------------
(***************************************************************************)
(* Failover mode: the operator is the only authority over who is master.   *)
(* It writes its intent as assignment annotations on the pods; a pod's     *)
(* startup script waits for an assignment it may honour (the start gate)   *)
(* and then becomes redis-server; a reconcile pass lists the pods, probes  *)
(* them, decides, and acts, one API call or Redis command at a time.       *)
(*                                                                         *)
(* Between any two of those steps a container may be killed, a pod deleted *)
(* and replaced under the same name, the kubelet's copies of status and    *)
(* annotations may lag, clients write, replicas sync, and the operator may *)
(* crash and lose everything it holds in memory.                           *)
(*                                                                         *)
(*   pod    the API server's pod objects: status and annotations           *)
(*   ctr    the redis container: start marker, projected annotations       *)
(*   redis  the redis-server process                                       *)
(*   net    how the operator's dial to a pod fares                         *)
(*   cr     status of the custom resource                                  *)
(*   op     what a reconcile pass holds in memory                          *)
(*   budget how many more faults and client writes may happen              *)
(***************************************************************************)
EXTENDS FailoverPlan

CONSTANTS
    Replicas,        \* spec.failover.replicas
    AllowUnsafe,     \* spec.failover.allowUnsafeRebootstrapOnDeadlock
    Scenarios,       \* where behaviours start, and what may happen in them
    MaxEpoch,        \* bound on assignment epochs
    MaxWrites        \* bound on client writes

\* The operator's dial is lost; the server refuses its credential; the pod is
\* cut off from the operator and from the other pods.
DialFaults == {"timeout", "auth", "isolated"}

\* What a scenario bounds: client writes, container deaths, pod deletions,
\* operator crashes, failing API calls and Redis commands, passes whose list and
\* probes are steps of their own, and each kind of dial fault.
Events  == {"writes", "kills", "deletes", "crashes", "errors", "torn"} \cup DialFaults
Budgets == {b \in [Events -> Nat] : b["writes"] =< MaxWrites}

\* A new resource; a bootstrapped instance; one that has failed over after a
\* kill; one that has failed over because the master was cut off, and still is;
\* one where that happened twice.
StartingPoints == {"new", "settled", "failedOver", "partitioned", "forked"}

ASSUME ReplicasAssumption  == Replicas \in Nat \ {0}
ASSUME SwitchAssumption    == AllowUnsafe \in BOOLEAN
ASSUME BoundsAssumption    == MaxEpoch \in Nat /\ MaxWrites \in Nat
ASSUME ScenariosAssumption ==
    \A sc \in Scenarios : /\ sc.start \in StartingPoints /\ sc.budget \in Budgets
                          /\ sc.start = "forked" => Replicas > 1

VARIABLES pod, ctr, redis, net, cr, op, budget
vars == <<pod, ctr, redis, net, cr, op, budget>>

Pods == 0 .. Replicas

----------------------------------------------------------------------------
(* State.                                                                  *)

NoAssignment == [role |-> "none", mip |-> NoIP, epoch |-> 0, auth |-> 0]

\* A pod object as the StatefulSet creates it.
PendingPod ==
    [exists |-> TRUE, ip |-> NoIP, terminating |-> FALSE, ready |-> FALSE, restarted |-> FALSE,
     role |-> "none", mip |-> NoIP, epoch |-> 0, auth |-> 0, label |-> "none"]
AbsentPod == [PendingPod EXCEPT !.exists = FALSE]

AssignmentOf(o) == [role |-> o.role, mip |-> o.mip, epoch |-> o.epoch, auth |-> o.auth]

\* marker: the epoch the last redis-server of this pod started under (0: no
\* marker).  file: the annotations as the kubelet last projected them.
\* deathAuth is history: the start authorization the pod carried when its
\* container last died.
NewContainer(i) == [inc |-> i, marker |-> 0, restarted |-> FALSE, file |-> NoAssignment, deathAuth |-> 0]

\* A process that is not running holds nothing: storage is memory.
Down == [up |-> FALSE, role |-> "none", mhost |-> NoIP, link |-> "down",
         data |-> {}, replid |-> 0, replid2 |-> 0, fenced |-> FALSE]

NotProbed ==
    [probed |-> FALSE, ip |-> NoIP, reachable |-> FALSE, authFailed |-> FALSE, role |-> "none",
     mhost |-> NoIP, link |-> "down", keys |-> 0, offset |-> 0, replid |-> 0, replid2 |-> 0]

IdleOp ==
    [pc |-> "idle", snap |-> [p \in Pods |-> AbsentPod], nodes |-> [p \in Pods |-> NotProbed],
     toProbe |-> {}, action |-> "none", todo |-> {}, fresh |-> {}, stragglers |-> {},
     target |-> NoPod, tip |-> NoIP, epoch |-> 0, promote |-> FALSE, fence |-> NoIP,
     masterPod |-> NoPod]

\* A new resource: the StatefulSet has created its pods, nothing is assigned,
\* and the pass that made the StatefulSet did not come as far as the phase.
NewInstance ==
    /\ pod = [p \in Pods |-> PendingPod]
    /\ ctr = [p \in Pods |-> NewContainer(0)]
    /\ redis = [p \in Pods |-> Down]
    /\ net = [p \in Pods |-> "ok"]
    /\ cr = [bootstrapRequired |-> TRUE, phase |-> FALSE, down |-> "none", cooling |-> FALSE,
             refused |-> FALSE]

\* The pods and the containers of an instance that has carried out the
\* assignments a, with the markers k.
PodsUnder(a, k) ==
    [p \in Pods |->
        [exists |-> TRUE, ip |-> <<p, 1>>, terminating |-> FALSE, ready |-> TRUE,
         restarted |-> k[p] > 1, role |-> a[p].role, mip |-> a[p].mip, epoch |-> a[p].epoch,
         auth |-> a[p].auth, label |-> a[p].role]]
ContainersUnder(a, k) ==
    [p \in Pods |->
        [inc |-> 1, marker |-> k[p], restarted |-> k[p] > 1, file |-> a[p],
         deathAuth |-> IF k[p] > 1 THEN a[p].auth ELSE 0]]

\* An instance that has converged on master m, but for the pods in apart, which
\* still are masters: d is the data, ids the two replication ids of a pod.
Converged(m, apart, a, k, d, ids(_)) ==
    /\ pod = PodsUnder(a, k)
    /\ ctr = ContainersUnder(a, k)
    /\ redis = [p \in Pods |->
           [up |-> TRUE, role |-> IF p \in apart \cup {m} THEN "master" ELSE "slave",
            mhost |-> IF p \in apart \cup {m} THEN NoIP ELSE <<m, 1>>,
            link |-> IF p \in apart \cup {m} THEN "down" ELSE "up",
            data |-> d, replid |-> ids(p)[1], replid2 |-> ids(p)[2], fenced |-> FALSE]]
    /\ net = [p \in Pods |-> IF p \in apart THEN "isolated" ELSE "ok"]
    /\ cr = [bootstrapRequired |-> FALSE, phase |-> TRUE, down |-> "none", cooling |-> FALSE,
             refused |-> FALSE]

Assign(role, mip, epoch, auth) == [role |-> role, mip |-> mip, epoch |-> epoch, auth |-> auth]

\* What bootstrap leads to: redis-0 is master at epoch 1, everyone follows it.
SettledInstance ==
    Converged(0, {}, [p \in Pods |-> IF p = 0 THEN Assign("master", NoIP, 1, 1)
                                 ELSE Assign("replica", <<0, 1>>, 1, 0)],
              [p \in Pods |-> 1], {}, LAMBDA p : <<1, 0>>)

\* What a kill of redis-0 then leads to: redis-1 was promoted in place at epoch
\* 2, so its marker is still 1; redis-0 came back under a re-authorization at
\* epoch 3.  One write (MaxWrites + 1) was made before.
FailedOverInstance ==
    Converged(1, {}, [p \in Pods |-> CASE p = 0 -> Assign("replica", <<1, 1>>, 3, 1)
                                   [] p = 1 -> Assign("master", NoIP, 2, 0)
                                   [] OTHER -> Assign("replica", <<1, 1>>, 2, 0)],
              [p \in Pods |-> IF p = 0 THEN 3 ELSE 1], {MaxWrites + 1},
              LAMBDA p : IF p = 0 THEN <<2, 0>> ELSE <<2, 1>>)

\* What partitions around redis-0 .. m-1, one after the other, lead to: redis-m
\* was promoted in place at epoch m+1; the others, out of reach of the fence,
\* still are masters, each of its own branch of one lineage.
PartitionedInstance(m) ==
    Converged(m, 0 .. m - 1,
              [p \in Pods |-> IF p = m THEN Assign("master", NoIP, m + 1, 0)
                              ELSE Assign("replica", <<m, 1>>, m + 1, IF p = 0 THEN 1 ELSE 0)],
              [p \in Pods |-> 1], {MaxWrites + 1},
              LAMBDA p : IF p < m THEN <<p + 1, p>> ELSE <<m + 1, m>>)

StartAt(start) ==
    CASE start = "new"         -> NewInstance
      [] start = "settled"     -> SettledInstance
      [] start = "failedOver"  -> FailedOverInstance
      [] start = "partitioned" -> PartitionedInstance(1)
      [] start = "forked"      -> PartitionedInstance(2)

Init ==
    /\ op = IdleOp
    /\ \E sc \in Scenarios : StartAt(sc.start) /\ budget = sc.budget

Spend(what) == budget[what] > 0 /\ budget' = [budget EXCEPT ![what] = @ - 1]

----------------------------------------------------------------------------
(* redis-server.                                                           *)

\* The process that answers at address i, if one is up.
At(i) == {p \in Pods : pod[p].exists /\ pod[p].ip = i /\ i # NoIP /\ redis[p].up}

\* A new replication id: one no process and no gathered observation carries.
IdsInUse == UNION {Replids(redis[p]) \cup Replids(op.nodes[p]) : p \in Pods}
FreshReplid == CHOOSE r \in 1 .. 4 * (Replicas + 1) + 1 : r \notin IdsInUse

\* REPLICAOF NO ONE: the old id becomes the second one.
Promoted(r) ==
    IF r.role = "master" THEN r
    ELSE [r EXCEPT !.role = "master", !.mhost = NoIP, !.link = "down",
                   !.replid2 = r.replid, !.replid = FreshReplid]

\* REPLICAOF i: the data stays until the first sync.
Following(r, i) ==
    IF r.role = "slave" /\ r.mhost = i THEN r
    ELSE [r EXCEPT !.role = "slave", !.mhost = i, !.link = "down"]

\* p can replicate from q: there is a network between them, and q is a master
\* or a replica with a live link.
Serves(q, p) ==
    /\ q # p /\ net[q] # "isolated" /\ net[p] # "isolated"
    /\ redis[q].role = "master" \/ redis[q].link = "up"

\* The replica copies its source's data; a full sync clears the second id, a
\* partial one takes the source's.
Sync(p) ==
    /\ redis[p].up /\ redis[p].role = "slave"
    /\ \E q \in At(redis[p].mhost) : \E second \in {0, redis[q].replid2} :
        LET r == [redis[p] EXCEPT !.link = "up", !.data = redis[q].data,
                                  !.replid = redis[q].replid, !.replid2 = second]
        IN  /\ Serves(q, p)
            /\ redis[p].link = "down" \/ redis[p].data # redis[q].data
                                      \/ redis[p].replid # redis[q].replid
            /\ redis' = [redis EXCEPT ![p] = r]
    /\ UNCHANGED <<pod, ctr, net, cr, op, budget>>

LinkLost(p) ==
    /\ redis[p].up /\ redis[p].role = "slave" /\ redis[p].link = "up"
    /\ \A q \in At(redis[p].mhost) : ~Serves(q, p)
    /\ redis' = [redis EXCEPT ![p].link = "down"]
    /\ UNCHANGED <<pod, ctr, net, cr, op, budget>>

\* A client, through the master Service or a connection that outlived a label
\* flip, writes one more key to a process that is a master.
Write(p) ==
    /\ redis[p].up /\ redis[p].role = "master" /\ ~redis[p].fenced
    /\ Spend("writes")
    /\ redis' = [redis EXCEPT ![p].data = @ \cup {budget.writes}]
    /\ UNCHANGED <<pod, ctr, net, cr, op>>

----------------------------------------------------------------------------
(* The pod: kubelet, startup script, preStop hook, StatefulSet.            *)

AssignIP(p) ==
    /\ pod[p].exists /\ pod[p].ip = NoIP
    /\ pod' = [pod EXCEPT ![p].ip = <<p, ctr[p].inc + 1>>]
    /\ ctr' = [ctr EXCEPT ![p] = NewContainer(@.inc + 1)]
    /\ UNCHANGED <<redis, net, cr, op, budget>>

Project(p) ==
    /\ pod[p].exists /\ pod[p].ip # NoIP
    /\ ctr[p].file # AssignmentOf(pod[p])
    /\ ctr' = [ctr EXCEPT ![p].file = AssignmentOf(pod[p])]
    /\ UNCHANGED <<pod, redis, net, cr, op, budget>>

\* The readiness probe: a master, or a replica whose link is up.
Ready(p) == redis[p].up /\ (redis[p].role = "master" \/ redis[p].link = "up")

ReportStatus(p) ==
    /\ pod[p].exists /\ pod[p].ip # NoIP
    /\ pod[p].ready # Ready(p) \/ pod[p].restarted # ctr[p].restarted
    /\ pod' = [pod EXCEPT ![p].ready = Ready(p), ![p].restarted = ctr[p].restarted]
    /\ UNCHANGED <<ctr, redis, net, cr, op, budget>>

\* The start gate over the projected file f and the marker k.
EpochGateOnly(f, k) ==                                             \* mutant
    /\ f.role # "none" /\ f.epoch # 0
    /\ f.role = "replica" => f.mip # NoIP
    /\ k # 0 => f.epoch > k

MayStart(f, k) ==
    /\ f.role # "none" /\ f.epoch # 0
    /\ f.role = "replica" => f.mip # NoIP
    /\ k # 0 => f.epoch > k
    /\ f.role = "master" /\ k # 0 => f.auth > k

\* exec redis-server under the assignment f.
Exec(p, f) ==
    /\ MayStart(f, ctr[p].marker)
    /\ redis' = [redis EXCEPT ![p] =
           IF f.role = "master"
           THEN [Down EXCEPT !.up = TRUE, !.role = "master", !.replid = FreshReplid]
           ELSE [Down EXCEPT !.up = TRUE, !.role = "slave", !.mhost = f.mip]]

StartRedis(p) ==
    LET f == ctr[p].file IN
    /\ pod[p].exists /\ pod[p].ip # NoIP /\ ~redis[p].up
    /\ Exec(p, f)
    /\ ctr' = [ctr EXCEPT ![p].marker = f.epoch]
    /\ UNCHANGED <<pod, net, cr, op, budget>>

\* The script greps the file once per value: role, master IP, epoch, start
\* authorization.  The kubelet may replace the file between two of those reads.
TornReads(old, new) ==
    {[new EXCEPT !.role = old.role],
     [new EXCEPT !.role = old.role, !.mip = old.mip],
     [old EXCEPT !.auth = new.auth]}

StartOnTornRead(p) ==
    LET new == AssignmentOf(pod[p]) IN
    /\ pod[p].exists /\ pod[p].ip # NoIP /\ ~redis[p].up
    /\ ctr[p].file # new
    /\ \E f \in TornReads(ctr[p].file, new) :
        /\ Exec(p, f)
        /\ ctr' = [ctr EXCEPT ![p].file = new, ![p].marker = f.epoch]
    /\ UNCHANGED <<pod, net, cr, op, budget>>

\* The container dies (kill -9, OOM) and the kubelet restarts it in place: same
\* pod, address, annotations and marker, no data.
KillContainer(p) ==
    /\ pod[p].exists /\ pod[p].ip # NoIP /\ ~pod[p].terminating
    /\ redis[p].up \/ ~ctr[p].restarted
    /\ Spend("kills")
    /\ redis' = [redis EXCEPT ![p] = Down]
    /\ ctr' = [ctr EXCEPT ![p].restarted = TRUE,
                          ![p].deathAuth = IF redis[p].up THEN pod[p].auth ELSE @]
    /\ UNCHANGED <<pod, net, cr, op>>

DeletePod(p) ==
    /\ pod[p].exists /\ pod[p].ip # NoIP /\ ~pod[p].terminating
    /\ Spend("deletes")
    /\ pod' = [pod EXCEPT ![p].terminating = TRUE]
    /\ UNCHANGED <<ctr, redis, net, cr, op>>

\* preStop: a master refuses further writes (CONFIG SET min-replicas-to-write).
PreStopFence(p) ==
    /\ pod[p].terminating /\ redis[p].up /\ redis[p].role = "master" /\ ~redis[p].fenced
    /\ redis' = [redis EXCEPT ![p].fenced = TRUE]
    /\ UNCHANGED <<pod, ctr, net, cr, op, budget>>

\* The hook returns (role moved on, or the wait budget is spent), or the pod is
\* force-deleted: container and object go.
PodGone(p) ==
    /\ pod[p].terminating
    /\ pod' = [pod EXCEPT ![p] = AbsentPod]
    /\ redis' = [redis EXCEPT ![p] = Down]
    /\ ctr' = [ctr EXCEPT ![p] = NewContainer(@.inc)]
    /\ net' = [net EXCEPT ![p] = "ok"]
    /\ UNCHANGED <<cr, op, budget>>

Recreate(p) ==
    /\ ~pod[p].exists
    /\ pod' = [pod EXCEPT ![p] = PendingPod]
    /\ UNCHANGED <<ctr, redis, net, cr, op, budget>>

Cut(p) ==
    /\ net[p] = "ok" /\ pod[p].exists /\ pod[p].ip # NoIP
    /\ \E k \in DialFaults : Spend(k) /\ net' = [net EXCEPT ![p] = k]
    /\ UNCHANGED <<pod, ctr, redis, cr, op>>

Heal(p) ==
    /\ net[p] # "ok"
    /\ net' = [net EXCEPT ![p] = "ok"]
    /\ UNCHANGED <<pod, ctr, redis, cr, op, budget>>

----------------------------------------------------------------------------
(* A reconcile pass.  op.pc says which call comes next.                    *)

\* Every stamped set gets an epoch above all that were ever stamped.
SameEpoch(e) == e                                                  \* mutant
NextEpoch(e) == e + 1

\* What the pass still holds when it leaves the engine for the label step.
ToLabel(m) == [IdleOp EXCEPT !.pc = "label", !.masterPod = m]
ToLabelNone == ToLabel(NoPod)

Stampable(o) == o.exists /\ o.ip # NoIP /\ ~o.terminating

\* Reconcile: a resource without a phase is taken for a new one.
InitBootstrapFlag ==
    /\ op.pc = "idle" /\ ~cr.phase /\ ~cr.bootstrapRequired
    /\ cr' = [cr EXCEPT !.bootstrapRequired = TRUE]
    /\ UNCHANGED <<pod, ctr, redis, net, op, budget>>

BootstrapAtEpochOne ==                                             \* mutant
    /\ op.pc = "idle" /\ cr.bootstrapRequired
    /\ pod[0].exists /\ pod[0].ip # NoIP
    /\ op' = [IdleOp EXCEPT !.pc = "stamp", !.action = "bootstrap",
                            !.todo = {p \in Pods : Stampable(pod[p])},
                            !.target = 0, !.tip = pod[0].ip, !.epoch = 1]
    /\ UNCHANGED <<pod, ctr, redis, net, cr, budget>>

\* bootstrapFailover up to its first write: redis-0 must exist and have an
\* address; every pod is to be assigned at one fresh epoch.
BootstrapFailover ==
    /\ op.pc = "idle" /\ cr.bootstrapRequired
    /\ pod[0].exists /\ pod[0].ip # NoIP
    /\ \E e \in 0 .. MaxEpoch :
        /\ IsMaxEpoch(pod, e)
        /\ op' = IF e = MaxEpoch THEN IdleOp    \* beyond the bound: not modelled
                 ELSE [IdleOp EXCEPT !.pc = "stamp", !.action = "bootstrap",
                                     !.todo = {p \in Pods : Stampable(pod[p])},
                                     !.target = 0, !.tip = pod[0].ip, !.epoch = NextEpoch(e)]
    /\ UNCHANGED <<pod, ctr, redis, net, cr, budget>>

\* redis-0 is not there yet: the pass goes on, without a master.
BootstrapWaits ==
    /\ op.pc = "idle" /\ cr.bootstrapRequired
    /\ ~pod[0].exists \/ pod[0].ip = NoIP
    /\ op' = ToLabelNone
    /\ UNCHANGED <<pod, ctr, redis, net, cr, budget>>

\* What one probe of address i, listed for pod p, returns now.
Observation(p, i) ==
    LET here == p \in At(i)
        r    == redis[p]
        none == [NotProbed EXCEPT !.probed = TRUE, !.ip = i]
    IN  IF here /\ net[p] = "ok"
        THEN [probed |-> TRUE, ip |-> i, reachable |-> TRUE, authFailed |-> FALSE,
              role |-> r.role, mhost |-> r.mhost, link |-> r.link,
              keys |-> Cardinality(r.data), offset |-> Cardinality(r.data),
              replid |-> r.replid, replid2 |-> r.replid2]
        ELSE [none EXCEPT !.authFailed = here /\ net[p] = "auth"]

\* The engine's decisions over a pod list s and a gather n.  m and e are the
\* intent's masterName and maxEpoch; the next pc is the decision's first call.

\* A write to the status; a failure is logged, no more.
StatusWrite(want) ==
    \/ cr' = want /\ UNCHANGED budget
    \/ want # cr /\ UNCHANGED cr /\ Spend("errors")

\* Step 4: the intent names a reachable pod that is not yet a master.
ResumeTransition(n, m) ==
    /\ NeedsPromotion(n, m)
    /\ op' = [IdleOp EXCEPT !.pc = "promote", !.action = "resume", !.tip = n[m].ip]
    /\ UNCHANGED <<cr, budget>>

MasterDeath(s, n, m) ==
    IF m = NoPod THEN "noIntent"
    ELSE planMasterDeath(s[m], MasterReachable(n, m), ReplicaLinks(n, s[m].ip), cr.down)

\* Step 5: the master is not declared dead, and not reachable either.
DetectionWindow(s, n, m) ==
    /\ ~NeedsPromotion(n, m)
    /\ MasterDeath(s, n, m) \in {"startWindow", "wait", "hold"}
    /\ StatusWrite([cr EXCEPT !.down = IF MasterDeath(s, n, m) = "startWindow" THEN "open" ELSE @])
    /\ op' = ToLabelNone

\* Step 6: no intended master, or a dead one.
Decision(s, n, m, plan) ==
    /\ ~NeedsPromotion(n, m)
    /\ MasterDeath(s, n, m) \in {"noIntent", "declareK8s", "declareProbe"}
    /\ plan \in planFailover(n, LiveMaster(n, m), AllowUnsafe,
                             failoverPromotionUnsettled(s, n, m), cr.cooling)

NoFailover(s, n, m) ==
    /\ \E plan \in [action : {"none", "wait"}, target : {NoPod}] : Decision(s, n, m, plan)
    /\ op' = IF LiveMaster(n, m) # NoIP THEN ToLabel(m) ELSE ToLabelNone
    /\ UNCHANGED <<cr, budget>>

RefuseFailover(s, n, m) ==
    /\ \E plan \in [action : {"refuse", "refuseUnverified"}, target : {NoPod}] :
           Decision(s, n, m, plan)
    /\ op' = ToLabelNone
    /\ StatusWrite([cr EXCEPT !.refused = TRUE])

ElectMaster(s, n, m, e) ==
    /\ \E plan \in [action : {"seed", "promote", "unsafeElect"}, target : Pods] :
        LET new == n[plan.target].ip IN
        /\ Decision(s, n, m, plan)
        /\ op' = [IdleOp EXCEPT
               !.pc = "stamp", !.action = plan.action,
               !.todo = {p \in Pods : Stampable(s[p])},
               !.target = plan.target, !.tip = new, !.epoch = NextEpoch(e),
               !.promote = plan.action # "seed" /\ NeedsPromotion(n, plan.target),
               !.fence = IF plan.action = "seed" THEN NoIP
                         ELSE planFailoverFence(s, IntendedIP(s, m), new)]
    /\ UNCHANGED <<cr, budget>>

\* Step 7: the intended master lives.  Stragglers are repointed; parked and new
\* pods are stamped once the label has followed.
HealStep(stragglers, stamps) ==
    IF stragglers # {} THEN "repoint" ELSE IF stamps # {} THEN "stamp" ELSE "label"

HealReplicas(s, n, m, e) ==
    LET live    == LiveMaster(n, m)
        settled == failoverTransitionSettled(s, n, m)
        fresh   == IF settled THEN FreshPods(s, m, live) ELSE {}
        parked  == IF settled THEN ParkedPods(s, n, m, live) ELSE {}
        stragglers == {n[p].ip : p \in planFailoverRepoints(n, live)}
    IN  /\ ~NeedsPromotion(n, m)
        /\ MasterDeath(s, n, m) = "clearMarker"
        /\ \/ StatusWrite([cr EXCEPT !.down = "none", !.refused = FALSE])
           \/ cr.refused /\ cr.down # "none" /\ Spend("errors")
              /\ cr' \in {[cr EXCEPT !.down = "none"], [cr EXCEPT !.refused = FALSE]}
        /\ op' = [IdleOp EXCEPT
               !.pc = HealStep(stragglers, fresh \cup parked), !.action = "reauth",
               !.stragglers = stragglers, !.todo = fresh \cup parked, !.fresh = fresh,
               !.tip = live, !.epoch = NextEpoch(e), !.masterPod = m]

\* A pass beyond the epoch bound is not modelled.
PassBeyondBound == op' = IdleOp /\ UNCHANGED <<cr, budget>>

Engine(s, n) ==
    \E m \in Pods \cup {NoPod}, e \in 0 .. MaxEpoch :
        /\ IsIntendedMaster(s, m) /\ IsMaxEpoch(s, e)
        /\ IF e = MaxEpoch THEN PassBeyondBound
           ELSE \/ ResumeTransition(n, m)
                \/ DetectionWindow(s, n, m)
                \/ NoFailover(s, n, m)
                \/ RefuseFailover(s, n, m)
                \/ ElectMaster(s, n, m, e)
                \/ HealReplicas(s, n, m, e)

\* A pass comes to the engine with the flag clear: on its own, or from a
\* bootstrap that has just cleared it.
AtEngine == ~cr.bootstrapRequired /\ (op.pc = "engine" \/ (op.pc = "idle" /\ cr.phase))

\* reconcileFailoverAssignments up to its decision: list the pods, probe those
\* that have an address and are not terminating, decide.
ReconcileAssignments ==
    /\ AtEngine
    /\ Engine(pod, [p \in Pods |->
           IF Stampable(pod[p]) THEN Observation(p, pod[p].ip) ELSE NotProbed])
    /\ UNCHANGED <<pod, ctr, redis, net>>

\* The same in its real grain: the list is old when the probes run, and each
\* probe reads its pod at a moment of its own.
ListPods ==
    /\ AtEngine
    /\ Spend("torn")
    /\ op' = [IdleOp EXCEPT !.pc = "gather", !.snap = pod,
                            !.toProbe = {p \in Pods : Stampable(pod[p])}]
    /\ UNCHANGED <<pod, ctr, redis, net, cr>>

Probe(p) ==
    /\ op.pc = "gather" /\ p \in op.toProbe
    /\ op' = [op EXCEPT !.toProbe = @ \ {p}, !.nodes[p] = Observation(p, op.snap[p].ip)]
    /\ UNCHANGED <<pod, ctr, redis, net, cr, budget>>

DecideOnGather ==
    /\ op.pc = "gather" /\ op.toProbe = {}
    /\ Engine(op.snap, op.nodes)
    /\ UNCHANGED <<pod, ctr, redis, net>>

\* The pod list fails: the pass goes on to the label step without a master.
ListFails ==
    /\ AtEngine
    /\ Spend("errors")
    /\ op' = ToLabelNone
    /\ UNCHANGED <<pod, ctr, redis, net, cr>>

----------------------------------------------------------------------------
(* The calls a decision makes.                                             *)

\* stampFailoverPod on the object that has the name now.
Stamped(p) ==
    LET o == pod[p] IN
    IF p = op.target
    THEN [o EXCEPT !.role = "master", !.mip = NoIP, !.epoch = op.epoch,
                   !.auth = IF op.action = "bootstrap" \/ masterStartAuthorizedFor(op.action)
                            THEN op.epoch ELSE @]
    ELSE [o EXCEPT !.role = "replica", !.mip = op.tip,
                   !.epoch = IF p \in op.fresh /\ op.epoch > 1 THEN op.epoch - 1 ELSE op.epoch]

AfterPromotion == [op EXCEPT !.pc = IF op.fence # NoIP THEN "fence" ELSE "mark", !.promote = FALSE]

AfterStamps(ok) ==
    CASE op.action = "reauth" -> ToLabel(op.masterPod)
      [] op.action = "bootstrap" -> IF ok THEN [op EXCEPT !.pc = "mark", !.todo = {}] ELSE IdleOp
      [] op.action = "seed" -> IF ok THEN [op EXCEPT !.pc = "mark", !.todo = {}] ELSE ToLabelNone
      [] OTHER -> IF ~ok THEN ToLabelNone
                  ELSE IF op.promote THEN [op EXCEPT !.pc = "promote", !.todo = {}]
                  ELSE [AfterPromotion EXCEPT !.todo = {}]

\* stampFailoverAssignments returns no error.
ErrorsIgnored(done) == TRUE                                        \* mutant
AllStamped(done)    == done = op.todo

\* The loop stamps pod after pod and goes on after an error; done is the set it
\* reached.  A pod that is gone, or a failing call, is an error.
StampAssignments ==
    /\ op.pc = "stamp"
    /\ \E done \in SUBSET {p \in op.todo : pod[p].exists} :
        /\ IF \E p \in op.todo \ done : pod[p].exists THEN Spend("errors") ELSE UNCHANGED budget
        /\ pod' = [p \in Pods |-> IF p \in done THEN Stamped(p) ELSE pod[p]]
        /\ op' = AfterStamps(AllStamped(done))
    /\ UNCHANGED <<ctr, redis, net, cr>>

Reachable(i) == {p \in At(i) : net[p] = "ok"}

\* promoteFailoverMaster.  A command that times out may have been carried out.
PromoteMaster ==
    /\ op.pc = "promote"
    /\ \E done \in SUBSET Reachable(op.tip), ok \in BOOLEAN :
        /\ ok => done = Reachable(op.tip) /\ done # {}
        /\ IF ~ok /\ Reachable(op.tip) # {} THEN Spend("errors") ELSE UNCHANGED budget
        /\ redis' = [p \in Pods |-> IF p \in done THEN Promoted(redis[p]) ELSE redis[p]]
        /\ op' = IF ok /\ op.action # "resume" THEN AfterPromotion ELSE ToLabelNone
    /\ UNCHANGED <<pod, ctr, net, cr>>

\* slaveOfBounded to each address of a set; errors are logged only.
Redirect(ips) ==
    LET reachable == UNION {Reachable(i) : i \in ips} IN
    \E done \in SUBSET reachable :
        /\ IF done # reachable THEN Spend("errors") ELSE UNCHANGED budget
        /\ redis' = [p \in Pods |-> IF p \in done THEN Following(redis[p], op.tip) ELSE redis[p]]

FenceOutgoingMaster ==
    /\ op.pc = "fence"
    /\ Redirect({op.fence})
    /\ op' = [op EXCEPT !.pc = "mark", !.fence = NoIP]
    /\ UNCHANGED <<pod, ctr, net, cr>>

RepointStragglers ==
    /\ op.pc = "repoint"
    /\ Redirect(op.stragglers)
    /\ op' = [op EXCEPT !.pc = HealStep({}, op.todo), !.stragglers = {}]
    /\ UNCHANGED <<pod, ctr, net, cr>>

MarkTransition ==
    /\ op.pc = "mark"
    /\ \/ /\ cr' = [cr EXCEPT !.cooling = TRUE, !.down = "none"]
          /\ op' = IF op.action = "bootstrap" THEN [IdleOp EXCEPT !.pc = "clearFlag"] ELSE ToLabelNone
          /\ UNCHANGED budget
       \/ /\ Spend("errors")
          /\ op' = IF op.action = "bootstrap" THEN IdleOp ELSE ToLabelNone
          /\ UNCHANGED cr
    /\ UNCHANGED <<pod, ctr, redis, net>>

ClearBootstrapFlag ==
    /\ op.pc = "clearFlag"
    /\ \/ /\ cr' = [cr EXCEPT !.bootstrapRequired = FALSE]
          /\ op' = [IdleOp EXCEPT !.pc = "engine"]
          /\ UNCHANGED budget
       \/ Spend("errors") /\ op' = IdleOp /\ UNCHANGED cr
    /\ UNCHANGED <<pod, ctr, redis, net>>

\* updateFailoverMasterLabel, from a list of its own; the loop ends at the
\* first failing update.
ExpectedLabel(p) ==
    IF op.masterPod # NoPod THEN IF p = op.masterPod THEN "master" ELSE "replica"
    ELSE IF pod[p].label = "master" THEN "replica" ELSE pod[p].label

UpdateLabels ==
    LET stale == IF \E p \in Pods : pod[p].exists /\ pod[p].terminating THEN {}
                 ELSE {p \in Pods : pod[p].exists /\ pod[p].label # ExpectedLabel(p)}
    IN  /\ op.pc = "label"
        /\ \E done \in SUBSET stale :
            /\ IF done # stale THEN Spend("errors") ELSE UNCHANGED budget
            /\ pod' = [p \in Pods |->
                   IF p \in done THEN [pod[p] EXCEPT !.label = ExpectedLabel(p)] ELSE pod[p]]
        /\ op' = IF cr.phase THEN IdleOp ELSE [IdleOp EXCEPT !.pc = "status"]
        /\ UNCHANGED <<ctr, redis, net, cr>>

\* updateFailoverStatus, the last call of a pass, writes the phase; of what is
\* modelled here it changes nothing else.  It, or a call since the label step,
\* may fail.
UpdateStatus ==
    /\ op.pc = "status"
    /\ \/ cr' = [cr EXCEPT !.phase = TRUE] /\ UNCHANGED budget
       \/ Spend("errors") /\ UNCHANGED cr
    /\ op' = IdleOp
    /\ UNCHANGED <<pod, ctr, redis, net>>

----------------------------------------------------------------------------
(* Time and operator crashes.                                              *)

WindowElapses ==
    /\ cr.down = "open"
    /\ cr' = [cr EXCEPT !.down = "elapsed"]
    /\ UNCHANGED <<pod, ctr, redis, net, op, budget>>

CooldownEnds ==
    /\ cr.cooling
    /\ cr' = [cr EXCEPT !.cooling = FALSE]
    /\ UNCHANGED <<pod, ctr, redis, net, op, budget>>

OperatorCrash ==
    /\ op.pc # "idle"
    /\ Spend("crashes")
    /\ op' = IdleOp
    /\ UNCHANGED <<pod, ctr, redis, net, cr>>

OperatorStep ==
    \/ InitBootstrapFlag \/ BootstrapFailover \/ BootstrapWaits \/ ReconcileAssignments
    \/ ListPods \/ (\E p \in Pods : Probe(p)) \/ DecideOnGather \/ ListFails
    \/ StampAssignments \/ PromoteMaster \/ FenceOutgoingMaster \/ RepointStragglers
    \/ MarkTransition \/ ClearBootstrapFlag \/ UpdateLabels \/ UpdateStatus

PodStep(p) ==
    \/ AssignIP(p) \/ Project(p) \/ ReportStatus(p) \/ StartRedis(p) \/ StartOnTornRead(p)
    \/ Recreate(p) \/ PodGone(p) \/ Sync(p) \/ LinkLost(p)

Environment(p) ==
    \/ Write(p) \/ KillContainer(p) \/ DeletePod(p) \/ PreStopFence(p) \/ Cut(p) \/ Heal(p)

Next ==
    \/ OperatorStep
    \/ \E p \in Pods : PodStep(p) \/ Environment(p)
    \/ WindowElapses \/ CooldownEnds \/ OperatorCrash

Spec == Init /\ [][Next]_vars

\* The work queue brings every pass to its end; the kubelet, the StatefulSet
\* controller and redis-server's own reconnect loop retry for ever.
Fairness ==
    /\ WF_vars(OperatorStep) /\ WF_vars(WindowElapses) /\ WF_vars(CooldownEnds)
    /\ \A p \in Pods :
        /\ WF_vars(AssignIP(p)) /\ WF_vars(Project(p)) /\ WF_vars(ReportStatus(p))
        /\ WF_vars(StartRedis(p)) /\ WF_vars(Recreate(p)) /\ WF_vars(PodGone(p))
        /\ WF_vars(Sync(p)) /\ WF_vars(LinkLost(p)) /\ WF_vars(Heal(p))

----------------------------------------------------------------------------
(* Properties.                                                             *)

IPs    == {NoIP} \cup (Pods \X (Nat \ {0}))
Roles  == {"none", "master", "replica"}
Assignments == [role : Roles, mip : IPs, epoch : Nat, auth : Nat]
PodObjects ==
    [exists : BOOLEAN, ip : IPs, terminating : BOOLEAN, ready : BOOLEAN, restarted : BOOLEAN,
     role : Roles, mip : IPs, epoch : Nat, auth : Nat, label : Roles]
Containers ==
    [inc : Nat, marker : Nat, restarted : BOOLEAN, file : Assignments, deathAuth : Nat]
Processes ==
    [up : BOOLEAN, role : {"none", "master", "slave"}, mhost : IPs, link : {"up", "down"},
     data : SUBSET (1 .. MaxWrites + 1), replid : Nat, replid2 : Nat, fenced : BOOLEAN]
Observations ==
    [probed : BOOLEAN, ip : IPs, reachable : BOOLEAN, authFailed : BOOLEAN,
     role : {"none", "master", "slave"}, mhost : IPs, link : {"up", "down"},
     keys : Nat, offset : Nat, replid : Nat, replid2 : Nat]
Statuses ==
    [bootstrapRequired : BOOLEAN, phase : BOOLEAN, down : {"none", "open", "elapsed"},
     cooling : BOOLEAN, refused : BOOLEAN]
Actions == {"none", "bootstrap", "resume", "seed", "promote", "unsafeElect", "reauth"}
Calls   == {"idle", "engine", "gather", "stamp", "promote", "fence", "repoint", "mark", "clearFlag",
            "label", "status"}
Passes ==
    [pc : Calls, snap : [Pods -> PodObjects], nodes : [Pods -> Observations],
     toProbe : SUBSET Pods, action : Actions, todo : SUBSET Pods, fresh : SUBSET Pods,
     stragglers : SUBSET IPs, target : Pods \cup {NoPod}, tip : IPs, epoch : Nat,
     promote : BOOLEAN, fence : IPs, masterPod : Pods \cup {NoPod}]

\* Every variable has the shape the Go types and the annotations give it; an
\* address is an address and a pod name a pod name, in all of the pass's fields.
TypeOK ==
    /\ pod \in [Pods -> PodObjects]
    /\ ctr \in [Pods -> Containers]
    /\ redis \in [Pods -> Processes]
    /\ net \in [Pods -> {"ok"} \cup DialFaults]
    /\ cr \in Statuses
    /\ op \in Passes
    /\ budget \in Budgets

\* resolveFailoverIntent breaks ties among equal epochs by name.  No tie ever
\* happens: two pods never carry a master assignment of one epoch, although a
\* terminating master is not restamped and a stamp may fail half way.
OneMasterPerEpoch ==
    \A p, q \in Pods :
        pod[p].role = "master" /\ pod[q].role = "master" /\ pod[p].epoch = pod[q].epoch => p = q

\* A pod waits in the start gate until its epoch exceeds its marker.  Whatever
\* set a pass is about to stamp, its epoch is above the marker of every pod that
\* may be parked, or that pod would wait for ever ("a bump can never collide with
\* a consumed epoch").
StampsReleaseParkedPods ==
    op.pc = "stamp" => \A p \in op.todo \ op.fresh : op.epoch > ctr[p].marker

\* The epoch a pod object carries never decreases while the object exists: no
\* pass, old list or retried bootstrap writes over a newer assignment.
EpochsNeverRegress ==
    [][\A p \in Pods : pod'[p].exists => pod'[p].epoch >= pod[p].epoch]_vars

\* Some other running pod that is not on its way out holds data.
DataElsewhere(p) ==
    \E q \in Pods \ {p} : redis[q].up /\ redis[q].data # {} /\ ~pod[q].terminating

\* The start gate's purpose (LR-038): a process never starts as an empty master
\* while another running pod holds data.
NoEmptyStart ==
    [][\A p \in Pods : ~redis[p].up /\ redis'[p].up /\ redis'[p].role = "master"
                        => ~DataElsewhere(p)]_vars

\* The election's purpose: REPLICAOF NO ONE never goes to a process that holds
\* nothing while another running pod holds data, neither in the pass that chose
\* it nor in a later one that resumes the transition.
NoEmptyPromotion ==
    [][\A p \in Pods : redis[p].role = "slave" /\ redis'[p].role = "master" /\ redis[p].data = {}
                        => ~DataElsewhere(p)]_vars

\* "Stamp the new intent first, then promote": when a replica becomes a master,
\* the pods' annotations already name it, so a crashed operator can resume.
PromotionFollowsIntent ==
    [][\A p \in Pods : redis[p].role = "slave" /\ redis'[p].role = "master"
                        => IsIntendedMaster(pod, p)]_vars

\* Neither the fence nor the repoint of stragglers ever demotes the pod that the
\* annotations name as master at that moment, unless that pod is terminating.
DemotionSparesIntent ==
    [][\A p \in Pods : redis[p].role = "master" /\ redis'[p].role = "slave"
                        => pod[p].terminating \/ ~IsIntendedMaster(pod, p)]_vars

\* "The losers resync from the winner with no independent writes lost": when a
\* pass elects without the opt-in, no pod it can reach holds a key that the
\* elected pod lacks.
PromoteDiscardsNothing ==
    [][op.pc # "stamp" /\ op'.pc = "stamp" /\ op'.action = "promote"
       => \A q \in Pods : redis[q].up /\ net[q] = "ok" /\ ~pod[q].terminating
             => redis[q].data \subseteq redis[op'.target].data]_vars

\* LR-057: while two pods in reach run as masters and hold data, a pass elects
\* nobody without the opt-in, however their replication ids are related.
NoElectionAcrossFork ==
    [][op.pc # "stamp" /\ op'.pc = "stamp" /\ op'.action \in {"promote", "seed"}
       => ~\E a, b \in Pods : /\ a # b /\ {redis[a].role, redis[b].role} = {"master"}
                              /\ redis[a].data # {} /\ redis[b].data # {}
                              /\ Stampable(pod[a]) /\ Stampable(pod[b])
                              /\ net[a] = "ok" /\ net[b] = "ok"]_vars

\* The start gate's comment: "Permission cannot predate the death it refers to".
\* A restarted process that starts as master has an authorization newer than any
\* it had when it last died.
AuthorizationPostdatesDeath ==
    [][\A p \in Pods : ~redis[p].up /\ redis'[p].up /\ redis'[p].role = "master"
                        /\ ctr[p].marker # 0
                        => ctr'[p].file.auth > ctr[p].deathAuth]_vars

\* masterStartAuthorizedFor's comment: a promotion "is always an in-place role
\* change on a running process [...] no start is involved".  A process that
\* starts as master carries a start authorization at least as new as the
\* assignment it starts under.
StartsAreAuthorized ==
    [][\A p \in Pods : ~redis[p].up /\ redis'[p].up /\ redis'[p].role = "master"
                        => ctr'[p].file.auth >= ctr'[p].marker]_vars

\* bootstrapFailover's comment: "bootstrap is by definition a fresh start with no
\* data anywhere".  A bootstrap never begins while a pod that clients were routed
\* to holds data.
BootstrapStartsEmpty ==
    [][op.pc = "idle" /\ op'.action = "bootstrap"
       => ~\E p \in Pods : pod[p].label = "master" /\ redis[p].data # {}]_vars

\* One pod is the intended, running and labelled master, and every other pod
\* replicates from it.
Stable ==
    \E m \in Pods :
        /\ IsIntendedMaster(pod, m) /\ redis[m].role = "master" /\ pod[m].label = "master"
        /\ \A p \in Pods \ {m} : /\ redis[p].role = "slave" /\ redis[p].mhost = pod[m].ip
                                 /\ redis[p].link = "up" /\ pod[p].label # "master"

\* Whatever faults hit the instance, once they stop it converges and stays so:
\* nobody is parked, masterless or mislabelled for ever.
Converges == <>[]Stable

----------------------------------------------------------------------------
(* The inductive invariant behind the epoch properties.                    *)

\* What a pod consumed was projected, what was projected was stamped, and an
\* unassigned pod carries no epoch.
EpochsFlowDown ==
    \A p \in Pods :
        /\ ctr[p].marker =< ctr[p].file.epoch /\ ctr[p].file.epoch =< pod[p].epoch
        /\ pod[p].role = "none" => pod[p].epoch = 0
        /\ ~pod[p].exists => pod[p].role = "none"

\* A pass that is going to stamp holds an epoch above every stamped one, and the
\* pod list of a pass that still gathers misses no assignment.
PassIsAhead ==
    /\ op.pc \in {"stamp", "repoint"} => \A p \in Pods : pod[p].epoch < op.epoch
    /\ op.pc = "gather" => \A p \in Pods : pod[p].role # "none" =>
           /\ op.snap[p].exists /\ op.snap[p].role # "none"
           /\ pod[p].epoch =< op.snap[p].epoch

\* TypeOK, the two facts above and OneMasterPerEpoch are preserved by every step
\* of the pods, the operator and the faults.
EpochInv == TypeOK /\ EpochsFlowDown /\ PassIsAhead /\ OneMasterPerEpoch
============================================================================
