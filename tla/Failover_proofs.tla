-------------------------- MODULE Failover_proofs --------------------------
(***************************************************************************)
(* Theorems about failover mode that hold for any number of replicas, any  *)
(* scenarios and bounds on faults: the types, that no two pods carry a     *)
(* master assignment of one epoch, that a stamp always releases the pods   *)
(* it is meant to release, and that epochs never go back.                  *)
(*                                                                         *)
(* The epoch properties rest on EpochInv: an epoch flows from the pod      *)
(* object to the projected file to the marker, and the epoch a pass holds  *)
(* is above all of them, however old its pod list is.                      *)
(* The second half is about whom the commands of a pass reach.  Steps and  *)
(* invariants come first, the theorems over whole behaviours at the end.   *)
(***************************************************************************)
EXTENDS Failover, TLAPS

\* The records the model starts from have their types.
LEMMA NoIPType == NoIP \in IPs
  BY DEF IPs

\* A pod without annotations.
LEMMA NoAssignmentType == NoAssignment \in Assignments
  BY NoIPType DEF NoAssignment, Assignments, Roles

\* A pod object as it is created.
LEMMA PendingPodType == PendingPod \in PodObjects
  BY NoIPType DEF PendingPod, PodObjects, Roles

\* A name without a pod object.
LEMMA AbsentPodType == AbsentPod \in PodObjects
  BY Zenon, NoIPType DEF AbsentPod, PendingPod, PodObjects, Roles

\* The container of a new pod.
LEMMA NewContainerType == ASSUME NEW i \in Nat PROVE NewContainer(i) \in Containers
  BY NoAssignmentType DEF NewContainer, Containers

\* A process that is not running.
LEMMA DownType == Down \in Processes
  BY NoIPType DEF Down, Processes

\* A pod that is not in the probe map.
LEMMA NotProbedType == NotProbed \in Observations
  BY NoIPType DEF NotProbed, Observations

\* No pass is under way.
LEMMA IdleOpType == IdleOp \in Passes
  BY NoIPType, AbsentPodType, NotProbedType DEF IdleOp, Passes, Calls, Actions

\* The kubelet's status update keeps a pod object's type.
LEMMA StatusUpdateType ==
  ASSUME NEW o \in PodObjects, NEW a \in BOOLEAN, NEW b \in BOOLEAN
  PROVE  [o EXCEPT !.ready = a, !.restarted = b] \in PodObjects
  BY Zenon DEF PodObjects

\* The steps of the kubelet, the StatefulSet controller and the network keep
\* the types.
LEMMA PodStepType ==
  ASSUME TypeOK, NEW p \in Pods
  PROVE  /\ AssignIP(p) => TypeOK'
         /\ Project(p) => TypeOK'
         /\ ReportStatus(p) => TypeOK'
         /\ Recreate(p) => TypeOK'
         /\ PodGone(p) => TypeOK'
         /\ LinkLost(p) => TypeOK'
         /\ Heal(p) => TypeOK'
<1>1. ASSUME AssignIP(p) PROVE TypeOK'
  <2>1. ctr[p].inc + 1 \in Nat \ {0}
    BY DEF TypeOK, Containers
  <2>2. NewContainer(ctr[p].inc + 1) \in Containers
    BY <2>1, NewContainerType
  <2>3. <<p, ctr[p].inc + 1>> \in IPs
    BY <2>1 DEF IPs
  <2>4. pod' \in [Pods -> PodObjects]
    <3>1. [pod[p] EXCEPT !.ip = <<p, ctr[p].inc + 1>>] \in PodObjects
      <4>1. pod[p] \in PodObjects
        BY DEF TypeOK
      <4> QED BY <2>3, <4>1 DEF PodObjects
    <3> QED BY Zenon, <1>1, <3>1 DEF TypeOK, AssignIP
  <2>5. ctr' \in [Pods -> Containers]
    BY <1>1, <2>2 DEF TypeOK, AssignIP
  <2> QED BY <1>1, <2>4, <2>5 DEF TypeOK, AssignIP
<1>2. ASSUME Project(p) PROVE TypeOK'
  <2>1. AssignmentOf(pod[p]) \in Assignments
    BY DEF TypeOK, PodObjects, AssignmentOf, Assignments
  <2>2. ctr' \in [Pods -> Containers]
    BY <1>2, <2>1 DEF TypeOK, Project, Containers
  <2> QED BY <1>2, <2>2 DEF TypeOK, Project
<1>3. ASSUME ReportStatus(p) PROVE TypeOK'
  <2>1. Ready(p) \in BOOLEAN
    BY DEF Ready
  <2>2. ctr[p].restarted \in BOOLEAN
    BY DEF TypeOK, Containers
  <2> DEFINE o == [pod[p] EXCEPT !.ready = Ready(p), !.restarted = ctr[p].restarted]
  <2>3. o \in PodObjects
    BY Zenon, <2>1, <2>2, StatusUpdateType DEF TypeOK
  <2>4. pod' = [pod EXCEPT ![p] = o]
    BY Zenon, <1>3 DEF TypeOK, ReportStatus
  <2>5. pod' \in [Pods -> PodObjects]
    BY <2>3, <2>4 DEF TypeOK
  <2> QED BY <1>3, <2>5 DEF TypeOK, ReportStatus
<1>4. ASSUME Recreate(p) PROVE TypeOK'
  BY <1>4, PendingPodType DEF TypeOK, Recreate
<1>5. ASSUME PodGone(p) PROVE TypeOK'
  <2>1. NewContainer(ctr[p].inc) \in Containers
    BY NewContainerType DEF TypeOK, Containers
  <2> QED BY <1>5, <2>1, AbsentPodType, DownType DEF TypeOK, PodGone
<1>6. ASSUME LinkLost(p) PROVE TypeOK'
  BY <1>6 DEF TypeOK, LinkLost, Processes
<1>7. ASSUME Heal(p) PROVE TypeOK'
  BY <1>7 DEF TypeOK, Heal
<1> QED BY <1>1, <1>2, <1>3, <1>4, <1>5, <1>6, <1>7

\* What takes the finiteness of the records: a replication id that is free,
\* and the number of keys that a probe reports.  It is assumed here, and shown
\* before the theorems.
Countable ==
    /\ FreshReplid \in Nat \ {0}
    /\ \A p \in Pods, i \in IPs : Observation(p, i) \in Observations

\* The steps of redis-server and its startup script keep the types.
LEMMA RedisStepType ==
  ASSUME TypeOK, Countable, NEW p \in Pods
  PROVE  /\ Sync(p) => TypeOK'
         /\ StartRedis(p) => TypeOK'
         /\ StartOnTornRead(p) => TypeOK'
<1>0. /\ pod[p] \in PodObjects /\ ctr[p] \in Containers /\ redis[p] \in Processes
      /\ redis \in [Pods -> Processes]
  BY DEF TypeOK
<1>1. ASSUME Sync(p) PROVE TypeOK'
  <2>1. PICK q \in Pods, second \in Nat :
           redis' = [redis EXCEPT ![p] = [redis[p] EXCEPT
              !.link = "up", !.data = redis[q].data, !.replid = redis[q].replid, !.replid2 = second]]
    <3>1. PICK q \in Pods : \E second \in {0, redis[q].replid2} :
             redis' = [redis EXCEPT ![p] = [redis[p] EXCEPT
                !.link = "up", !.data = redis[q].data, !.replid = redis[q].replid, !.replid2 = second]]
      BY Zenon, <1>1 DEF Sync, At
    <3>2. redis[q].replid2 \in Nat
      BY <1>0 DEF Processes
    <3> QED BY Zenon, <3>1, <3>2
  <2>2. redis[q] \in Processes
    BY <1>0
  <2>3. [redis[p] EXCEPT !.link = "up", !.data = redis[q].data, !.replid = redis[q].replid,
                         !.replid2 = second] \in Processes
    BY Zenon, <1>0, <2>2 DEF Processes
  <2>4. redis' \in [Pods -> Processes]
    BY <1>0, <2>1, <2>3
  <2> QED BY <1>1, <2>4 DEF TypeOK, Sync
<1>2. ASSUME NEW f \in Assignments, Exec(p, f) PROVE redis' \in [Pods -> Processes]
  <2>1. FreshReplid \in Nat
    BY DEF Countable
  <2>2. [Down EXCEPT !.up = TRUE, !.role = "master", !.replid = FreshReplid] \in Processes
    BY Zenon, <2>1, NoIPType DEF Down, Processes
  <2>3. [Down EXCEPT !.up = TRUE, !.role = "slave", !.mhost = f.mip] \in Processes
    BY Zenon, NoIPType DEF Down, Processes, Assignments
  <2> QED BY <1>0, <1>2, <2>2, <2>3 DEF Exec
<1>3. ASSUME StartRedis(p) PROVE TypeOK'
  <2>1. ctr[p].file \in Assignments
    BY <1>0 DEF Containers
  <2>2. redis' \in [Pods -> Processes]
    BY <1>2, <1>3, <2>1 DEF StartRedis
  <2>3. [ctr[p] EXCEPT !.marker = ctr[p].file.epoch] \in Containers
    BY <1>0, <2>1 DEF Containers, Assignments
  <2>4. ctr' \in [Pods -> Containers]
    BY <1>3, <2>3 DEF StartRedis, TypeOK
  <2> QED BY <1>3, <2>2, <2>4 DEF TypeOK, StartRedis
<1>4. ASSUME StartOnTornRead(p) PROVE TypeOK'
  <2> DEFINE new == AssignmentOf(pod[p])
  <2>1. ctr[p].file \in Assignments /\ new \in Assignments
    BY <1>0 DEF Containers, PodObjects, Assignments, AssignmentOf
  <2>2. PICK f \in TornReads(ctr[p].file, new) :
           Exec(p, f) /\ ctr' = [ctr EXCEPT ![p].file = new, ![p].marker = f.epoch]
    BY Zenon, <1>4 DEF StartOnTornRead
  <2>3. f \in Assignments
    BY Zenon, <2>1, <2>2 DEF TornReads, Assignments
  <2>4. redis' \in [Pods -> Processes]
    BY <1>2, <2>2, <2>3
  <2>5. [ctr[p] EXCEPT !.file = new, !.marker = f.epoch] \in Containers
    BY Zenon, <1>0, <2>1, <2>3 DEF Containers, Assignments
  <2>6. ctr' = [ctr EXCEPT ![p] = [ctr[p] EXCEPT !.file = new, !.marker = f.epoch]]
    BY Zenon, <2>2 DEF TypeOK
  <2>7. ctr' \in [Pods -> Containers]
    BY <2>5, <2>6 DEF TypeOK
  <2> QED BY <1>4, <2>4, <2>7 DEF TypeOK, StartOnTornRead
<1> QED BY <1>1, <1>3, <1>4

\* A fault or a client write that is paid for leaves the budget a budget.
LEMMA SpendType ==
  ASSUME TypeOK, NEW w \in {"writes", "kills", "deletes", "crashes", "errors", "torn",
                            "timeout", "auth", "isolated"},
         Spend(w)
  PROVE  budget' \in Budgets
  BY BoundsAssumption DEF TypeOK, Spend, Budgets, Events, DialFaults

\* Faults and client writes keep the types.
LEMMA EnvironmentType ==
  ASSUME TypeOK, NEW p \in Pods
  PROVE  /\ Write(p) => TypeOK'
         /\ KillContainer(p) => TypeOK'
         /\ DeletePod(p) => TypeOK'
         /\ PreStopFence(p) => TypeOK'
         /\ Cut(p) => TypeOK'
<1>0. /\ pod[p] \in PodObjects /\ ctr[p] \in Containers /\ redis[p] \in Processes
  BY DEF TypeOK
<1>1. ASSUME Write(p) PROVE TypeOK'
  <2>1. budget.writes \in 1 .. MaxWrites + 1
    BY <1>1, BoundsAssumption DEF TypeOK, Write, Spend, Budgets, Events, DialFaults
  <2>2. redis' \in [Pods -> Processes]
    BY <1>0, <1>1, <2>1 DEF Write, TypeOK, Processes
  <2> QED BY <1>1, <2>2, SpendType DEF Write, TypeOK
<1>2. ASSUME KillContainer(p) PROVE TypeOK'
  <2>1. budget' \in Budgets
    BY <1>2, SpendType DEF KillContainer
  <2>2. redis' \in [Pods -> Processes]
    BY <1>2, DownType DEF KillContainer, TypeOK
  <2> DEFINE d == IF redis[p].up THEN pod[p].auth ELSE ctr[p].deathAuth
  <2>3. d \in Nat
    BY <1>0 DEF PodObjects, Containers
  <2>4. [ctr[p] EXCEPT !.restarted = TRUE, !.deathAuth = d] \in Containers
    BY Zenon, <1>0, <2>3 DEF Containers
  <2>5. ctr' = [ctr EXCEPT ![p] = [ctr[p] EXCEPT !.restarted = TRUE, !.deathAuth = d]]
    BY Zenon, <1>2 DEF KillContainer, TypeOK
  <2>6. ctr' \in [Pods -> Containers]
    BY <2>4, <2>5 DEF TypeOK
  <2> QED BY <1>2, <2>1, <2>2, <2>6 DEF KillContainer, TypeOK
<1>3. ASSUME DeletePod(p) PROVE TypeOK'
  <2>1. pod' \in [Pods -> PodObjects]
    BY Zenon, <1>0, <1>3 DEF DeletePod, TypeOK, PodObjects
  <2> QED BY <1>3, <2>1, SpendType DEF DeletePod, TypeOK
<1>4. ASSUME PreStopFence(p) PROVE TypeOK'
  BY Zenon, <1>0, <1>4 DEF PreStopFence, TypeOK, Processes
<1>5. ASSUME Cut(p) PROVE TypeOK'
  <2>1. PICK k \in DialFaults : Spend(k) /\ net' = [net EXCEPT ![p] = k]
    BY Zenon, <1>5 DEF Cut
  <2>2. budget' \in Budgets
    BY <2>1, SpendType DEF DialFaults
  <2>3. net' \in [Pods -> {"ok"} \cup DialFaults]
    BY <2>1 DEF TypeOK
  <2> QED BY <1>5, <2>2, <2>3 DEF Cut, TypeOK
<1> QED BY <1>1, <1>2, <1>3, <1>4, <1>5

\* A pass that goes on to the label step.
LEMMA ToLabelType ==
  ASSUME NEW m \in Pods \cup {NoPod}
  PROVE  ToLabel(m) \in Passes
  BY Zenon, IdleOpType DEF ToLabel, Passes, Calls

\* A pass that goes on to the label step without a master.
LEMMA ToLabelNoneType == ToLabelNone \in Passes
  BY ToLabelType DEF ToLabelNone

\* A status write that succeeds or fails.
LEMMA StatusWriteType ==
  ASSUME TypeOK, NEW want \in Statuses, StatusWrite(want)
  PROVE  cr' \in Statuses /\ budget' \in Budgets
<1>1. cr \in Statuses /\ budget \in Budgets
  BY DEF TypeOK
<1>2. CASE cr' = want /\ UNCHANGED budget
  BY <1>1, <1>2
<1>3. CASE UNCHANGED cr /\ Spend("errors")
  BY <1>1, <1>3, SpendType
<1> QED BY <1>2, <1>3 DEF StatusWrite

\* An address read out of a pod list or a gather is an address.
LEMMA PlannedAddresses ==
  ASSUME NEW s \in [Pods -> PodObjects], NEW n \in [Pods -> Observations],
         NEW m \in Pods \cup {NoPod}, IsIntendedMaster(s, m)
  PROVE  /\ IntendedIP(s, m) \in IPs
         /\ LiveMaster(n, m) \in IPs
         /\ NeedsPromotion(n, m) => m \in Pods /\ n[m].ip \in IPs
         /\ \A i \in IPs : planFailoverFence(s, IntendedIP(s, m), i) \in IPs
         /\ \A i \in IPs : {n[p].ip : p \in planFailoverRepoints(n, i)} \in SUBSET IPs
<1>1. IntendedIP(s, m) \in IPs
  BY NoIPType DEF IntendedIP, PodObjects
<1>2. MasterReachable(n, m) => m \in Pods /\ n[m].ip \in IPs
  BY DEF MasterReachable, Observations
<1>3. LiveMaster(n, m) \in IPs
  BY <1>2, NoIPType DEF LiveMaster
<1>4. NeedsPromotion(n, m) => m \in Pods /\ n[m].ip \in IPs
  BY <1>2 DEF NeedsPromotion
<1>5. \A i \in IPs : planFailoverFence(s, IntendedIP(s, m), i) \in IPs
  BY <1>1, NoIPType DEF planFailoverFence
<1>6. \A i \in IPs : {n[p].ip : p \in planFailoverRepoints(n, i)} \in SUBSET IPs
  BY DEF planFailoverRepoints, Observations
<1> QED BY <1>1, <1>3, <1>4, <1>5, <1>6

\* Each decision leaves a pass, a status and a budget of their types.
LEMMA EngineType ==
  ASSUME TypeOK, NEW s \in [Pods -> PodObjects], NEW n \in [Pods -> Observations], Engine(s, n)
  PROVE  op' \in Passes /\ cr' \in Statuses /\ budget' \in Budgets
<1>0. cr \in Statuses /\ budget \in Budgets
  BY DEF TypeOK
<1>1. PICK m \in Pods \cup {NoPod}, e \in 0 .. MaxEpoch :
         /\ IsIntendedMaster(s, m) /\ IsMaxEpoch(s, e)
         /\ \/ PassBeyondBound
            \/ ResumeTransition(n, m)
            \/ DetectionWindow(s, n, m)
            \/ NoFailover(s, n, m)
            \/ RefuseFailover(s, n, m)
            \/ ElectMaster(s, n, m, e)
            \/ HealReplicas(s, n, m, e)
  BY DEF Engine
<1>2. NextEpoch(e) \in Nat
  BY BoundsAssumption DEF NextEpoch
<1>3. CASE PassBeyondBound
  BY <1>0, <1>3, IdleOpType DEF PassBeyondBound
<1>4. CASE ResumeTransition(n, m)
  <2>1. n[m].ip \in IPs
    BY <1>1, <1>4, PlannedAddresses DEF ResumeTransition
  <2>2. [IdleOp EXCEPT !.pc = "promote", !.action = "resume", !.tip = n[m].ip] \in Passes
    BY Zenon, <2>1, IdleOpType DEF Passes, Calls, Actions
  <2> QED BY <1>0, <1>4, <2>2 DEF ResumeTransition
<1>5. CASE DetectionWindow(s, n, m)
  <2> DEFINE d == IF MasterDeath(s, n, m) = "startWindow" THEN "open" ELSE cr.down
  <2>1. [cr EXCEPT !.down = d] \in Statuses
    BY <1>0 DEF Statuses
  <2>2. StatusWrite([cr EXCEPT !.down = d])
    BY <1>5 DEF DetectionWindow
  <2> QED BY <1>5, <2>1, <2>2, StatusWriteType, ToLabelNoneType DEF DetectionWindow
<1>6. CASE NoFailover(s, n, m)
  BY <1>0, <1>6, ToLabelType, ToLabelNoneType DEF NoFailover
<1>7. CASE RefuseFailover(s, n, m)
  <2>1. [cr EXCEPT !.refused = TRUE] \in Statuses
    BY Zenon, <1>0 DEF Statuses
  <2> QED BY <1>7, <2>1, StatusWriteType, ToLabelNoneType DEF RefuseFailover
<1>8. CASE ElectMaster(s, n, m, e)
  <2>1. PICK plan \in [action : {"seed", "promote", "unsafeElect"}, target : Pods] :
           LET new == n[plan.target].ip IN
           op' = [IdleOp EXCEPT
               !.pc = "stamp", !.action = plan.action,
               !.todo = {p \in Pods : Stampable(s[p])},
               !.target = plan.target, !.tip = new, !.epoch = NextEpoch(e),
               !.promote = plan.action # "seed" /\ NeedsPromotion(n, plan.target),
               !.fence = IF plan.action = "seed" THEN NoIP
                         ELSE planFailoverFence(s, IntendedIP(s, m), new)]
    BY Zenon, <1>8 DEF ElectMaster
  <2> DEFINE new == n[plan.target].ip
             fence == IF plan.action = "seed" THEN NoIP
                      ELSE planFailoverFence(s, IntendedIP(s, m), new)
             promote == plan.action # "seed" /\ NeedsPromotion(n, plan.target)
             todo == {p \in Pods : Stampable(s[p])}
  <2>2. new \in IPs
    BY DEF Observations
  <2>3. fence \in IPs
    BY <1>1, <2>2, PlannedAddresses, NoIPType
  <2>4. promote \in BOOLEAN /\ todo \in SUBSET Pods
    OBVIOUS
  <2>5. plan.action \in Actions /\ plan.target \in Pods
    BY DEF Actions
  <2>6. op' = [IdleOp EXCEPT
               !.pc = "stamp", !.action = plan.action, !.todo = todo, !.target = plan.target,
               !.tip = new, !.epoch = NextEpoch(e), !.promote = promote, !.fence = fence]
    BY <2>1
  <2> HIDE DEF new, fence, promote, todo
  <2>7. op' \in Passes
    BY Zenon, <1>2, <2>2, <2>3, <2>4, <2>5, <2>6, IdleOpType DEF Passes, Calls
  <2> QED BY <1>0, <1>8, <2>7 DEF ElectMaster
<1>9. CASE HealReplicas(s, n, m, e)
  <2> DEFINE live    == LiveMaster(n, m)
             settled == failoverTransitionSettled(s, n, m)
             fresh   == IF settled THEN FreshPods(s, m, live) ELSE {}
             parked  == IF settled THEN ParkedPods(s, n, m, live) ELSE {}
             stragglers == {n[p].ip : p \in planFailoverRepoints(n, live)}
  <2>1. fresh \in SUBSET Pods /\ parked \in SUBSET Pods
    BY DEF FreshPods, ParkedPods, Reauthorizable, Listed
  <2>2. live \in IPs /\ stragglers \in SUBSET IPs
    BY <1>1, PlannedAddresses
  <2>3. HealStep(stragglers, fresh \cup parked) \in Calls
    BY DEF HealStep, Calls
  <2>4. op' = [IdleOp EXCEPT
               !.pc = HealStep(stragglers, fresh \cup parked), !.action = "reauth",
               !.stragglers = stragglers, !.todo = fresh \cup parked, !.fresh = fresh,
               !.tip = live, !.epoch = NextEpoch(e), !.masterPod = m]
    BY <1>9 DEF HealReplicas
  <2>5. /\ [cr EXCEPT !.down = "none", !.refused = FALSE] \in Statuses
        /\ [cr EXCEPT !.down = "none"] \in Statuses
        /\ [cr EXCEPT !.refused = FALSE] \in Statuses
    BY Zenon, <1>0 DEF Statuses
  <2>6. cr' \in Statuses /\ budget' \in Budgets
    BY Zenon, <1>9, <2>5, StatusWriteType, SpendType DEF HealReplicas
  <2> HIDE DEF live, settled, fresh, parked, stragglers
  <2>7. op' \in Passes
    BY Zenon, <1>2, <2>1, <2>2, <2>3, <2>4, IdleOpType DEF Passes, Actions
  <2> QED BY <2>6, <2>7
<1> QED BY <1>1, <1>3, <1>4, <1>5, <1>6, <1>7, <1>8, <1>9

\* The operator's steps keep the types.
LEMMA OperatorType ==
  ASSUME TypeOK, Countable
  PROVE  /\ InitBootstrapFlag => TypeOK'
         /\ BootstrapFailover => TypeOK'
         /\ BootstrapWaits => TypeOK'
         /\ ReconcileAssignments => TypeOK'
         /\ ListPods => TypeOK'
         /\ \A p \in Pods : Probe(p) => TypeOK'
         /\ DecideOnGather => TypeOK'
         /\ ListFails => TypeOK'
         /\ StampAssignments => TypeOK'
         /\ PromoteMaster => TypeOK'
         /\ FenceOutgoingMaster => TypeOK'
         /\ RepointStragglers => TypeOK'
         /\ MarkTransition => TypeOK'
         /\ ClearBootstrapFlag => TypeOK'
         /\ UpdateLabels => TypeOK'
         /\ UpdateStatus => TypeOK'
<1>0. /\ pod \in [Pods -> PodObjects] /\ redis \in [Pods -> Processes] /\ op \in Passes
      /\ cr \in Statuses /\ budget \in Budgets
  BY DEF TypeOK
<1>1. ASSUME BootstrapFailover PROVE TypeOK'
  <2>1. PICK e \in 0 .. MaxEpoch :
           \/ op' = IdleOp
           \/ op' = [IdleOp EXCEPT !.pc = "stamp", !.action = "bootstrap",
                                   !.todo = {p \in Pods : Stampable(pod[p])},
                                   !.target = 0, !.tip = pod[0].ip, !.epoch = NextEpoch(e)]
    BY Zenon, <1>1 DEF BootstrapFailover
  <2>2. NextEpoch(e) \in Nat
    BY BoundsAssumption DEF NextEpoch
  <2>3. 0 \in Pods /\ pod[0].ip \in IPs
    BY <1>0, ReplicasAssumption DEF Pods, PodObjects
  <2> DEFINE todo == {p \in Pods : Stampable(pod[p])}
  <2>4. todo \in SUBSET Pods
    OBVIOUS
  <2> HIDE DEF todo
  <2>5. op' = IdleOp \/ op' = [IdleOp EXCEPT !.pc = "stamp", !.action = "bootstrap", !.todo = todo,
                                            !.target = 0, !.tip = pod[0].ip, !.epoch = NextEpoch(e)]
    BY <2>1 DEF todo
  <2>6. [IdleOp EXCEPT !.pc = "stamp", !.action = "bootstrap", !.todo = todo, !.target = 0,
                       !.tip = pod[0].ip, !.epoch = NextEpoch(e)] \in Passes
    BY Zenon, <2>2, <2>3, <2>4, IdleOpType DEF Passes, Calls, Actions
  <2> QED BY <1>1, <2>5, <2>6, IdleOpType DEF BootstrapFailover, TypeOK
<1>2. ASSUME ReconcileAssignments PROVE TypeOK'
  <2> DEFINE n == [p \in Pods |-> IF Stampable(pod[p]) THEN Observation(p, pod[p].ip) ELSE NotProbed]
  <2>1. \A p \in Pods : pod[p].ip \in IPs
    BY <1>0 DEF PodObjects
  <2>2. n \in [Pods -> Observations]
    BY <2>1, NotProbedType DEF Countable
  <2>3. Engine(pod, n)
    BY <1>2 DEF ReconcileAssignments
  <2> HIDE DEF n
  <2>4. op' \in Passes /\ cr' \in Statuses /\ budget' \in Budgets
    BY <1>0, <2>2, <2>3, EngineType
  <2> QED BY <1>2, <2>4 DEF ReconcileAssignments, TypeOK
<1>3. ASSUME ListPods PROVE TypeOK'
  <2> DEFINE listed == {p \in Pods : Stampable(pod[p])}
  <2>1. listed \in SUBSET Pods
    OBVIOUS
  <2>2. op' = [IdleOp EXCEPT !.pc = "gather", !.snap = pod, !.toProbe = listed]
    BY <1>3 DEF ListPods
  <2> HIDE DEF listed
  <2>3. op' \in Passes
    BY Zenon, <1>0, <2>1, <2>2, IdleOpType DEF Passes, Calls
  <2> QED BY <1>3, <2>3, SpendType DEF ListPods, TypeOK
<1>4. ASSUME NEW p \in Pods, Probe(p) PROVE TypeOK'
  <2>1. op.snap[p].ip \in IPs
    BY <1>0 DEF Passes, PodObjects
  <2>2. Observation(p, op.snap[p].ip) \in Observations
    BY <2>1 DEF Countable
  <2>3. [op.nodes EXCEPT ![p] = Observation(p, op.snap[p].ip)] \in [Pods -> Observations]
    BY <1>0, <2>2 DEF Passes
  <2>4. op' = [op EXCEPT !.toProbe = op.toProbe \ {p},
                         !.nodes = [op.nodes EXCEPT ![p] = Observation(p, op.snap[p].ip)]]
    BY <1>0, <1>4 DEF Probe, Passes
  <2>5. op' \in Passes
    BY Zenon, <1>0, <2>3, <2>4 DEF Passes
  <2> QED BY <1>4, <2>5 DEF Probe, TypeOK
<1>5. ASSUME DecideOnGather PROVE TypeOK'
  <2>1. op.snap \in [Pods -> PodObjects] /\ op.nodes \in [Pods -> Observations]
    BY <1>0 DEF Passes
  <2>2. op' \in Passes /\ cr' \in Statuses /\ budget' \in Budgets
    BY <1>5, <2>1, EngineType DEF DecideOnGather
  <2> QED BY <1>5, <2>2 DEF DecideOnGather, TypeOK
<1>6. ASSUME ListFails PROVE TypeOK'
  BY <1>6, SpendType, ToLabelNoneType DEF ListFails, TypeOK
<1>7. ASSUME StampAssignments PROVE TypeOK'
  <2>1. PICK done \in SUBSET {p \in op.todo : pod[p].exists} :
           /\ Spend("errors") \/ UNCHANGED budget
           /\ pod' = [p \in Pods |-> IF p \in done THEN Stamped(p) ELSE pod[p]]
           /\ op' = AfterStamps(AllStamped(done))
    BY <1>7 DEF StampAssignments
  <2>2. budget' \in Budgets
    BY <1>0, <2>1, SpendType
  <2>3. ASSUME NEW p \in Pods PROVE Stamped(p) \in PodObjects
    <3>1. pod[p] \in PodObjects /\ op.epoch \in Nat /\ op.tip \in IPs
      BY <1>0 DEF Passes
    <3> DEFINE a == IF op.action = "bootstrap" \/ masterStartAuthorizedFor(op.action)
                    THEN op.epoch ELSE pod[p].auth
               e == IF p \in op.fresh /\ op.epoch > 1 THEN op.epoch - 1 ELSE op.epoch
    <3>2. a \in Nat /\ e \in Nat
      BY <3>1 DEF PodObjects
    <3>3. [pod[p] EXCEPT !.role = "master", !.mip = NoIP, !.epoch = op.epoch, !.auth = a]
             \in PodObjects
      BY Zenon, <3>1, <3>2, NoIPType DEF PodObjects, Roles
    <3>4. [pod[p] EXCEPT !.role = "replica", !.mip = op.tip, !.epoch = e] \in PodObjects
      BY Zenon, <3>1, <3>2 DEF PodObjects, Roles
    <3>5. CASE p = op.target
      BY <3>3, <3>5 DEF Stamped
    <3>6. CASE p # op.target
      BY <3>4, <3>6 DEF Stamped
    <3> QED BY <3>5, <3>6
  <2>4. pod' \in [Pods -> PodObjects]
    BY <1>0, <2>1, <2>3
  <2>5. ASSUME NEW ok \in BOOLEAN PROVE AfterStamps(ok) \in Passes
    <3>1. /\ ToLabel(op.masterPod) \in Passes /\ ToLabelNone \in Passes /\ IdleOp \in Passes
      BY <1>0, ToLabelType, ToLabelNoneType, IdleOpType DEF Passes
    <3>2. [op EXCEPT !.pc = "mark", !.todo = {}] \in Passes
      BY Zenon, <1>0 DEF Passes, Calls
    <3>3. [op EXCEPT !.pc = "promote", !.todo = {}] \in Passes
      BY Zenon, <1>0 DEF Passes, Calls
    <3>4. AfterPromotion \in Passes
      BY Zenon, <1>0 DEF AfterPromotion, Passes, Calls
    <3>5. [AfterPromotion EXCEPT !.todo = {}] \in Passes
      BY <3>4 DEF Passes
    <3> QED BY <3>1, <3>2, <3>3, <3>5 DEF AfterStamps
  <2>6. op' \in Passes
    <3>1. AllStamped(done) \in BOOLEAN
      BY DEF AllStamped
    <3> QED BY <2>1, <2>5, <3>1
  <2> QED BY <1>7, <2>2, <2>4, <2>6 DEF StampAssignments, TypeOK
<1>8. ASSUME PromoteMaster PROVE TypeOK'
  <2>1. PICK done \in SUBSET Reachable(op.tip) :
           /\ Spend("errors") \/ UNCHANGED budget
           /\ redis' = [p \in Pods |-> IF p \in done THEN Promoted(redis[p]) ELSE redis[p]]
           /\ op' = AfterPromotion \/ op' = ToLabelNone
    BY <1>8 DEF PromoteMaster
  <2>2. budget' \in Budgets
    BY <1>0, <2>1, SpendType
  <2>3. ASSUME NEW r \in Processes PROVE Promoted(r) \in Processes
    <3>1. FreshReplid \in Nat
      BY DEF Countable
    <3> QED BY Zenon, <3>1, NoIPType DEF Promoted, Processes
  <2>4. redis' \in [Pods -> Processes]
    BY <1>0, <2>1, <2>3
  <2>5. op' \in Passes
    <3>1. AfterPromotion \in Passes
      BY Zenon, <1>0 DEF AfterPromotion, Passes, Calls
    <3> QED BY <2>1, <3>1, ToLabelNoneType
  <2> QED BY <1>8, <2>2, <2>4, <2>5 DEF PromoteMaster, TypeOK
<1>9. ASSUME NEW ips, Redirect(ips) PROVE redis' \in [Pods -> Processes] /\ budget' \in Budgets
  <2>1. ASSUME NEW r \in Processes PROVE Following(r, op.tip) \in Processes
    <3>1. op.tip \in IPs
      BY <1>0 DEF Passes
    <3> QED BY Zenon, <3>1 DEF Following, Processes
  <2>2. redis' \in [Pods -> Processes]
    BY <1>0, <1>9, <2>1 DEF Redirect
  <2>3. Spend("errors") \/ UNCHANGED budget
    BY <1>9 DEF Redirect
  <2> QED BY <1>0, <2>2, <2>3, SpendType
<1>10. ASSUME FenceOutgoingMaster PROVE TypeOK'
  <2>1. op' \in Passes
    BY Zenon, <1>0, <1>10, NoIPType DEF FenceOutgoingMaster, Passes, Calls
  <2>2. redis' \in [Pods -> Processes] /\ budget' \in Budgets
    BY <1>9, <1>10 DEF FenceOutgoingMaster
  <2> QED BY <1>10, <2>1, <2>2 DEF FenceOutgoingMaster, TypeOK
<1>11. ASSUME RepointStragglers PROVE TypeOK'
  <2>1. HealStep({}, op.todo) \in Calls
    BY DEF HealStep, Calls
  <2>2. op' \in Passes
    BY Zenon, <1>0, <1>11, <2>1 DEF RepointStragglers, Passes
  <2>3. redis' \in [Pods -> Processes] /\ budget' \in Budgets
    BY <1>9, <1>11 DEF RepointStragglers
  <2> QED BY <1>11, <2>2, <2>3 DEF RepointStragglers, TypeOK
<1>12. ASSUME MarkTransition PROVE TypeOK'
  <2>1. [cr EXCEPT !.cooling = TRUE, !.down = "none"] \in Statuses
    BY Zenon, <1>0 DEF Statuses
  <2>2. [IdleOp EXCEPT !.pc = "clearFlag"] \in Passes
    BY IdleOpType DEF Passes, Calls
  <2>3. op' \in Passes
    BY <1>12, <2>2, IdleOpType, ToLabelNoneType DEF MarkTransition
  <2>4. cr' \in Statuses /\ budget' \in Budgets
    BY <1>0, <1>12, <2>1, SpendType DEF MarkTransition
  <2> QED BY <1>12, <2>3, <2>4 DEF MarkTransition, TypeOK
<1>13. ASSUME ClearBootstrapFlag PROVE TypeOK'
  <2>1. [cr EXCEPT !.bootstrapRequired = FALSE] \in Statuses
    BY Zenon, <1>0 DEF Statuses
  <2>2. cr' \in Statuses /\ budget' \in Budgets
    BY Zenon, <1>0, <1>13, <2>1, SpendType DEF ClearBootstrapFlag
  <2>3. [IdleOp EXCEPT !.pc = "engine"] \in Passes
    BY IdleOpType DEF Passes, Calls
  <2>4. op' \in Passes
    BY <1>13, <2>3, IdleOpType DEF ClearBootstrapFlag
  <2> QED BY <1>13, <2>2, <2>4 DEF ClearBootstrapFlag, TypeOK
<1>14. ASSUME UpdateLabels PROVE TypeOK'
  <2>1. PICK done : /\ Spend("errors") \/ UNCHANGED budget
                    /\ pod' = [p \in Pods |->
                         IF p \in done THEN [pod[p] EXCEPT !.label = ExpectedLabel(p)] ELSE pod[p]]
    BY <1>14 DEF UpdateLabels
  <2>2. budget' \in Budgets
    BY <1>0, <2>1, SpendType
  <2>3. ASSUME NEW p \in Pods PROVE [pod[p] EXCEPT !.label = ExpectedLabel(p)] \in PodObjects
    <3>1. pod[p] \in PodObjects
      BY <1>0
    <3>2. ExpectedLabel(p) \in Roles
      BY <3>1 DEF ExpectedLabel, PodObjects, Roles
    <3> QED BY <3>1, <3>2 DEF PodObjects
  <2>4. pod' \in [Pods -> PodObjects]
    BY <1>0, <2>1, <2>3
  <2>5. [IdleOp EXCEPT !.pc = "status"] \in Passes
    BY IdleOpType DEF Passes, Calls
  <2>6. op' \in Passes
    BY <1>14, <2>5, IdleOpType DEF UpdateLabels
  <2> QED BY <1>14, <2>2, <2>4, <2>6 DEF UpdateLabels, TypeOK
<1>15. ASSUME InitBootstrapFlag PROVE TypeOK'
  BY Zenon, <1>15 DEF InitBootstrapFlag, TypeOK, Statuses
<1>16. ASSUME BootstrapWaits PROVE TypeOK'
  BY <1>16, ToLabelNoneType DEF BootstrapWaits, TypeOK
<1>17. ASSUME UpdateStatus PROVE TypeOK'
  <2>1. [cr EXCEPT !.phase = TRUE] \in Statuses
    BY Zenon, <1>0 DEF Statuses
  <2>2. cr' \in Statuses /\ budget' \in Budgets
    BY Zenon, <1>0, <1>17, <2>1, SpendType DEF UpdateStatus
  <2> QED BY <1>17, <2>2, IdleOpType DEF UpdateStatus, TypeOK
<1> QED BY <1>1, <1>2, <1>3, <1>4, <1>5, <1>6, <1>7, <1>8, <1>10, <1>11, <1>12, <1>13, <1>14, <1>15,
           <1>16, <1>17

\* The pods and the containers of a starting point have the types.
LEMMA PodsUnderType ==
  ASSUME NEW a \in [Pods -> Assignments], NEW k \in [Pods -> Nat]
  PROVE  PodsUnder(a, k) \in [Pods -> PodObjects]
<1>1. ASSUME NEW p \in Pods PROVE a[p] \in Assignments /\ k[p] \in Nat /\ <<p, 1>> \in IPs
  BY DEF IPs
<1> QED BY <1>1 DEF PodsUnder, PodObjects, Assignments

LEMMA ContainersUnderType ==
  ASSUME NEW a \in [Pods -> Assignments], NEW k \in [Pods -> Nat]
  PROVE  ContainersUnder(a, k) \in [Pods -> Containers]
<1>1. ASSUME NEW p \in Pods PROVE a[p] \in Assignments /\ a[p].auth \in Nat /\ k[p] \in Nat
  BY DEF Assignments
<1> QED BY <1>1 DEF ContainersUnder, Containers

\* Every starting point has the types.
LEMMA InitType == Init => TypeOK
<1> SUFFICES ASSUME Init PROVE TypeOK
  OBVIOUS
<1>1. op \in Passes
  BY IdleOpType DEF Init
<1>0. PICK sc \in Scenarios : StartAt(sc.start) /\ budget = sc.budget
  BY DEF Init
<1>2. budget \in Budgets
  BY <1>0, ScenariosAssumption
<1>3. \A p \in Pods, k \in {1} : <<p, k>> \in IPs
  BY DEF IPs
<1>4. ASSUME NewInstance PROVE TypeOK
  <2>1. \A p \in Pods : NewContainer(0) \in Containers
    BY NewContainerType
  <2>2. cr \in Statuses
    BY <1>4 DEF NewInstance, Statuses
  <2> QED BY <1>1, <1>2, <1>4, <2>1, <2>2, PendingPodType, DownType DEF NewInstance, TypeOK
<1>5. 0 \in Pods /\ 1 \in Pods /\ (sc.start = "forked" => 2 \in Pods) /\ Pods \subseteq Nat
  BY ReplicasAssumption, ScenariosAssumption DEF Pods
<1>6. \A p \in Pods : <<p, 1>> \in IPs
  BY <1>5 DEF IPs
<1>7. {} \in SUBSET (1 .. MaxWrites + 1) /\ {MaxWrites + 1} \in SUBSET (1 .. MaxWrites + 1)
  BY BoundsAssumption
<1>8. ASSUME SettledInstance PROVE TypeOK
  <2> DEFINE a == [p \in Pods |-> IF p = 0 THEN Assign("master", NoIP, 1, 1)
                                ELSE Assign("replica", <<0, 1>>, 1, 0)]
             k == [p \in Pods |-> 1]
  <2>1. a \in [Pods -> Assignments] /\ k \in [Pods -> Nat]
    BY <1>5, <1>6, NoIPType DEF Assign, Assignments, Roles
  <2>2. pod = PodsUnder(a, k) /\ ctr = ContainersUnder(a, k)
    BY <1>8 DEF SettledInstance, Converged
  <2>3. pod \in [Pods -> PodObjects] /\ ctr \in [Pods -> Containers]
    <3> HIDE DEF a, k
    <3> QED BY <2>1, <2>2, PodsUnderType, ContainersUnderType
  <2>4. redis \in [Pods -> Processes]
    BY <1>5, <1>6, <1>7, <1>8, NoIPType DEF SettledInstance, Converged, Processes
  <2>5. net \in [Pods -> {"ok"} \cup DialFaults] /\ cr \in Statuses
    BY <1>8 DEF SettledInstance, Converged, DialFaults, Statuses
  <2> QED BY <1>1, <1>2, <2>3, <2>4, <2>5 DEF TypeOK
<1>9. ASSUME FailedOverInstance PROVE TypeOK
  <2> DEFINE a == [p \in Pods |-> CASE p = 0 -> Assign("replica", <<1, 1>>, 3, 1)
                                  [] p = 1 -> Assign("master", NoIP, 2, 0)
                                  [] OTHER -> Assign("replica", <<1, 1>>, 2, 0)]
             k == [p \in Pods |-> IF p = 0 THEN 3 ELSE 1]
  <2>1. a \in [Pods -> Assignments] /\ k \in [Pods -> Nat]
    BY <1>5, <1>6, NoIPType DEF Assign, Assignments, Roles
  <2>2. pod = PodsUnder(a, k) /\ ctr = ContainersUnder(a, k)
    BY <1>9 DEF FailedOverInstance, Converged
  <2>3. pod \in [Pods -> PodObjects] /\ ctr \in [Pods -> Containers]
    <3> HIDE DEF a, k
    <3> QED BY <2>1, <2>2, PodsUnderType, ContainersUnderType
  <2>4. redis \in [Pods -> Processes]
    BY <1>5, <1>6, <1>7, <1>9, NoIPType DEF FailedOverInstance, Converged, Processes
  <2>5. net \in [Pods -> {"ok"} \cup DialFaults] /\ cr \in Statuses
    BY <1>9 DEF FailedOverInstance, Converged, DialFaults, Statuses
  <2> QED BY <1>1, <1>2, <2>3, <2>4, <2>5 DEF TypeOK
<1>10. ASSUME NEW m \in Pods, m \in Nat, PartitionedInstance(m) PROVE TypeOK
  <2> DEFINE a == [p \in Pods |-> IF p = m THEN Assign("master", NoIP, m + 1, 0)
                             ELSE Assign("replica", <<m, 1>>, m + 1, IF p = 0 THEN 1 ELSE 0)]
             k == [p \in Pods |-> 1]
  <2>1. a \in [Pods -> Assignments] /\ k \in [Pods -> Nat]
    BY <1>5, <1>6, <1>10, NoIPType DEF Assign, Assignments, Roles
  <2>2. pod = PodsUnder(a, k) /\ ctr = ContainersUnder(a, k)
    BY <1>10 DEF PartitionedInstance, Converged
  <2>3. pod \in [Pods -> PodObjects] /\ ctr \in [Pods -> Containers]
    <3> HIDE DEF a, k
    <3> QED BY <2>1, <2>2, PodsUnderType, ContainersUnderType
  <2>4. redis \in [Pods -> Processes]
    <3>1. ASSUME NEW p \in Pods PROVE redis[p] \in Processes
      <4>1. p \in Nat /\ p + 1 \in Nat /\ m + 1 \in Nat
        BY <1>5, <1>10
      <4>2. <<m, 1>> \in IPs
        BY <1>6, <1>10
      <4> DEFINE ids == IF p < m THEN <<p + 1, p>> ELSE <<m + 1, m>>
      <4>3. ids[1] \in Nat /\ ids[2] \in Nat
        BY <1>10, <4>1
      <4>4. redis[p] = [up |-> TRUE, role |-> IF p \in 0 .. m - 1 \cup {m} THEN "master" ELSE "slave",
                        mhost |-> IF p \in 0 .. m - 1 \cup {m} THEN NoIP ELSE <<m, 1>>,
                        link |-> IF p \in 0 .. m - 1 \cup {m} THEN "down" ELSE "up",
                        data |-> {MaxWrites + 1}, replid |-> ids[1], replid2 |-> ids[2], fenced |-> FALSE]
        BY <1>10 DEF PartitionedInstance, Converged
      <4> HIDE DEF ids
      <4> QED BY <1>7, <4>2, <4>3, <4>4, NoIPType DEF Processes
    <3>2. DOMAIN redis = Pods /\ redis = [p \in Pods |-> redis[p]]
      BY <1>10 DEF PartitionedInstance, Converged
    <3> QED BY <3>1, <3>2
  <2>5. net \in [Pods -> {"ok"} \cup DialFaults] /\ cr \in Statuses
    BY <1>10 DEF PartitionedInstance, Converged, DialFaults, Statuses
  <2> QED BY <1>1, <1>2, <2>3, <2>4, <2>5 DEF TypeOK
<1> QED BY Zenon, <1>0, <1>4, <1>5, <1>8, <1>9, <1>10, ScenariosAssumption DEF StartAt, StartingPoints

\* Every step keeps the types.
LEMMA NextType ==
  ASSUME TypeOK, Countable, [Next]_vars
  PROVE  TypeOK'
<1>1. ASSUME OperatorStep PROVE TypeOK'
  BY <1>1, OperatorType DEF OperatorStep
<1>2. ASSUME NEW p \in Pods, PodStep(p) PROVE TypeOK'
  BY <1>2, PodStepType, RedisStepType DEF PodStep
<1>3. ASSUME NEW p \in Pods, Environment(p) PROVE TypeOK'
  BY <1>3, EnvironmentType, PodStepType DEF Environment
<1>4. ASSUME WindowElapses PROVE TypeOK'
  BY <1>4 DEF WindowElapses, TypeOK, Statuses
<1>5. ASSUME CooldownEnds PROVE TypeOK'
  BY Zenon, <1>5 DEF CooldownEnds, TypeOK, Statuses
<1>6. ASSUME OperatorCrash PROVE TypeOK'
  BY <1>6, SpendType, IdleOpType DEF OperatorCrash, TypeOK
<1>7. ASSUME UNCHANGED vars PROVE TypeOK'
  BY <1>7 DEF vars, TypeOK
<1> QED BY <1>1, <1>2, <1>3, <1>4, <1>5, <1>6, <1>7 DEF Next

----------------------------------------------------------------------------
(* Epochs.  SameAssignments and SameGate say which steps cannot disturb the *)
(* epoch invariant: those that leave the assignments on the pods, and the   *)
(* markers and projected files in the containers, as they are.              *)

SameAssignments ==
    \A p \in Pods : /\ pod'[p].exists = pod[p].exists
                    /\ pod'[p].role = pod[p].role /\ pod'[p].epoch = pod[p].epoch
SameGate ==
    \A p \in Pods : ctr'[p].marker = ctr[p].marker /\ ctr'[p].file = ctr[p].file

\* A step that disturbs neither keeps the invariant.
LEMMA EpochsKept ==
  ASSUME EpochInv, TypeOK', SameAssignments, SameGate, PassIsAhead'
  PROVE  EpochInv'
<1>1. EpochsFlowDown'
  BY DEF EpochInv, EpochsFlowDown, SameAssignments, SameGate
<1>2. OneMasterPerEpoch'
  BY DEF EpochInv, OneMasterPerEpoch, SameAssignments
<1> QED BY <1>1, <1>2 DEF EpochInv

\* A pass stays ahead of the stamps while nobody stamps.
LEMMA PassKept ==
  ASSUME EpochInv, SameAssignments, op' = op
  PROVE  PassIsAhead'
  BY DEF EpochInv, PassIsAhead, SameAssignments

\* A pass that is past its stamps promises nothing about epochs.
LEMMA PassOver ==
  ASSUME op'.pc \notin {"stamp", "repoint", "gather"}
  PROVE  PassIsAhead'
  BY DEF PassIsAhead

\* The pods and the environment: no step but the replacement of a pod touches
\* an assignment, and a marker only ever takes the value of the projected epoch.
LEMMA PodEpochs ==
  ASSUME EpochInv, TypeOK', NEW p \in Pods, PodStep(p) \/ Environment(p)
  PROVE  EpochInv'
<1> USE DEF EpochInv
<1>0. /\ pod \in [Pods -> PodObjects] /\ ctr \in [Pods -> Containers]
      /\ pod[p] \in PodObjects /\ ctr[p] \in Containers /\ ctr[p].file \in Assignments
  BY DEF TypeOK, Containers
<1>1. CASE Sync(p) \/ LinkLost(p) \/ Write(p) \/ PreStopFence(p) \/ Cut(p) \/ Heal(p)
  <2>1. SameAssignments /\ SameGate /\ op' = op
    BY Zenon, <1>1 DEF Sync, LinkLost, Write, PreStopFence, Cut, Heal, SameAssignments, SameGate
  <2> QED BY <2>1, EpochsKept, PassKept
<1>2. CASE ReportStatus(p)
  <2>1. SameAssignments
    BY <1>0, <1>2 DEF ReportStatus, SameAssignments, PodObjects
  <2>2. SameGate /\ op' = op
    BY <1>2 DEF ReportStatus, SameGate
  <2> QED BY <2>1, <2>2, EpochsKept, PassKept
<1>3. CASE DeletePod(p)
  <2>1. SameAssignments
    BY <1>0, <1>3 DEF DeletePod, SameAssignments, PodObjects
  <2>2. SameGate /\ op' = op
    BY <1>3 DEF DeletePod, SameGate
  <2> QED BY <2>1, <2>2, EpochsKept, PassKept
<1>4. CASE KillContainer(p)
  <2>1. SameGate
    BY <1>0, <1>4 DEF KillContainer, SameGate, Containers
  <2>2. SameAssignments /\ op' = op
    BY <1>4 DEF KillContainer, SameAssignments
  <2> QED BY <2>1, <2>2, EpochsKept, PassKept
<1>5. ASSUME UNCHANGED <<pod, op>>, \A q \in Pods \ {p} : ctr'[q] = ctr[q],
             ctr'[p].marker =< ctr'[p].file.epoch, ctr'[p].file.epoch =< pod[p].epoch
      PROVE  EpochInv'
  <2>1. EpochsFlowDown'
    BY <1>5 DEF EpochsFlowDown
  <2>2. PassIsAhead' /\ OneMasterPerEpoch'
    BY <1>5 DEF PassIsAhead, OneMasterPerEpoch
  <2> QED BY <2>1, <2>2
<1>6. CASE Project(p)
  <2>1. ctr'[p] = [ctr[p] EXCEPT !.file = AssignmentOf(pod[p])]
    BY <1>0, <1>6 DEF Project
  <2>2. ctr'[p].marker = ctr[p].marker /\ ctr'[p].file.epoch = pod[p].epoch
    BY <1>0, <2>1 DEF Containers, AssignmentOf
  <2>3. ctr[p].marker =< pod[p].epoch
    BY <1>0 DEF EpochsFlowDown, Containers, Assignments, PodObjects
  <2>4. \A q \in Pods \ {p} : ctr'[q] = ctr[q]
    BY <1>0, <1>6 DEF Project
  <2>5. pod[p].epoch =< pod[p].epoch
    BY <1>0 DEF PodObjects
  <2> QED BY <1>5, <1>6, <2>2, <2>3, <2>4, <2>5 DEF Project
<1>7. CASE StartRedis(p)
  <2>1. ctr'[p] = [ctr[p] EXCEPT !.marker = ctr[p].file.epoch]
    BY <1>0, <1>7 DEF StartRedis
  <2>2. ctr'[p].marker = ctr[p].file.epoch /\ ctr'[p].file = ctr[p].file
    BY <1>0, <2>1 DEF Containers
  <2>3. ctr[p].file.epoch =< ctr[p].file.epoch /\ ctr[p].file.epoch =< pod[p].epoch
    BY <1>0 DEF EpochsFlowDown, Assignments
  <2>4. \A q \in Pods \ {p} : ctr'[q] = ctr[q]
    BY <1>0, <1>7 DEF StartRedis
  <2> QED BY <1>5, <1>7, <2>2, <2>3, <2>4 DEF StartRedis
<1>8. CASE StartOnTornRead(p)
  <2> DEFINE new == AssignmentOf(pod[p])
  <2>1. PICK f \in TornReads(ctr[p].file, new) :
           ctr' = [ctr EXCEPT ![p].file = new, ![p].marker = f.epoch]
    BY Zenon, <1>8 DEF StartOnTornRead
  <2>2. new \in Assignments /\ new.epoch = pod[p].epoch
    BY <1>0 DEF PodObjects, Assignments, AssignmentOf
  <2>3. f.epoch \in {ctr[p].file.epoch, pod[p].epoch}
    BY Zenon, <1>0, <2>1, <2>2 DEF TornReads, Assignments
  <2>4. f.epoch =< pod[p].epoch /\ pod[p].epoch =< pod[p].epoch
    BY <1>0, <2>3 DEF EpochsFlowDown, PodObjects, Assignments
  <2> HIDE DEF new
  <2>5. ctr'[p].file = new /\ ctr'[p].marker = f.epoch
    BY <1>0, <2>1 DEF Containers
  <2>6. \A q \in Pods \ {p} : ctr'[q] = ctr[q]
    BY <1>0, <2>1
  <2> QED BY Zenon, <1>5, <1>8, <2>2, <2>4, <2>5, <2>6 DEF StartOnTornRead
<1>9. CASE AssignIP(p)
  <2>1. SameAssignments /\ op' = op
    BY <1>0, <1>9 DEF AssignIP, SameAssignments, PodObjects
  <2>2. ctr'[p].marker = 0 /\ ctr'[p].file.epoch = 0
    BY <1>0, <1>9 DEF AssignIP, NewContainer, NoAssignment
  <2>3. \A q \in Pods \ {p} : ctr'[q] = ctr[q]
    BY <1>0, <1>9 DEF AssignIP
  <2>4. pod[p].epoch \in Nat
    BY <1>0 DEF PodObjects
  <2>5. EpochsFlowDown'
    <3>1. ASSUME NEW q \in Pods
          PROVE  ctr'[q].marker =< ctr'[q].file.epoch /\ ctr'[q].file.epoch =< pod[q].epoch
      <4>1. CASE q = p
        BY <2>2, <2>4, <4>1
      <4>2. CASE q # p
        BY <2>3, <4>2 DEF EpochsFlowDown
      <4> QED BY <4>1, <4>2
    <3>2. \A q \in Pods : /\ pod'[q].role = "none" => pod'[q].epoch = 0
                          /\ ~pod'[q].exists => pod'[q].role = "none"
      BY <2>1 DEF EpochsFlowDown, SameAssignments
    <3> QED BY <2>1, <3>1, <3>2 DEF EpochsFlowDown, SameAssignments
  <2>6. OneMasterPerEpoch'
    BY <2>1 DEF OneMasterPerEpoch, SameAssignments
  <2> QED BY <2>1, <2>5, <2>6, PassKept
<1>10. ASSUME UNCHANGED op, \A q \in Pods \ {p} : pod'[q] = pod[q] /\ ctr'[q] = ctr[q],
              pod'[p].role = "none", pod'[p].epoch = 0,
              ctr'[p].marker = 0, ctr'[p].file.epoch = 0
       PROVE  EpochInv'
  <2>1. EpochsFlowDown'
    BY <1>10 DEF EpochsFlowDown
  <2>2. PassIsAhead'
    <3>1. op.pc \in {"stamp", "repoint"} => 0 < op.epoch
      BY <1>0 DEF PassIsAhead, PodObjects, TypeOK, Passes
    <3> QED BY <1>10, <3>1 DEF PassIsAhead
  <2>3. OneMasterPerEpoch'
    BY <1>10 DEF OneMasterPerEpoch
  <2> QED BY <2>1, <2>2, <2>3
<1>11. CASE PodGone(p)
  BY <1>0, <1>10, <1>11 DEF PodGone, AbsentPod, PendingPod, NewContainer, NoAssignment
<1>12. CASE Recreate(p)
  <2>1. pod[p].epoch = 0
    BY <1>12 DEF Recreate, EpochsFlowDown
  <2>2. ctr[p].file.epoch = 0 /\ ctr[p].marker = 0
    BY <1>0, <2>1 DEF EpochsFlowDown, Containers, Assignments
  <2> QED BY <1>0, <1>10, <1>12, <2>2 DEF Recreate, PendingPod
<1> QED BY <1>1, <1>2, <1>3, <1>4, <1>6, <1>7, <1>8, <1>9, <1>11, <1>12 DEF PodStep, Environment

\* A decision that leads to a stamp takes an epoch above every assignment of the
\* pod list it was made on, and no decision lists pods again.
LEMMA EngineEpoch ==
  ASSUME NEW s, NEW n, Engine(s, n)
  PROVE  /\ op'.pc # "gather"
         /\ op'.pc \in {"stamp", "repoint"} =>
               \E e \in 0 .. MaxEpoch : IsMaxEpoch(s, e) /\ op'.epoch = e + 1
<1>0. IdleOp \in Passes
  BY IdleOpType
<1>1. PICK m \in Pods \cup {NoPod}, e \in 0 .. MaxEpoch :
         /\ IsMaxEpoch(s, e)
         /\ \/ PassBeyondBound
            \/ ResumeTransition(n, m)
            \/ DetectionWindow(s, n, m)
            \/ NoFailover(s, n, m)
            \/ RefuseFailover(s, n, m)
            \/ ElectMaster(s, n, m, e)
            \/ HealReplicas(s, n, m, e)
  BY DEF Engine
<1>2. \A x : ToLabel(x).pc = "label"
  BY <1>0 DEF ToLabel, Passes
<1>3. ToLabelNone.pc = "label" /\ IdleOp.pc = "idle"
  BY <1>2 DEF ToLabelNone, IdleOp
<1>4. CASE PassBeyondBound
  BY <1>3, <1>4 DEF PassBeyondBound
<1>5. CASE ResumeTransition(n, m)
  <2>1. op'.pc = "promote"
    BY <1>0, <1>5 DEF ResumeTransition, Passes
  <2> QED BY <2>1
<1>6. CASE DetectionWindow(s, n, m) \/ NoFailover(s, n, m) \/ RefuseFailover(s, n, m)
  <2>1. op'.pc = "label"
    BY <1>2, <1>3, <1>6 DEF DetectionWindow, NoFailover, RefuseFailover
  <2> QED BY <2>1
<1>7. CASE ElectMaster(s, n, m, e)
  <2>1. op'.pc = "stamp" /\ op'.epoch = NextEpoch(e)
    BY <1>0, <1>7 DEF ElectMaster, Passes
  <2> QED BY <1>1, <2>1 DEF NextEpoch
<1>8. CASE HealReplicas(s, n, m, e)
  <2>1. op'.pc \in {"repoint", "stamp", "label"} /\ op'.epoch = NextEpoch(e)
    BY <1>0, <1>8 DEF HealReplicas, HealStep, Passes
  <2> QED BY <1>1, <2>1 DEF NextEpoch
<1> QED BY <1>1, <1>4, <1>5, <1>6, <1>7, <1>8

\* An epoch above every assignment of a list that misses none is above every
\* epoch that was ever stamped on a pod that still exists.
LEMMA AheadOfList ==
  ASSUME EpochInv, NEW s \in [Pods -> PodObjects], NEW e \in Nat, IsMaxEpoch(s, e),
         \A p \in Pods : pod[p].role # "none" =>
            s[p].exists /\ s[p].role # "none" /\ pod[p].epoch =< s[p].epoch
  PROVE  \A p \in Pods : pod[p].epoch < e + 1
<1> SUFFICES ASSUME NEW p \in Pods PROVE pod[p].epoch < e + 1
  OBVIOUS
<1>1. pod[p].epoch \in Nat /\ s[p].epoch \in Nat
  BY DEF EpochInv, TypeOK, PodObjects
<1>2. CASE pod[p].role = "none"
  BY <1>1, <1>2 DEF EpochInv, EpochsFlowDown
<1>3. CASE pod[p].role # "none"
  <2>1. p \in Assigned(s)
    BY <1>3 DEF Assigned, Listed
  <2>2. s[p].epoch =< e
    BY <2>1 DEF IsMaxEpoch
  <2> QED BY <1>1, <1>3, <2>2
<1> QED BY <1>2, <1>3

\* The current pods are such a list.
LEMMA CurrentList ==
  ASSUME EpochInv
  PROVE  /\ pod \in [Pods -> PodObjects]
         /\ \A p \in Pods : pod[p].role # "none" =>
              pod[p].exists /\ pod[p].role # "none" /\ pod[p].epoch =< pod[p].epoch
<1>1. pod \in [Pods -> PodObjects]
  BY DEF EpochInv, TypeOK
<1>2. \A p \in Pods : pod[p].epoch =< pod[p].epoch
  BY <1>1 DEF PodObjects
<1> QED BY <1>1, <1>2 DEF EpochInv, EpochsFlowDown

\* The operator: only StampAssignments writes assignments, at an epoch above all
\* that were stamped before, and to one master.
LEMMA OperatorEpochs ==
  ASSUME EpochInv, TypeOK', OperatorStep
  PROVE  EpochInv'
<1> USE DEF EpochInv
<1>0. /\ pod \in [Pods -> PodObjects] /\ op \in Passes /\ IdleOp \in Passes
      /\ \A p \in Pods : pod[p].epoch \in Nat
  BY IdleOpType DEF TypeOK, PodObjects
<1>1. IdleOp.pc = "idle" /\ ToLabelNone.pc = "label" /\ \A x : ToLabel(x).pc = "label"
  BY <1>0 DEF IdleOp, ToLabel, ToLabelNone, Passes
<1>2. ASSUME UNCHANGED <<pod, ctr>>, PassIsAhead' PROVE EpochInv'
  BY <1>2, EpochsKept DEF SameAssignments, SameGate
<1>3. ASSUME NEW s \in [Pods -> PodObjects], NEW n, Engine(s, n), UNCHANGED <<pod, ctr>>,
             \A p \in Pods : pod[p].role # "none" =>
                s[p].exists /\ s[p].role # "none" /\ pod[p].epoch =< s[p].epoch
      PROVE  EpochInv'
  <2>1. CASE op'.pc \in {"stamp", "repoint"}
    <3>1. PICK e \in 0 .. MaxEpoch : IsMaxEpoch(s, e) /\ op'.epoch = e + 1
      BY <1>3, <2>1, EngineEpoch
    <3>2. e \in Nat
      BY BoundsAssumption
    <3>3. \A p \in Pods : pod[p].epoch < e + 1
      BY <1>3, <3>1, <3>2, AheadOfList
    <3> QED BY <1>2, <1>3, <2>1, <3>1, <3>3 DEF PassIsAhead
  <2>2. CASE op'.pc \notin {"stamp", "repoint"}
    BY <1>2, <1>3, <2>2, EngineEpoch, PassOver
  <2> QED BY <2>1, <2>2
<1>4. CASE BootstrapFailover
  <2>1. PICK e \in 0 .. MaxEpoch :
           /\ IsMaxEpoch(pod, e)
           /\ op'.pc = "idle" \/ (op'.pc = "stamp" /\ op'.epoch = NextEpoch(e))
    BY <1>0, <1>1, <1>4 DEF BootstrapFailover, Passes
  <2>2. e \in Nat
    BY BoundsAssumption
  <2>3. \A p \in Pods : pod[p].epoch < e + 1
    BY <2>1, <2>2, CurrentList, AheadOfList
  <2> QED BY <1>2, <1>4, <2>1, <2>3 DEF BootstrapFailover, PassIsAhead, NextEpoch
<1>5. CASE ReconcileAssignments
  BY <1>3, <1>5, CurrentList DEF ReconcileAssignments
<1>6. CASE ListPods
  <2>1. op'.pc = "gather" /\ op'.snap = pod
    BY <1>0, <1>6 DEF ListPods, Passes
  <2>2. UNCHANGED <<pod, ctr>>
    BY <1>6 DEF ListPods
  <2>3. PassIsAhead'
    BY <2>1, <2>2, CurrentList DEF PassIsAhead
  <2> QED BY <1>2, <2>2, <2>3
<1>7. ASSUME NEW p \in Pods, Probe(p) PROVE EpochInv'
  <2>1. op'.pc = op.pc /\ op'.snap = op.snap /\ op'.epoch = op.epoch
    BY <1>0, <1>7 DEF Probe, Passes
  <2> QED BY <1>2, <1>7, <2>1 DEF Probe, PassIsAhead
<1>8. CASE DecideOnGather
  <2>1. op.snap \in [Pods -> PodObjects]
    BY <1>0 DEF Passes
  <2>2. \A p \in Pods : pod[p].role # "none" =>
           op.snap[p].exists /\ op.snap[p].role # "none" /\ pod[p].epoch =< op.snap[p].epoch
    BY <1>8 DEF DecideOnGather, PassIsAhead
  <2> QED BY <1>3, <1>8, <2>1, <2>2 DEF DecideOnGather
<1>9. CASE ListFails
  BY <1>1, <1>2, <1>9, PassOver DEF ListFails
<1>10. CASE StampAssignments
  <2>1. PICK done \in SUBSET {p \in op.todo : pod[p].exists} :
           /\ pod' = [p \in Pods |-> IF p \in done THEN Stamped(p) ELSE pod[p]]
           /\ op' = AfterStamps(AllStamped(done))
           /\ UNCHANGED ctr
    BY <1>10 DEF StampAssignments
  <2>2. op.epoch \in Nat /\ \A p \in Pods : pod[p].epoch < op.epoch
    BY <1>0, <1>10 DEF StampAssignments, PassIsAhead, Passes
  <2>3. ASSUME NEW p \in Pods
        PROVE  /\ Stamped(p).exists = pod[p].exists
               /\ Stamped(p).role = IF p = op.target THEN "master" ELSE "replica"
               /\ p = op.target => Stamped(p).epoch = op.epoch
               /\ pod[p].epoch =< Stamped(p).epoch
    <3>1. pod[p] \in PodObjects
      BY <1>0
    <3>2. CASE p = op.target
      <4>1. /\ Stamped(p).exists = pod[p].exists /\ Stamped(p).role = "master"
            /\ Stamped(p).epoch = op.epoch
        BY <3>1, <3>2 DEF Stamped, PodObjects
      <4> QED BY <1>0, <2>2, <3>2, <4>1
    <3>3. CASE p # op.target
      <4>1. /\ Stamped(p).exists = pod[p].exists /\ Stamped(p).role = "replica"
            /\ Stamped(p).epoch = IF p \in op.fresh /\ op.epoch > 1 THEN op.epoch - 1 ELSE op.epoch
        BY <3>1, <3>3 DEF Stamped, PodObjects
      <4> QED BY <1>0, <2>2, <3>3, <4>1
    <3> QED BY <3>2, <3>3
  <2>4. \A p \in Pods : /\ pod'[p].exists = pod[p].exists
                        /\ pod[p].epoch =< pod'[p].epoch
                        /\ pod'[p].epoch \in Nat
                        /\ pod'[p] # pod[p] => pod[p].exists /\ pod'[p].role # "none"
    <3>1. ASSUME NEW p \in Pods
          PROVE  pod[p].epoch \in Nat /\ Stamped(p).epoch \in Nat
      <4>1. pod[p].epoch \in Nat /\ op.epoch \in Nat
        BY <1>0, <2>2 DEF PodObjects
      <4>2. pod[p] \in PodObjects
        BY <1>0
      <4> QED BY <4>1, <4>2 DEF Stamped, PodObjects
    <3>2. ASSUME NEW p \in Pods, p \in done
          PROVE  pod'[p] = Stamped(p) /\ pod[p].exists
      BY <2>1, <3>2
    <3>3. ASSUME NEW p \in Pods, p \notin done PROVE pod'[p] = pod[p]
      BY <2>1, <3>3
    <3> QED BY <2>3, <3>1, <3>2, <3>3
  <2>5. EpochsFlowDown'
    <3>1. \A p \in Pods : ctr[p].marker \in Nat /\ ctr[p].file.epoch \in Nat
      BY DEF TypeOK, Containers, Assignments
    <3>2. ASSUME NEW p \in Pods
          PROVE  ctr[p].marker =< ctr[p].file.epoch /\ ctr[p].file.epoch =< pod'[p].epoch
      <4>1. pod[p].epoch \in Nat /\ ctr[p].file.epoch =< pod[p].epoch
        BY <1>0 DEF PodObjects, EpochsFlowDown
      <4> QED BY <2>4, <3>1, <4>1 DEF EpochsFlowDown
    <3>3. \A p \in Pods : /\ pod'[p].role = "none" => pod'[p].epoch = 0
                          /\ ~pod'[p].exists => pod'[p].role = "none"
      BY <2>4 DEF EpochsFlowDown
    <3> QED BY <2>1, <3>2, <3>3 DEF EpochsFlowDown
  <2>6. \A p \in Pods : pod'[p].role = "master" =>
           pod'[p] = pod[p] \/ (p = op.target /\ pod'[p].epoch = op.epoch)
    BY <2>1, <2>3
  <2>7. OneMasterPerEpoch'
    BY <1>0, <2>2, <2>6 DEF OneMasterPerEpoch
  <2>8. op'.pc \notin {"stamp", "repoint", "gather"}
    BY <1>0, <1>1, <2>1 DEF AfterStamps, AfterPromotion, Passes
  <2> QED BY <2>5, <2>7, <2>8, PassOver
<1>11. CASE PromoteMaster
  <2>1. op'.pc \notin {"stamp", "repoint", "gather"}
    BY <1>0, <1>1, <1>11 DEF PromoteMaster, AfterPromotion, Passes
  <2> QED BY <1>2, <1>11, <2>1, PassOver DEF PromoteMaster
<1>12. CASE FenceOutgoingMaster
  <2>1. op'.pc = "mark"
    BY <1>0, <1>12 DEF FenceOutgoingMaster, Passes
  <2> QED BY <1>2, <1>12, <2>1, PassOver DEF FenceOutgoingMaster
<1>13. CASE RepointStragglers
  <2>1. op'.pc \in {"stamp", "label"} /\ op'.epoch = op.epoch
    BY <1>0, <1>13 DEF RepointStragglers, HealStep, Passes
  <2>2. PassIsAhead'
    BY <1>13, <2>1 DEF RepointStragglers, PassIsAhead
  <2> QED BY <1>2, <1>13, <2>2 DEF RepointStragglers
<1>14. CASE MarkTransition
  <2>1. op'.pc \notin {"stamp", "repoint", "gather"}
    BY <1>0, <1>1, <1>14 DEF MarkTransition, Passes
  <2> QED BY <1>2, <1>14, <2>1, PassOver DEF MarkTransition
<1>15. CASE ClearBootstrapFlag
  <2>1. op'.pc \notin {"stamp", "repoint", "gather"}
    BY <1>0, <1>1, <1>15 DEF ClearBootstrapFlag, Passes
  <2> QED BY <1>2, <1>15, <2>1, PassOver DEF ClearBootstrapFlag
<1>16. CASE UpdateLabels
  <2>1. SameAssignments
    BY <1>0, <1>16 DEF UpdateLabels, SameAssignments, PodObjects
  <2>2. SameGate /\ op'.pc \in {"idle", "status"}
    BY <1>0, <1>1, <1>16 DEF UpdateLabels, SameGate, Passes
  <2> QED BY <2>1, <2>2, PassOver, EpochsKept
<1>17. CASE InitBootstrapFlag
  BY <1>2, <1>17 DEF InitBootstrapFlag, PassIsAhead
<1>18. CASE BootstrapWaits
  BY <1>1, <1>2, <1>18, PassOver DEF BootstrapWaits
<1>19. CASE UpdateStatus
  BY <1>1, <1>2, <1>19, PassOver DEF UpdateStatus
<1> QED BY <1>4, <1>5, <1>6, <1>7, <1>8, <1>9, <1>10, <1>11, <1>12, <1>13, <1>14, <1>15, <1>16, <1>17,
           <1>18, <1>19
        DEF OperatorStep

\* A starting point with one master, whose markers do not exceed its epochs.
LEMMA EpochsUnder ==
  ASSUME NEW a, NEW k, pod = PodsUnder(a, k), ctr = ContainersUnder(a, k),
         \A p \in Pods : k[p] =< a[p].epoch /\ a[p].role # "none",
         \A p, q \in Pods : a[p].role = "master" /\ a[q].role = "master" => p = q,
         \A p \in Pods : a[p].epoch \in Nat
  PROVE  EpochsFlowDown /\ OneMasterPerEpoch
<1>1. \A p \in Pods : /\ pod[p].exists /\ pod[p].role = a[p].role /\ pod[p].epoch = a[p].epoch
                      /\ ctr[p].marker = k[p] /\ ctr[p].file = a[p]
  BY DEF PodsUnder, ContainersUnder
<1>2. EpochsFlowDown
  BY <1>1 DEF EpochsFlowDown
<1>3. OneMasterPerEpoch
  BY <1>1 DEF OneMasterPerEpoch
<1> QED BY <1>2, <1>3

\* Every starting point satisfies the epoch invariant.
LEMMA InitEpochs == Init => EpochInv
<1> SUFFICES ASSUME Init PROVE EpochInv
  OBVIOUS
<1>1. TypeOK
  BY InitType
<1>2. PassIsAhead
  BY DEF Init, IdleOp, PassIsAhead
<1>3. ASSUME NewInstance PROVE EpochsFlowDown /\ OneMasterPerEpoch
  BY SMTT(20), <1>3 DEF NewInstance, PendingPod, NewContainer, NoAssignment, EpochsFlowDown, OneMasterPerEpoch
<1>4. ASSUME SettledInstance PROVE EpochsFlowDown /\ OneMasterPerEpoch
  <2> DEFINE a == [p \in Pods |-> IF p = 0 THEN Assign("master", NoIP, 1, 1)
                                ELSE Assign("replica", <<0, 1>>, 1, 0)]
             k == [p \in Pods |-> 1]
  <2>1. pod = PodsUnder(a, k) /\ ctr = ContainersUnder(a, k)
    BY <1>4 DEF SettledInstance, Converged
  <2>2. \A p \in Pods : k[p] =< a[p].epoch /\ a[p].role # "none" /\ a[p].epoch \in Nat
    BY DEF Assign
  <2>3. \A p, q \in Pods : a[p].role = "master" /\ a[q].role = "master" => p = q
    BY DEF Assign
  <2> HIDE DEF a, k
  <2> QED BY <2>1, <2>2, <2>3, EpochsUnder
<1>5. ASSUME FailedOverInstance PROVE EpochsFlowDown /\ OneMasterPerEpoch
  <2> DEFINE a == [p \in Pods |-> CASE p = 0 -> Assign("replica", <<1, 1>>, 3, 1)
                                  [] p = 1 -> Assign("master", NoIP, 2, 0)
                                  [] OTHER -> Assign("replica", <<1, 1>>, 2, 0)]
             k == [p \in Pods |-> IF p = 0 THEN 3 ELSE 1]
  <2>1. pod = PodsUnder(a, k) /\ ctr = ContainersUnder(a, k)
    BY <1>5 DEF FailedOverInstance, Converged
  <2>2. \A p \in Pods : k[p] =< a[p].epoch /\ a[p].role # "none" /\ a[p].epoch \in Nat
    BY DEF Assign
  <2>3. \A p, q \in Pods : a[p].role = "master" /\ a[q].role = "master" => p = q
    BY DEF Assign
  <2> HIDE DEF a, k
  <2> QED BY <2>1, <2>2, <2>3, EpochsUnder
<1>6. ASSUME NEW m \in Nat, PartitionedInstance(m) PROVE EpochsFlowDown /\ OneMasterPerEpoch
  <2> DEFINE a == [p \in Pods |-> IF p = m THEN Assign("master", NoIP, m + 1, 0)
                             ELSE Assign("replica", <<m, 1>>, m + 1, IF p = 0 THEN 1 ELSE 0)]
             k == [p \in Pods |-> 1]
  <2>1. pod = PodsUnder(a, k) /\ ctr = ContainersUnder(a, k)
    BY <1>6 DEF PartitionedInstance, Converged
  <2>2. \A p \in Pods : k[p] =< a[p].epoch /\ a[p].role # "none" /\ a[p].epoch \in Nat
    BY <1>6 DEF Assign
  <2>3. \A p, q \in Pods : a[p].role = "master" /\ a[q].role = "master" => p = q
    BY DEF Assign
  <2> HIDE DEF a, k
  <2> QED BY <2>1, <2>2, <2>3, EpochsUnder
<1>7. PICK sc \in Scenarios : StartAt(sc.start)
  BY DEF Init
<1> QED BY Zenon, <1>1, <1>2, <1>3, <1>4, <1>5, <1>6, <1>7, ScenariosAssumption
        DEF StartAt, StartingPoints, EpochInv

\* Every step keeps it.
LEMMA NextEpochs ==
  ASSUME EpochInv, Countable, [Next]_vars
  PROVE  EpochInv'
<1>1. TypeOK'
  BY NextType DEF EpochInv
<1>2. ASSUME OperatorStep PROVE EpochInv'
  BY <1>1, <1>2, OperatorEpochs
<1>3. ASSUME NEW p \in Pods, PodStep(p) \/ Environment(p) PROVE EpochInv'
  BY <1>1, <1>3, PodEpochs
<1>4. ASSUME WindowElapses \/ CooldownEnds PROVE EpochInv'
  <2>1. SameAssignments /\ SameGate /\ op' = op
    BY <1>4 DEF WindowElapses, CooldownEnds, SameAssignments, SameGate
  <2> QED BY <1>1, <2>1, EpochsKept, PassKept
<1>5. ASSUME OperatorCrash PROVE EpochInv'
  <2>1. SameAssignments /\ SameGate /\ op'.pc = "idle"
    BY <1>5 DEF OperatorCrash, SameAssignments, SameGate, IdleOp
  <2> QED BY <1>1, <2>1, EpochsKept, PassOver
<1>6. ASSUME UNCHANGED vars PROVE EpochInv'
  <2>1. SameAssignments /\ SameGate /\ op' = op
    BY <1>6 DEF vars, SameAssignments, SameGate
  <2> QED BY <1>1, <2>1, EpochsKept, PassKept
<1> QED BY <1>2, <1>3, <1>4, <1>5, <1>6 DEF Next

\* The epoch of a pod object that exists does not decrease in this step.
Grow == \A p \in Pods : pod'[p].exists => pod'[p].epoch >= pod[p].epoch

\* Only a stamp and a new pod object change an epoch.
LEMMA NextGrows ==
  ASSUME EpochInv, [Next]_vars
  PROVE  [Grow]_vars
<1> USE DEF Grow
<1>0. pod \in [Pods -> PodObjects] /\ \A p \in Pods : pod[p].epoch \in Nat
  BY DEF EpochInv, TypeOK, PodObjects
<1>1. ASSUME SameAssignments PROVE Grow
  BY <1>0, <1>1 DEF SameAssignments
<1>2. ASSUME UNCHANGED pod PROVE Grow
  BY <1>0, <1>2
<1>3. CASE OperatorStep
  <2>1. CASE StampAssignments
    <3>1. PICK done \in SUBSET op.todo :
             pod' = [p \in Pods |-> IF p \in done THEN Stamped(p) ELSE pod[p]]
      BY <2>1 DEF StampAssignments
    <3>2. op.epoch \in Nat /\ \A p \in Pods : pod[p].epoch < op.epoch
      BY <2>1 DEF StampAssignments, EpochInv, TypeOK, Passes, PassIsAhead
    <3>3. ASSUME NEW p \in Pods PROVE Stamped(p).epoch >= pod[p].epoch
      <4>1. pod[p] \in PodObjects /\ pod[p].epoch \in Nat
        BY <1>0
      <4>2. Stamped(p).epoch \in {op.epoch, op.epoch - 1}
        BY <4>1 DEF Stamped, PodObjects
      <4> QED BY <3>2, <4>1, <4>2
    <3> QED BY <1>0, <3>1, <3>3
  <2>2. CASE UpdateLabels
    <3>1. SameAssignments
      BY <1>0, <2>2 DEF UpdateLabels, SameAssignments, PodObjects
    <3> QED BY <1>1, <3>1
  <2>3. CASE ~StampAssignments /\ ~UpdateLabels
    <3>1. UNCHANGED pod
      BY Zenon, <1>3, <2>3 DEF OperatorStep, BootstrapFailover, ReconcileAssignments, ListPods, Probe,
            DecideOnGather, ListFails, PromoteMaster, FenceOutgoingMaster, RepointStragglers,
            MarkTransition, ClearBootstrapFlag, InitBootstrapFlag, BootstrapWaits, UpdateStatus
    <3> QED BY <1>2, <3>1
  <2> QED BY <2>1, <2>2, <2>3
<1>4. ASSUME NEW p \in Pods, PodStep(p) \/ Environment(p) PROVE Grow
  <2>1. CASE PodGone(p)
    <3>1. pod' = [pod EXCEPT ![p] = AbsentPod] /\ ~AbsentPod.exists
      BY <2>1 DEF PodGone, AbsentPod, PendingPod
    <3> QED BY <1>0, <3>1
  <2>2. CASE Recreate(p)
    <3>1. pod' = [pod EXCEPT ![p] = PendingPod] /\ PendingPod.epoch = 0
      BY <2>2 DEF Recreate, PendingPod
    <3>2. pod[p].epoch = 0
      BY <2>2 DEF Recreate, EpochInv, EpochsFlowDown
    <3> QED BY <1>0, <3>1, <3>2
  <2>3. CASE AssignIP(p) \/ ReportStatus(p) \/ DeletePod(p)
    <3>1. pod[p] \in PodObjects
      BY <1>0
    <3>2. SameAssignments
      BY <1>0, <2>3, <3>1 DEF AssignIP, ReportStatus, DeletePod, SameAssignments, PodObjects
    <3> QED BY <1>1, <3>2
  <2>4. CASE \/ Project(p) \/ StartRedis(p) \/ StartOnTornRead(p) \/ Sync(p) \/ LinkLost(p)
             \/ Write(p) \/ KillContainer(p) \/ PreStopFence(p) \/ Cut(p) \/ Heal(p)
    <3>1. UNCHANGED pod
      BY Zenon, <2>4 DEF Project, StartRedis, StartOnTornRead, Sync, LinkLost, Write, KillContainer,
                  PreStopFence, Cut, Heal
    <3> QED BY <1>2, <3>1
  <2> QED BY <1>4, <2>1, <2>2, <2>3, <2>4 DEF PodStep, Environment
<1>5. CASE WindowElapses \/ CooldownEnds \/ OperatorCrash
  <2>1. UNCHANGED pod
    BY <1>5 DEF WindowElapses, CooldownEnds, OperatorCrash
  <2> QED BY <1>2, <2>1
<1>6. CASE UNCHANGED vars
  BY <1>6
<1> QED BY <1>3, <1>4, <1>5, <1>6 DEF Next

----------------------------------------------------------------------------
(***************************************************************************)
(* Whom the commands of a pass reach.  A pass promotes, fences and         *)
(* repoints by address, some time after it read the annotations, while     *)
(* pods come and go.  An address belongs to one incarnation of one pod for *)
(* good, only the pass itself writes assignments, and a pod that goes      *)
(* takes its assignment with it: so what an address stood for in the list  *)
(* it still stands for, or nobody answers there any more.                  *)
(***************************************************************************)

\* A process that does not run has no role.
Stopped == \A p \in Pods : ~redis[p].up => redis[p].role = "none"

\* An address names the pod and its incarnation.
Addressed ==
    \A p \in Pods : pod[p].ip # NoIP => pod[p].exists /\ pod[p].ip = <<p, ctr[p].inc>>

\* i is the address of this or of an earlier incarnation of p.
Had(i, p) == i[1] = p /\ i[2] =< ctr[p].inc

\* What a pod list s and the probes n made from it still say about the pods.
Snapshot(s, n) ==
    \A p \in Pods :
        /\ s[p].ip # NoIP => Had(s[p].ip, p)
        /\ n[p].probed => n[p].ip = s[p].ip /\ Stampable(s[p])
        /\ pod[p].role # "none" =>
             s[p].exists /\ pod[p].role = s[p].role /\ pod[p].epoch = s[p].epoch
        /\ pod[p].ip # NoIP /\ pod[p].ip = s[p].ip =>
             /\ pod[p].role = s[p].role /\ pod[p].epoch = s[p].epoch
             /\ s[p].terminating => pod[p].terminating

Gathered ==
    op.pc = "gather" =>
        Snapshot(op.snap, op.nodes) /\ \A p \in op.toProbe : Stampable(op.snap[p])

\* A pass that will promote is about to stamp the pod it will promote.
Aimed ==
    op.pc = "stamp" /\ op.promote =>
        /\ op.target \in op.todo /\ op.stragglers = {}
        /\ op.tip # NoIP /\ Had(op.tip, op.target)

\* The pod that answers at the address of the new, or the living, master is the
\* one the annotations name.
Named ==
    op.pc \in {"promote", "repoint"} =>
        /\ op.tip # NoIP /\ op.tip \notin op.stragglers /\ Had(op.tip, op.tip[1])
        /\ \A p \in Pods : pod[p].ip = op.tip => IsIntendedMaster(pod, p)
        /\ op.pc = "repoint" => ~op.promote /\ op.fence = NoIP

\* The pod at the outgoing master's address is terminating, or it is, or is
\* about to be, assigned replica.
Fenced ==
    op.pc \in {"stamp", "promote", "fence"} /\ op.fence # NoIP =>
        /\ Had(op.fence, op.fence[1])
        /\ \A p \in Pods : pod[p].ip = op.fence =>
             \/ pod[p].terminating
             \/ IF op.pc = "stamp" THEN p \in op.todo \ {op.target} ELSE pod[p].role = "replica"

IntentInv == EpochInv /\ Stopped /\ Addressed /\ Gathered /\ Aimed /\ Named /\ Fenced

\* No step of a pass demotes the pod that the annotations name at that moment,
\* unless that pod is terminating, or the living master that the pass repoints
\* the others to has gone since the pass listed it.
DemotionsSpare ==
    [][\A p \in Pods : redis[p].role = "master" /\ redis'[p].role = "slave" =>
         \/ pod[p].terminating \/ ~IsIntendedMaster(pod, p)
         \/ op.pc = "repoint" /\ \A q \in Pods : pod[q].ip # op.tip]_vars

----------------------------------------------------------------------------
(* The intent while pods come and go.                                      *)

\* Where assignments only disappear, the intended master stays the intended
\* master for as long as it is there.
LEMMA StillIntended ==
    ASSUME NEW s, DOMAIN s = Pods, NEW t, DOMAIN t = Pods, NEW m \in Pods,
           IsIntendedMaster(s, m), t[m].exists, t[m].role = "master",
           \A p \in Pods : t[p].role # "none" =>
              s[p].exists /\ t[p].role = s[p].role /\ t[p].epoch = s[p].epoch
    PROVE  IsIntendedMaster(t, m)
<1>1. m # NoPod
  BY ReplicasAssumption DEF Pods, NoPod
<1>2. m \in Masters(t) /\ Masters(t) \subseteq Masters(s)
  BY DEF Masters, Assigned, Listed
<1>3. \A p \in Masters(t) : p \in Pods /\ t[p].epoch = s[p].epoch
  BY DEF Masters, Assigned, Listed
<1>4. \A q \in Masters(s) \ {m} :
        s[q].epoch < s[m].epoch \/ (s[q].epoch = s[m].epoch /\ m < q)
  BY <1>1 DEF IsIntendedMaster
<1> QED BY <1>2, <1>3, <1>4 DEF IsIntendedMaster

\* One pod is intended at most.
LEMMA IntendedIsOne ==
    ASSUME EpochInv, NEW p \in Pods, NEW q \in Pods,
           IsIntendedMaster(pod, p), IsIntendedMaster(pod, q)
    PROVE  p = q
<1>1. p # NoPod /\ q # NoPod
  BY ReplicasAssumption DEF Pods, NoPod
<1>2. p \in Masters(pod) /\ q \in Masters(pod)
  BY <1>1 DEF IsIntendedMaster
<1>3. pod[p].epoch \in Nat /\ pod[q].epoch \in Nat
  BY DEF EpochInv, TypeOK, PodObjects
<1>4. p # q => /\ pod[q].epoch < pod[p].epoch \/ (pod[q].epoch = pod[p].epoch /\ p < q)
               /\ pod[p].epoch < pod[q].epoch \/ (pod[p].epoch = pod[q].epoch /\ q < p)
  BY <1>1, <1>2 DEF IsIntendedMaster
<1>5. p \in Int /\ q \in Int
  BY ReplicasAssumption DEF Pods
<1> QED BY <1>3, <1>4, <1>5

\* What the steps of pods and their controllers may do to the pod objects.
Churn ==
    \A p \in Pods :
        /\ ctr'[p].inc >= ctr[p].inc
        /\ pod'[p].role # "none" => pod'[p].role = pod[p].role /\ pod'[p].epoch = pod[p].epoch
        /\ pod'[p].ip # NoIP =>
             \/ /\ pod'[p].ip = pod[p].ip /\ pod'[p].role = pod[p].role
                /\ pod'[p].epoch = pod[p].epoch /\ (pod[p].terminating => pod'[p].terminating)
             \/ pod'[p].ip = <<p, ctr'[p].inc>> /\ ctr'[p].inc > ctr[p].inc

\* An address that pod q has or had is no new address of p.
LEMMA NotReused ==
    ASSUME TypeOK, TypeOK', Churn, NEW i \in IPs \ {NoIP}, Had(i, i[1]), NEW p \in Pods, pod'[p].ip = i
    PROVE  /\ pod[p].ip = i /\ pod'[p].role = pod[p].role /\ pod'[p].epoch = pod[p].epoch
           /\ pod[p].terminating => pod'[p].terminating
<1>1. ctr[p].inc \in Nat /\ ctr'[p].inc \in Nat
  BY DEF TypeOK, Containers
<1>2. CASE i = <<p, ctr'[p].inc>> /\ ctr'[p].inc > ctr[p].inc
  <2>1. i[1] = p /\ i[2] = ctr'[p].inc
    BY <1>2
  <2>2. i[2] =< ctr[p].inc
    BY <2>1 DEF Had
  <2> QED BY <1>1, <1>2, <2>1, <2>2
<1> QED BY Zenon, <1>2 DEF Churn

LEMMA HadStays ==
    ASSUME TypeOK, TypeOK', Churn, NEW i \in IPs \ {NoIP}, Had(i, i[1])
    PROVE  Had(i, i[1])'
<1>1. i[1] \in Pods /\ i[2] \in Nat
  BY DEF IPs
<1>2. ctr[i[1]].inc \in Nat /\ ctr'[i[1]].inc \in Nat /\ ctr'[i[1]].inc >= ctr[i[1]].inc
  BY <1>1 DEF TypeOK, Containers, Churn
<1> QED BY <1>1, <1>2 DEF Had

LEMMA ChurnKeeps ==
    ASSUME IntentInv, EpochInv', op' = op, Churn, Addressed'
    PROVE  Gathered' /\ Aimed' /\ Named' /\ Fenced'
<1>0. TypeOK /\ TypeOK' /\ EpochsFlowDown /\ EpochsFlowDown'
  BY DEF IntentInv, EpochInv
<1>1. /\ op \in Passes /\ pod \in [Pods -> PodObjects] /\ pod' \in [Pods -> PodObjects]
  BY <1>0 DEF TypeOK
<1>2. \A p \in Pods : pod'[p].role # "none" =>
        pod[p].exists /\ pod'[p].role = pod[p].role /\ pod'[p].epoch = pod[p].epoch
  BY <1>0 DEF Churn, EpochsFlowDown
<1>3. Gathered'
  <2> SUFFICES ASSUME op.pc = "gather"
               PROVE  /\ Snapshot(op.snap, op.nodes)'
                      /\ \A p \in op.toProbe : Stampable(op.snap[p])
    BY DEF Gathered, Stampable
  <2>1. Snapshot(op.snap, op.nodes) /\ \A p \in op.toProbe : Stampable(op.snap[p])
    BY DEF IntentInv, Gathered
  <2>2. ASSUME NEW p \in Pods
        PROVE  /\ op.snap[p].ip # NoIP => Had(op.snap[p].ip, p)'
               /\ op.nodes[p].probed => op.nodes[p].ip = op.snap[p].ip /\ Stampable(op.snap[p])
               /\ pod'[p].role # "none" => /\ op.snap[p].exists /\ pod'[p].role = op.snap[p].role
                                           /\ pod'[p].epoch = op.snap[p].epoch
               /\ pod'[p].ip # NoIP /\ pod'[p].ip = op.snap[p].ip =>
                     /\ pod'[p].role = op.snap[p].role /\ pod'[p].epoch = op.snap[p].epoch
                     /\ op.snap[p].terminating => pod'[p].terminating
    <3>1. /\ op.snap[p].ip # NoIP => Had(op.snap[p].ip, p)
          /\ op.nodes[p].probed => op.nodes[p].ip = op.snap[p].ip /\ Stampable(op.snap[p])
          /\ pod[p].role # "none" =>
               op.snap[p].exists /\ pod[p].role = op.snap[p].role /\ pod[p].epoch = op.snap[p].epoch
          /\ pod[p].ip # NoIP /\ pod[p].ip = op.snap[p].ip =>
               /\ pod[p].role = op.snap[p].role /\ pod[p].epoch = op.snap[p].epoch
               /\ op.snap[p].terminating => pod[p].terminating
      BY <2>1 DEF Snapshot
    <3>2. op.snap[p].ip \in IPs
      BY <1>1 DEF Passes, PodObjects
    <3>3. op.snap[p].ip # NoIP => op.snap[p].ip[1] = p /\ Had(op.snap[p].ip, op.snap[p].ip[1])
      BY <3>1 DEF Had
    <3>4. op.snap[p].ip # NoIP => Had(op.snap[p].ip, p)'
      BY <1>0, <3>2, <3>3, HadStays
    <3>5. pod'[p].role # "none" => /\ op.snap[p].exists /\ pod'[p].role = op.snap[p].role
                                   /\ pod'[p].epoch = op.snap[p].epoch
      BY <1>2, <3>1
    <3>6. pod'[p].ip # NoIP /\ pod'[p].ip = op.snap[p].ip =>
                     /\ pod'[p].role = op.snap[p].role /\ pod'[p].epoch = op.snap[p].epoch
                     /\ op.snap[p].terminating => pod'[p].terminating
      BY <1>0, <3>1, <3>2, <3>3, NotReused
    <3> QED BY <3>1, <3>4, <3>5, <3>6
  <2>3. Snapshot(op.snap, op.nodes)'
    BY <2>2 DEF Snapshot, Stampable
  <2> QED BY <2>1, <2>3
<1>4. Aimed'
  <2> SUFFICES ASSUME op.pc = "stamp", op.promote
               PROVE  /\ op.target \in op.todo /\ op.stragglers = {}
                      /\ op.tip # NoIP /\ Had(op.tip, op.target)'
    BY DEF Aimed, Had
  <2>1. /\ op.target \in op.todo /\ op.stragglers = {}
        /\ op.tip # NoIP /\ Had(op.tip, op.target)
    BY DEF IntentInv, Aimed
  <2>2. op.tip \in IPs /\ op.tip[1] = op.target
    BY <1>1, <2>1 DEF Passes, Had
  <2> QED BY <1>0, <2>1, <2>2, HadStays
<1>5. Named'
  <2> SUFFICES ASSUME op.pc \in {"promote", "repoint"}
               PROVE  /\ op.tip # NoIP /\ op.tip \notin op.stragglers /\ Had(op.tip, op.tip[1])'
                      /\ \A p \in Pods : pod'[p].ip = op.tip => IsIntendedMaster(pod', p)
                      /\ op.pc = "repoint" => ~op.promote /\ op.fence = NoIP
    BY DEF Named, Had
  <2>1. /\ op.tip # NoIP /\ op.tip \notin op.stragglers /\ Had(op.tip, op.tip[1])
        /\ \A p \in Pods : pod[p].ip = op.tip => IsIntendedMaster(pod, p)
        /\ op.pc = "repoint" => ~op.promote /\ op.fence = NoIP
    BY DEF IntentInv, Named
  <2>2. op.tip \in IPs
    BY <1>1 DEF Passes
  <2>3. Had(op.tip, op.tip[1])'
    BY <1>0, <2>1, <2>2, HadStays
  <2>4. ASSUME NEW p \in Pods, pod'[p].ip = op.tip PROVE IsIntendedMaster(pod', p)
    <3>1. pod[p].ip = op.tip /\ pod'[p].role = pod[p].role
      BY <1>0, <2>1, <2>2, <2>4, NotReused
    <3>2. IsIntendedMaster(pod, p)
      BY <2>1, <3>1
    <3>3. pod[p].role = "master"
      BY <3>2, ReplicasAssumption DEF IsIntendedMaster, Masters, Pods, NoPod
    <3>4. pod'[p].exists
      BY <2>1, <2>4 DEF Addressed
    <3> QED BY <1>1, <1>2, <3>1, <3>2, <3>3, <3>4, StillIntended
  <2> QED BY <2>1, <2>3, <2>4
<1>6. Fenced'
  <2> SUFFICES ASSUME op.pc \in {"stamp", "promote", "fence"}, op.fence # NoIP
               PROVE  /\ Had(op.fence, op.fence[1])'
                      /\ \A p \in Pods : pod'[p].ip = op.fence =>
                           \/ pod'[p].terminating
                           \/ IF op.pc = "stamp" THEN p \in op.todo \ {op.target}
                              ELSE pod'[p].role = "replica"
    BY DEF Fenced, Had
  <2>1. /\ Had(op.fence, op.fence[1])
        /\ \A p \in Pods : pod[p].ip = op.fence =>
             \/ pod[p].terminating
             \/ IF op.pc = "stamp" THEN p \in op.todo \ {op.target} ELSE pod[p].role = "replica"
    BY DEF IntentInv, Fenced
  <2>2. op.fence \in IPs
    BY <1>1 DEF Passes
  <2>3. Had(op.fence, op.fence[1])'
    BY <1>0, <2>1, <2>2, HadStays
  <2>4. ASSUME NEW p \in Pods, pod'[p].ip = op.fence
        PROVE  \/ pod'[p].terminating
               \/ IF op.pc = "stamp" THEN p \in op.todo \ {op.target} ELSE pod'[p].role = "replica"
    <3>1. /\ pod[p].ip = op.fence /\ pod'[p].role = pod[p].role
          /\ pod[p].terminating => pod'[p].terminating
      BY <1>0, <2>1, <2>2, <2>4, NotReused
    <3> QED BY <2>1, <3>1
  <2> QED BY <2>3, <2>4
<1> QED BY <1>3, <1>4, <1>5, <1>6

\* The pod objects and the incarnations are as they were, but for readiness,
\* restarts, labels and a deletion mark.
LEMMA QuietChurn ==
    ASSUME TypeOK, TypeOK', Addressed,
           \A q \in Pods : /\ pod'[q].exists = pod[q].exists /\ pod'[q].ip = pod[q].ip
                           /\ pod'[q].role = pod[q].role /\ pod'[q].epoch = pod[q].epoch
                           /\ pod[q].terminating => pod'[q].terminating
                           /\ ctr'[q].inc = ctr[q].inc
    PROVE  Churn /\ Addressed'
<1>1. \A q \in Pods : ctr[q].inc \in Nat /\ ctr'[q].inc \in Nat
  BY DEF TypeOK, Containers
<1>2. Churn
  BY <1>1 DEF Churn
<1>3. Addressed'
  BY DEF Addressed
<1> QED BY <1>2, <1>3

LEMMA PodSteps ==
    ASSUME IntentInv, EpochInv', NEW p \in Pods, PodStep(p) \/ Environment(p)
    PROVE  Churn /\ Addressed' /\ op' = op
<1>0. TypeOK /\ TypeOK' /\ Addressed
  BY DEF IntentInv, EpochInv
<1>1. /\ pod \in [Pods -> PodObjects] /\ ctr \in [Pods -> Containers]
      /\ pod[p] \in PodObjects /\ ctr[p] \in Containers
      /\ \A q \in Pods : ctr[q].inc \in Nat /\ ctr'[q].inc \in Nat
  BY <1>0 DEF TypeOK, Containers
<1>2. CASE AssignIP(p)
  <2>1. /\ pod' = [pod EXCEPT ![p].ip = <<p, ctr[p].inc + 1>>]
        /\ ctr' = [ctr EXCEPT ![p] = NewContainer(ctr[p].inc + 1)] /\ op' = op
        /\ pod[p].exists
    BY <1>1, <1>2 DEF AssignIP
  <2>2. /\ pod'[p].ip = <<p, ctr[p].inc + 1>> /\ pod'[p].role = pod[p].role
        /\ pod'[p].epoch = pod[p].epoch /\ pod'[p].exists
        /\ ctr'[p].inc = ctr[p].inc + 1
    BY <1>1, <2>1 DEF PodObjects, NewContainer
  <2>3. \A q \in Pods \ {p} : pod'[q] = pod[q] /\ ctr'[q] = ctr[q]
    BY <1>1, <2>1
  <2>4. Churn
    <3>1. ASSUME NEW q \in Pods, q # p PROVE pod'[q] = pod[q] /\ ctr'[q] = ctr[q] /\ ctr[q].inc \in Nat
      BY <1>1, <2>3, <3>1 DEF TypeOK, Containers
    <3>2. ctr[p].inc \in Nat
      BY <1>1 DEF TypeOK, Containers
    <3> QED BY <2>2, <3>1, <3>2 DEF Churn
  <2>5. Addressed'
    BY <1>0, <2>2, <2>3 DEF Addressed
  <2> QED BY <2>1, <2>4, <2>5
<1>3. CASE PodGone(p) \/ Recreate(p)
  <2>1. /\ pod'[p].ip = NoIP /\ pod'[p].role = "none" /\ ctr'[p].inc = ctr[p].inc
        /\ op' = op /\ \A q \in Pods \ {p} : pod'[q] = pod[q] /\ ctr'[q] = ctr[q]
    BY <1>1, <1>3 DEF PodGone, Recreate, AbsentPod, PendingPod, NewContainer
  <2>2. Churn
    <3>1. \A q \in Pods : ctr[q].inc \in Nat /\ ctr'[q].inc = ctr[q].inc
      BY <1>1, <2>1
    <3>2. ASSUME NEW q \in Pods
          PROVE  pod'[q] = pod[q] \/ (pod'[q].role = "none" /\ pod'[q].ip = NoIP)
      BY <2>1
    <3> QED BY <3>1, <3>2 DEF Churn
  <2>3. Addressed'
    BY <1>0, <2>1 DEF Addressed
  <2> QED BY <2>1, <2>2, <2>3
<1>4. CASE ReportStatus(p) \/ DeletePod(p)
  <2>1. /\ pod'[p].exists = pod[p].exists /\ pod'[p].ip = pod[p].ip
        /\ pod'[p].role = pod[p].role /\ pod'[p].epoch = pod[p].epoch
        /\ pod[p].terminating => pod'[p].terminating
        /\ \A q \in Pods \ {p} : pod'[q] = pod[q]
        /\ ctr' = ctr /\ op' = op
    BY <1>1, <1>4 DEF ReportStatus, DeletePod, PodObjects
  <2> QED BY <1>0, <2>1, QuietChurn
<1>5. CASE Project(p) \/ StartRedis(p) \/ StartOnTornRead(p) \/ KillContainer(p)
  <2>1. pod' = pod /\ op' = op /\ \A q \in Pods : ctr'[q].inc = ctr[q].inc
    <3>1. CASE Project(p)
      BY <1>1, <3>1 DEF Project, Containers
    <3>2. CASE StartRedis(p)
      BY <1>1, <3>2 DEF StartRedis, Containers
    <3>3. CASE StartOnTornRead(p)
      BY <1>1, <3>3 DEF StartOnTornRead, Containers
    <3>4. CASE KillContainer(p)
      BY <1>1, <3>4 DEF KillContainer, Containers
    <3> QED BY <1>5, <3>1, <3>2, <3>3, <3>4
  <2> QED BY <1>0, <2>1, QuietChurn
<1>6. CASE Sync(p) \/ LinkLost(p) \/ Write(p) \/ PreStopFence(p) \/ Cut(p) \/ Heal(p)
  <2>1. pod' = pod /\ op' = op /\ ctr' = ctr
    BY Zenon, <1>6 DEF Sync, LinkLost, Write, PreStopFence, Cut, Heal
  <2> QED BY <1>0, <2>1, QuietChurn
<1> QED BY <1>2, <1>3, <1>4, <1>5, <1>6 DEF PodStep, Environment

LEMMA PodsStop ==
    ASSUME TypeOK, Stopped, NEW p \in Pods, PodStep(p) \/ Environment(p)
    PROVE  Stopped'
<1>1. redis \in [Pods -> Processes] /\ redis[p] \in Processes
  BY DEF TypeOK
<1>2. ASSUME \A q \in Pods \ {p} : redis'[q] = redis[q], ~redis'[p].up => redis'[p].role = "none"
      PROVE  Stopped'
  BY <1>2 DEF Stopped
<1>3. CASE \/ AssignIP(p) \/ Project(p) \/ ReportStatus(p) \/ Recreate(p) \/ DeletePod(p)
           \/ Cut(p) \/ Heal(p)
  BY <1>3 DEF AssignIP, Project, ReportStatus, Recreate, DeletePod, Cut, Heal, Stopped
<1>4. CASE KillContainer(p) \/ PodGone(p)
  <2>1. redis' = [redis EXCEPT ![p] = Down]
    BY <1>4 DEF KillContainer, PodGone
  <2> QED BY <1>1, <1>2, <2>1 DEF Down
<1>5. ASSUME NEW f, Exec(p, f) PROVE Stopped'
  <2>1. /\ [Down EXCEPT !.up = TRUE, !.role = "master", !.replid = FreshReplid].up
        /\ [Down EXCEPT !.up = TRUE, !.role = "slave", !.mhost = f.mip].up
    BY DEF Down
  <2>2. /\ \A q \in Pods \ {p} : redis'[q] = redis[q]
        /\ redis'[p].up
    BY <1>1, <1>5, <2>1 DEF Exec
  <2> QED BY <1>2, <2>2
<1>6. CASE StartRedis(p) \/ StartOnTornRead(p)
  BY <1>5, <1>6 DEF StartRedis, StartOnTornRead
<1>7. CASE Sync(p) \/ LinkLost(p) \/ Write(p) \/ PreStopFence(p)
  <2>1. redis'[p].up /\ \A q \in Pods \ {p} : redis'[q] = redis[q]
    <3>1. CASE Sync(p)
      <4>1. PICK q \in Pods : \E second \in {0, redis[q].replid2} :
               redis' = [redis EXCEPT ![p] =
                  [redis[p] EXCEPT !.link = "up", !.data = redis[q].data,
                                   !.replid = redis[q].replid, !.replid2 = second]]
        BY Zenon, <3>1 DEF Sync, At
      <4> QED BY <1>1, <3>1, <4>1 DEF Sync, Processes
    <3>2. CASE LinkLost(p)
      BY <1>1, <3>2 DEF LinkLost, Processes
    <3>3. CASE Write(p)
      BY <1>1, <3>3 DEF Write, Processes
    <3>4. CASE PreStopFence(p)
      BY <1>1, <3>4 DEF PreStopFence, Processes
    <3> QED BY <1>7, <3>1, <3>2, <3>3, <3>4
  <2> QED BY <1>2, <2>1
<1> QED BY <1>3, <1>4, <1>6, <1>7 DEF PodStep, Environment

----------------------------------------------------------------------------
(* The decisions of a pass.                                                *)

\* A pass that neither gathers nor is about to write or to command a role.
LEMMA QuietPass ==
    ASSUME op'.pc \notin {"gather", "stamp", "promote", "fence", "repoint"}
    PROVE  Gathered' /\ Aimed' /\ Named' /\ Fenced'
<1>1. Gathered'
  BY DEF Gathered
<1>2. Aimed'
  BY DEF Aimed
<1>3. Named'
  BY DEF Named
<1>4. Fenced'
  BY DEF Fenced
<1> QED BY <1>1, <1>2, <1>3, <1>4

\* A pod that has an address that p had is p.
LEMMA SamePod ==
    ASSUME TypeOK, Addressed, NEW i, i # NoIP, NEW p, Had(i, p), NEW q \in Pods, pod[q].ip = i
    PROVE  q = p
<1>1. pod[q].ip = <<q, ctr[q].inc>>
  BY Zenon DEF Addressed
<1> QED BY <1>1 DEF Had

\* The address under which a pass has probed the master of its list belongs to
\* the master that the annotations name now, or to nobody.
LEMMA ListedMaster ==
    ASSUME IntentInv, NEW s \in [Pods -> PodObjects], NEW n, Snapshot(s, n),
           NEW m \in Pods, IsIntendedMaster(s, m), n[m].probed
    PROVE  /\ n[m].ip # NoIP /\ Had(n[m].ip, n[m].ip[1])
           /\ \A p \in Pods : pod[p].ip = n[m].ip => IsIntendedMaster(pod, p)
<1>0. TypeOK /\ Addressed /\ pod \in [Pods -> PodObjects]
  BY DEF IntentInv, EpochInv, TypeOK
<1>1. /\ n[m].ip = s[m].ip /\ s[m].ip # NoIP /\ Had(s[m].ip, m)
      /\ \A p \in Pods : pod[p].role # "none" =>
           s[p].exists /\ pod[p].role = s[p].role /\ pod[p].epoch = s[p].epoch
      /\ pod[m].ip # NoIP /\ pod[m].ip = s[m].ip => pod[m].role = s[m].role
  BY DEF Snapshot, Stampable
<1>2. Had(n[m].ip, n[m].ip[1])
  BY <1>1 DEF Had
<1>3. s[m].role = "master"
  BY ReplicasAssumption DEF IsIntendedMaster, Masters, Pods, NoPod
<1>4. ASSUME NEW p \in Pods, pod[p].ip = n[m].ip PROVE IsIntendedMaster(pod, p)
  <2>1. p = m
    BY <1>0, <1>1, <1>4, SamePod
  <2>2. pod[m].exists /\ pod[m].role = "master"
    BY <1>0, <1>1, <1>3, <1>4, <2>1 DEF Addressed
  <2> QED BY <1>0, <1>1, <2>1, <2>2, StillIntended
<1> QED BY <1>1, <1>2, <1>4

\* An election that commands a promotion or a fence has probed its candidate.
LEMMA CandidateProbed ==
    ASSUME NEW n, NEW live, NEW unsettled, NEW plan, plan.action # "seed", plan.target # NoPod,
           plan \in planFailover(n, live, AllowUnsafe, unsettled, cr.cooling)
    PROVE  n[plan.target].probed
<1> DEFINE chosen(a) == {Plan(a, b) : b \in BestDataHolders(n)}
           seeds == {Plan("seed", q) : q \in BootstrapCandidates(n)}
<1>1. \/ plan \in {Plan("none", NoPod)} \/ plan \in {Plan("wait", NoPod)}
      \/ plan \in {Plan("refuseUnverified", NoPod)} \/ plan \in {Plan("refuse", NoPod)}
      \/ plan \in seeds \/ plan \in chosen("promote") \/ plan \in chosen("unsafeElect")
  BY Zenon DEF planFailover
<1>2. plan.target \in BestDataHolders(n)
  BY <1>1 DEF Plan
<1> QED BY <1>2 DEF BestDataHolders, DataHolders

LEMMA EngineIntent ==
    ASSUME IntentInv, NEW s \in [Pods -> PodObjects], NEW n \in [Pods -> Observations],
           Snapshot(s, n), Engine(s, n), pod' = pod, ctr' = ctr
    PROVE  Gathered' /\ Aimed' /\ Named' /\ Fenced'
<1>0. /\ TypeOK /\ Addressed /\ IdleOp \in Passes
      /\ IdleOp.pc = "idle" /\ IdleOp.stragglers = {} /\ IdleOp.fence = NoIP /\ IdleOp.promote = FALSE
      /\ \A x : ToLabel(x).pc = "label"
      /\ ToLabelNone.pc = "label"
  BY IdleOpType DEF IntentInv, EpochInv, IdleOp, ToLabel, ToLabelNone
<1>1. PICK m \in Pods \cup {NoPod}, e \in 0 .. MaxEpoch :
         /\ IsIntendedMaster(s, m)
         /\ \/ PassBeyondBound
            \/ ResumeTransition(n, m)
            \/ DetectionWindow(s, n, m)
            \/ NoFailover(s, n, m)
            \/ RefuseFailover(s, n, m)
            \/ ElectMaster(s, n, m, e)
            \/ HealReplicas(s, n, m, e)
  BY DEF Engine
<1>2. CASE PassBeyondBound \/ DetectionWindow(s, n, m) \/ NoFailover(s, n, m) \/ RefuseFailover(s, n, m)
  <2>1. op'.pc \in {"idle", "label"}
    BY <1>0, <1>2 DEF PassBeyondBound, DetectionWindow, NoFailover, RefuseFailover
  <2> QED BY <2>1, QuietPass
<1>3. CASE ResumeTransition(n, m)
  <2>1. m \in Pods /\ n[m].probed
    BY <1>1, <1>3 DEF ResumeTransition, NeedsPromotion, MasterReachable
  <2>2. /\ op'.pc = "promote" /\ op'.tip = n[m].ip /\ op'.stragglers = {} /\ op'.fence = NoIP
    BY <1>0, <1>3 DEF ResumeTransition, Passes
  <2>3. /\ n[m].ip # NoIP /\ Had(n[m].ip, n[m].ip[1])
        /\ \A p \in Pods : pod[p].ip = n[m].ip => IsIntendedMaster(pod, p)
    BY <1>1, <2>1, ListedMaster
  <2>4. Gathered' /\ Aimed' /\ Fenced'
    BY <2>2 DEF Gathered, Aimed, Fenced
  <2>5. Named'
    BY <2>2, <2>3 DEF Named, Had
  <2> QED BY <2>4, <2>5
<1>4. CASE ElectMaster(s, n, m, e)
  <2> DEFINE todo == {p \in Pods : Stampable(s[p])}
  <2>1. PICK plan \in [action : {"seed", "promote", "unsafeElect"}, target : Pods] :
           /\ Decision(s, n, m, plan)
           /\ op' = [IdleOp EXCEPT
                 !.pc = "stamp", !.action = plan.action, !.todo = todo,
                 !.target = plan.target, !.tip = n[plan.target].ip, !.epoch = NextEpoch(e),
                 !.promote = plan.action # "seed" /\ NeedsPromotion(n, plan.target),
                 !.fence = IF plan.action = "seed" THEN NoIP
                           ELSE planFailoverFence(s, IntendedIP(s, m), n[plan.target].ip)]
    BY Zenon, <1>4 DEF ElectMaster
  <2> DEFINE fence == IF plan.action = "seed" THEN NoIP
                      ELSE planFailoverFence(s, IntendedIP(s, m), n[plan.target].ip)
  <2>2. /\ op'.pc = "stamp" /\ op'.todo = todo /\ op'.target = plan.target
        /\ op'.tip = n[plan.target].ip /\ op'.fence = fence /\ op'.stragglers = {}
        /\ op'.promote = (plan.action # "seed" /\ NeedsPromotion(n, plan.target))
    BY <1>0, <2>1 DEF Passes
  <2>3. Gathered' /\ Named'
    BY <2>2 DEF Gathered, Named
  <2>4. Aimed'
    <3>1. ASSUME op'.promote
          PROVE  op'.target \in op'.todo /\ op'.tip # NoIP /\ Had(op'.tip, op'.target)
      <4>1. n[plan.target].probed /\ plan.target \in Pods
        BY Zenon, <2>2, <3>1 DEF NeedsPromotion, MasterReachable
      <4>2. /\ n[plan.target].ip = s[plan.target].ip /\ Stampable(s[plan.target])
            /\ s[plan.target].ip # NoIP => Had(s[plan.target].ip, plan.target)
        BY <4>1 DEF Snapshot
      <4> QED BY <2>2, <4>1, <4>2 DEF Stampable
    <3> QED BY <2>2, <3>1 DEF Aimed, Had
  <2>5. Fenced'
    <3>1. CASE fence = NoIP
      BY <2>2, <3>1 DEF Fenced
    <3>2. CASE fence # NoIP
      <4>1. plan.action # "seed" /\ fence = IntendedIP(s, m) /\ fence # n[plan.target].ip
        BY <3>2 DEF planFailoverFence
      <4>2. m \in Pods /\ fence = s[m].ip
        BY <3>2, <4>1 DEF IntendedIP
      <4>3. Had(fence, m) /\ Had(fence, fence[1])
        <5> HIDE DEF fence, todo
        <5>1. Had(fence, m)
          BY Zenon, <3>2, <4>2 DEF Snapshot
        <5> QED BY <5>1 DEF Had
      <4>4. n[plan.target].probed
        <5>1. plan.target # NoPod
          BY ReplicasAssumption DEF Pods, NoPod
        <5> QED BY <2>1, <4>1, <5>1, CandidateProbed DEF Decision
      <4>5. m # plan.target
        BY <4>1, <4>2, <4>4 DEF Snapshot
      <4>6. s[m].exists
        BY <1>1, <4>2, ReplicasAssumption DEF IsIntendedMaster, Masters, Assigned, Listed, Pods, NoPod
      <4>7. ASSUME NEW p \in Pods, pod[p].ip = fence
            PROVE  pod[p].terminating \/ p \in todo \ {plan.target}
        <5>1. p = m
          <6> HIDE DEF fence, todo
          <6> QED BY Zenon, <1>0, <3>2, <4>3, <4>7, SamePod
        <5>2. s[m].terminating => pod[m].terminating
          BY Zenon, <3>2, <4>2, <4>7, <5>1 DEF Snapshot
        <5> QED BY <3>2, <4>2, <4>5, <4>6, <5>1, <5>2 DEF Stampable
      <4> HIDE DEF fence, todo
      <4> QED BY <2>2, <4>3, <4>7 DEF Fenced, Had
    <3> QED BY <3>1, <3>2
  <2> QED BY <2>3, <2>4, <2>5
<1>5. CASE HealReplicas(s, n, m, e)
  <2> DEFINE live == LiveMaster(n, m)
             stragglers == {n[p].ip : p \in planFailoverRepoints(n, live)}
  <2>1. m \in Pods /\ n[m].probed /\ live = n[m].ip
    <3>1. ~NeedsPromotion(n, m) /\ MasterDeath(s, n, m) = "clearMarker"
      BY <1>5 DEF HealReplicas
    <3>2. cr.down \in {"none", "open", "elapsed"}
      BY Zenon, <1>0 DEF TypeOK, Statuses
    <3>3. m # NoPod /\ MasterReachable(n, m)
      BY <3>1, <3>2 DEF MasterDeath, planMasterDeath
    <3> QED BY <1>1, <3>1, <3>3 DEF NeedsPromotion, MasterReachable, LiveMaster
  <2>2. /\ op'.pc \in {"repoint", "stamp", "label"} /\ op'.tip = live
        /\ op'.stragglers = stragglers /\ op'.fence = NoIP /\ op'.promote = FALSE
    BY <1>0, <1>5 DEF HealReplicas, HealStep, Passes
  <2>3. live \notin stragglers
    BY DEF planFailoverRepoints
  <2>4. /\ n[m].ip # NoIP /\ Had(n[m].ip, n[m].ip[1])
        /\ \A p \in Pods : pod[p].ip = n[m].ip => IsIntendedMaster(pod, p)
    BY Zenon, <1>1, <2>1, ListedMaster
  <2> HIDE DEF live, stragglers
  <2>5. Gathered' /\ Aimed' /\ Fenced'
    BY <2>2 DEF Gathered, Aimed, Fenced
  <2>6. Named'
    BY <2>1, <2>2, <2>3, <2>4 DEF Named, Had
  <2> QED BY <2>5, <2>6
<1> QED BY <1>1, <1>2, <1>3, <1>4, <1>5

----------------------------------------------------------------------------
(* The steps of the operator.                                              *)

LEMMA ObservedAt ==
    ASSUME NEW p, NEW i
    PROVE  Observation(p, i).probed /\ Observation(p, i).ip = i
<1>1. /\ [[NotProbed EXCEPT !.probed = TRUE, !.ip = i] EXCEPT
             !.authFailed = p \in At(i) /\ net[p] = "auth"].probed
      /\ [[NotProbed EXCEPT !.probed = TRUE, !.ip = i] EXCEPT
             !.authFailed = p \in At(i) /\ net[p] = "auth"].ip = i
  BY DEF NotProbed
<1> QED BY <1>1 DEF Observation

\* A list stays right while the pods stay as they are.
LEMMA SnapshotStays ==
    ASSUME NEW s, NEW n, Snapshot(s, n), pod' = pod, ctr' = ctr, op'.snap = s, op'.nodes = n
    PROVE  Snapshot(op.snap, op.nodes)'
  BY DEF Snapshot, Had, Stampable

\* The pods as they are, and the probes made of them at once, are a list that
\* says what it should.
LEMMA CurrentSnapshot ==
    ASSUME IntentInv, NEW n, \A p \in Pods : n[p].probed => n[p].ip = pod[p].ip /\ Stampable(pod[p])
    PROVE  Snapshot(pod, n)
<1>1. \A p \in Pods : pod[p].ip # NoIP => pod[p].ip = <<p, ctr[p].inc>>
  BY DEF IntentInv, Addressed
<1>2. \A p \in Pods : ctr[p].inc \in Nat
  BY DEF IntentInv, EpochInv, TypeOK, Containers
<1>3. \A p \in Pods : pod[p].ip # NoIP => Had(pod[p].ip, p)
  BY <1>1, <1>2 DEF Had
<1>4. \A p \in Pods : pod[p].role # "none" => pod[p].exists
  BY DEF IntentInv, EpochInv, EpochsFlowDown
<1> QED BY <1>3, <1>4 DEF Snapshot

\* When every pod of the set was stamped, the annotations name the target, and
\* the outgoing master is a replica.
LEMMA StampIntent ==
    ASSUME IntentInv, EpochInv', StampAssignments
    PROVE  Addressed' /\ Gathered' /\ Aimed' /\ Named' /\ Fenced'
<1>0. /\ TypeOK /\ TypeOK' /\ Addressed /\ pod \in [Pods -> PodObjects] /\ op \in Passes
      /\ pod' \in [Pods -> PodObjects] /\ \A p \in Pods : pod[p].epoch \in Nat
  BY DEF IntentInv, EpochInv, TypeOK, PodObjects
<1>1. PICK done \in SUBSET {p \in op.todo : pod[p].exists} :
         /\ pod' = [p \in Pods |-> IF p \in done THEN Stamped(p) ELSE pod[p]]
         /\ op' = AfterStamps(AllStamped(done))
         /\ UNCHANGED ctr /\ op.pc = "stamp"
  BY DEF StampAssignments
<1>2. op.epoch \in Nat /\ \A p \in Pods : pod[p].epoch < op.epoch
  BY <1>0, <1>1 DEF IntentInv, EpochInv, PassIsAhead, Passes
<1>3. ASSUME NEW p \in Pods
      PROVE  /\ Stamped(p).exists = pod[p].exists /\ Stamped(p).ip = pod[p].ip
             /\ Stamped(p).terminating = pod[p].terminating
             /\ Stamped(p).role = IF p = op.target THEN "master" ELSE "replica"
             /\ p = op.target => Stamped(p).epoch = op.epoch
  <2>1. pod[p] \in PodObjects
    BY <1>0
  <2>2. CASE p = op.target
    BY <2>1, <2>2 DEF Stamped, PodObjects
  <2>3. CASE p # op.target
    BY <2>1, <2>3 DEF Stamped, PodObjects
  <2> QED BY <2>2, <2>3
<1>4. \A p \in Pods : /\ p \in done => pod'[p] = Stamped(p)
                      /\ p \notin done => pod'[p] = pod[p]
  BY <1>1
<1>5. \A p \in Pods : /\ pod'[p].exists = pod[p].exists /\ pod'[p].ip = pod[p].ip
                      /\ pod'[p].terminating = pod[p].terminating
  BY <1>3, <1>4
<1>6. Addressed'
  BY <1>0, <1>1, <1>5 DEF Addressed
<1>7. /\ IdleOp.pc = "idle" /\ ToLabelNone.pc = "label" /\ \A x : ToLabel(x).pc = "label"
  BY IdleOpType DEF IdleOp, ToLabel, ToLabelNone, Passes
<1>8. /\ op'.pc \in {"idle", "label", "mark", "promote", "fence"}
      /\ op'.pc = "promote" => op.promote
      /\ op'.pc \in {"promote", "fence"} =>
           /\ done = op.todo /\ op'.tip = op.tip /\ op'.stragglers = op.stragglers
           /\ op'.fence = op.fence
  BY <1>0, <1>1, <1>7 DEF AfterStamps, AfterPromotion, AllStamped, Passes
<1>9. Gathered' /\ Aimed'
  BY <1>8 DEF Gathered, Aimed
<1>10. Named'
  <2>1. CASE op'.pc # "promote"
    BY <1>8, <2>1 DEF Named
  <2>2. CASE op'.pc = "promote"
    <3>1. op.promote /\ done = op.todo /\ op'.tip = op.tip /\ op'.stragglers = op.stragglers
      BY <1>8, <2>2
    <3>2. op.target \in op.todo /\ op.tip # NoIP /\ Had(op.tip, op.target)
      BY <1>1, <3>1 DEF IntentInv, Aimed
    <3>3. op.tip \notin op.stragglers
      BY <1>1, <3>1 DEF IntentInv, Aimed
    <3>4. ASSUME NEW p \in Pods, pod'[p].ip = op.tip PROVE IsIntendedMaster(pod', p)
      <4>1. p = op.target
        BY <1>0, <1>5, <3>2, <3>4, SamePod
      <4>2. pod'[p].role = "master" /\ pod'[p].epoch = op.epoch /\ pod'[p].exists
        BY <1>1, <1>3, <1>4, <3>1, <3>2, <4>1
      <4>3. \A q \in Pods \ {p} : pod'[q].role = "master" => pod'[q] = pod[q]
        BY <1>3, <1>4, <4>1
      <4>4. p \in Masters(pod') /\ Masters(pod') \subseteq Pods
        BY <1>0, <4>2 DEF Masters, Assigned, Listed
      <4>5. \A q \in Masters(pod') \ {p} : pod'[q].epoch < pod'[p].epoch
        BY <1>2, <4>2, <4>3, <4>4 DEF Masters
      <4> QED BY <4>4, <4>5 DEF IsIntendedMaster
    <3>5. Had(op.tip, op.tip[1])
      BY <3>2 DEF Had
    <3> QED BY <1>1, <2>2, <3>1, <3>2, <3>3, <3>4, <3>5 DEF Named, Had
  <2> QED BY <2>1, <2>2
<1>11. Fenced'
  <2>1. CASE op'.pc \notin {"promote", "fence"} \/ op'.fence = NoIP
    BY <1>8, <2>1 DEF Fenced
  <2>2. CASE op'.pc \in {"promote", "fence"} /\ op'.fence # NoIP
    <3>1. done = op.todo /\ op'.fence = op.fence
      BY <1>8, <2>2
    <3>2. /\ Had(op.fence, op.fence[1])
          /\ \A p \in Pods : pod[p].ip = op.fence => pod[p].terminating \/ p \in op.todo \ {op.target}
      BY <1>1, <2>2, <3>1 DEF IntentInv, Fenced
    <3>3. ASSUME NEW p \in Pods, pod'[p].ip = op.fence
          PROVE  pod'[p].terminating \/ pod'[p].role = "replica"
      BY <1>3, <1>4, <1>5, <3>1, <3>2, <3>3
    <3> QED BY <1>1, <2>2, <3>1, <3>2, <3>3 DEF Fenced, Had
  <2> QED BY <2>1, <2>2
<1> QED BY <1>6, <1>9, <1>10, <1>11

LEMMA OperatorIntent ==
    ASSUME IntentInv, Countable, EpochInv', OperatorStep
    PROVE  Addressed' /\ Gathered' /\ Aimed' /\ Named' /\ Fenced'
<1>0. /\ TypeOK /\ TypeOK' /\ Addressed /\ Gathered /\ Aimed /\ Named /\ Fenced
      /\ pod \in [Pods -> PodObjects] /\ op \in Passes /\ IdleOp \in Passes
  BY IdleOpType DEF IntentInv, EpochInv, TypeOK
<1>1. /\ IdleOp.pc = "idle" /\ ToLabelNone.pc = "label" /\ \A x : ToLabel(x).pc = "label"
      /\ IdleOp.fence = NoIP /\ IdleOp.promote = FALSE
      /\ \A p \in Pods : ~IdleOp.nodes[p].probed
  BY <1>0 DEF IdleOp, ToLabel, ToLabelNone, NotProbed, Passes
<1>2. ASSUME pod' = pod, ctr' = ctr PROVE Addressed'
  BY <1>0, <1>2 DEF Addressed
<1>3. CASE \/ InitBootstrapFlag \/ BootstrapWaits \/ ListFails \/ MarkTransition
           \/ ClearBootstrapFlag \/ UpdateStatus \/ FenceOutgoingMaster
  <2>1. pod' = pod /\ ctr' = ctr /\ op'.pc \in {"idle", "label", "clearFlag", "engine", "mark"}
    <3>1. CASE InitBootstrapFlag \/ BootstrapWaits \/ ListFails \/ UpdateStatus
      BY <1>1, <3>1 DEF InitBootstrapFlag, BootstrapWaits, ListFails, UpdateStatus
    <3>2. CASE MarkTransition \/ ClearBootstrapFlag
      <4>1. /\ [IdleOp EXCEPT !.pc = "clearFlag"].pc = "clearFlag"
            /\ [IdleOp EXCEPT !.pc = "engine"].pc = "engine"
        BY <1>0 DEF Passes
      <4> QED BY Zenon, <1>1, <3>2, <4>1 DEF MarkTransition, ClearBootstrapFlag
    <3>3. CASE FenceOutgoingMaster
      BY <1>0, <3>3 DEF FenceOutgoingMaster, Passes
    <3> QED BY <1>3, <3>1, <3>2, <3>3
  <2> QED BY <1>2, <2>1, QuietPass
<1>4. CASE BootstrapFailover
  <2>1. /\ pod' = pod /\ ctr' = ctr
        /\ op'.pc \in {"idle", "stamp"} /\ op'.fence = NoIP /\ op'.promote = FALSE
    BY <1>0, <1>1, <1>4 DEF BootstrapFailover, Passes
  <2> QED BY <1>2, <2>1 DEF Gathered, Aimed, Named, Fenced
<1>5. CASE ReconcileAssignments
  <2> DEFINE n == [p \in Pods |-> IF Stampable(pod[p]) THEN Observation(p, pod[p].ip) ELSE NotProbed]
  <2>1. \A p \in Pods : pod[p].ip \in IPs
    BY <1>0 DEF PodObjects
  <2>2. n \in [Pods -> Observations]
    BY <1>0, <2>1, NotProbedType DEF Countable
  <2>3. \A p \in Pods : n[p].probed => n[p].ip = pod[p].ip /\ Stampable(pod[p])
    BY ObservedAt DEF NotProbed
  <2>4. Engine(pod, n) /\ pod' = pod /\ ctr' = ctr
    BY <1>5 DEF ReconcileAssignments
  <2> HIDE DEF n
  <2>5. Snapshot(pod, n)
    BY <2>3, CurrentSnapshot
  <2> QED BY <1>0, <1>2, <2>2, <2>4, <2>5, EngineIntent
<1>6. CASE ListPods
  <2>1. /\ op'.pc = "gather" /\ op'.snap = pod /\ op'.nodes = IdleOp.nodes
        /\ op'.toProbe = {p \in Pods : Stampable(pod[p])} /\ pod' = pod /\ ctr' = ctr
    BY <1>0, <1>6 DEF ListPods, Passes
  <2>2. Snapshot(pod, IdleOp.nodes)
    BY <1>1, CurrentSnapshot
  <2>3. Gathered'
    <3>1. Snapshot(op.snap, op.nodes)'
      BY Zenon, <2>1, <2>2, SnapshotStays
    <3> QED BY <2>1, <3>1 DEF Gathered, Stampable
  <2> QED BY <1>2, <2>1, <2>3 DEF Aimed, Named, Fenced
<1>7. ASSUME NEW p \in Pods, Probe(p) PROVE Addressed' /\ Gathered' /\ Aimed' /\ Named' /\ Fenced'
  <2>1. op' = [op EXCEPT !.toProbe = op.toProbe \ {p},
                         !.nodes = [op.nodes EXCEPT ![p] = Observation(p, op.snap[p].ip)]]
    BY <1>0, <1>7 DEF Probe, Passes
  <2>2. /\ op'.pc = "gather" /\ op'.snap = op.snap /\ op'.toProbe = op.toProbe \ {p}
        /\ op'.nodes = [op.nodes EXCEPT ![p] = Observation(p, op.snap[p].ip)]
        /\ pod' = pod /\ ctr' = ctr /\ op.pc = "gather" /\ p \in op.toProbe
    BY <1>0, <1>7, <2>1 DEF Probe, Passes
  <2>3. Snapshot(op.snap, op.nodes) /\ \A q \in op.toProbe : Stampable(op.snap[q])
    BY <1>0, <2>2 DEF Gathered
  <2>4. DOMAIN op.nodes = Pods
    BY <1>0 DEF Passes
  <2>5. /\ op'.nodes[p].ip = op.snap[p].ip
        /\ \A q \in Pods \ {p} : op'.nodes[q] = op.nodes[q]
    <3>1. op'.nodes[p] = Observation(p, op.snap[p].ip) /\ \A q \in Pods \ {p} : op'.nodes[q] = op.nodes[q]
      BY Zenon, <2>2, <2>4
    <3>2. Observation(p, op.snap[p].ip).ip = op.snap[p].ip
      BY ObservedAt
    <3> QED BY <3>1, <3>2
  <2>6. Snapshot(op.snap, op'.nodes)
    BY Zenon, <2>2, <2>3, <2>5 DEF Snapshot
  <2>7. Snapshot(op.snap, op.nodes)'
    BY Zenon, <2>2, <2>6, SnapshotStays
  <2>8. Gathered'
    BY <2>2, <2>3, <2>7 DEF Gathered, Stampable
  <2> QED BY <1>2, <2>2, <2>8 DEF Aimed, Named, Fenced
<1>8. CASE DecideOnGather
  <2>1. op.snap \in [Pods -> PodObjects] /\ op.nodes \in [Pods -> Observations]
    BY <1>0 DEF Passes
  <2>2. Snapshot(op.snap, op.nodes) /\ Engine(op.snap, op.nodes) /\ pod' = pod /\ ctr' = ctr
    BY <1>0, <1>8 DEF DecideOnGather, Gathered
  <2> QED BY <1>2, <2>1, <2>2, EngineIntent
<1>9. CASE StampAssignments
  BY <1>9, StampIntent
<1>10. CASE PromoteMaster
  <2>1. /\ pod' = pod /\ ctr' = ctr /\ op.pc = "promote"
        /\ op'.pc \in {"fence", "mark", "label"}
        /\ op'.pc = "fence" => op'.fence = op.fence
    BY <1>0, <1>1, <1>10 DEF PromoteMaster, AfterPromotion, Passes
  <2>2. Fenced'
    BY <1>0, <2>1 DEF Fenced, Had
  <2> QED BY <1>2, <2>1, <2>2 DEF Gathered, Aimed, Named
<1>11. CASE RepointStragglers
  <2>1. /\ pod' = pod /\ ctr' = ctr /\ op.pc = "repoint"
        /\ op'.pc \in {"stamp", "label"} /\ op'.fence = op.fence /\ op'.promote = op.promote
    BY <1>0, <1>11 DEF RepointStragglers, HealStep, Passes
  <2>2. op.promote = FALSE /\ op.fence = NoIP
    BY <1>0, <2>1 DEF Named, Passes
  <2> QED BY <1>2, <2>1, <2>2 DEF Gathered, Aimed, Named, Fenced
<1>12. CASE UpdateLabels
  <2>1. \A q \in Pods : /\ pod'[q].exists = pod[q].exists /\ pod'[q].ip = pod[q].ip
                        /\ pod'[q].role = pod[q].role /\ pod'[q].epoch = pod[q].epoch
                        /\ pod[q].terminating => pod'[q].terminating
    BY <1>0, <1>12 DEF UpdateLabels, PodObjects
  <2>2. ctr' = ctr /\ op'.pc \in {"idle", "status"}
    BY <1>0, <1>1, <1>12 DEF UpdateLabels, Passes
  <2>3. Addressed'
    BY <1>0, <2>1, <2>2, QuietChurn
  <2> QED BY <2>2, <2>3, QuietPass
<1> QED BY <1>3, <1>4, <1>5, <1>6, <1>7, <1>8, <1>9, <1>10, <1>11, <1>12 DEF OperatorStep

----------------------------------------------------------------------------
(* Who changes roles.                                                      *)

LEMMA Redirected ==
    ASSUME TypeOK, NEW ips, Redirect(ips), NEW p \in Pods, redis'[p] # redis[p]
    PROVE  redis[p].up /\ redis'[p].up /\ redis'[p].role = "slave" /\ pod[p].ip \in ips
           /\ pod[p].ip # NoIP
<1>1. PICK done \in SUBSET (UNION {Reachable(i) : i \in ips}) :
         redis' = [q \in Pods |-> IF q \in done THEN Following(redis[q], op.tip) ELSE redis[q]]
  BY DEF Redirect
<1>2. p \in done /\ redis'[p] = Following(redis[p], op.tip)
  BY <1>1
<1>3. PICK i \in ips : p \in Reachable(i)
  BY <1>1, <1>2
<1>4. redis[p].up /\ pod[p].ip = i /\ i # NoIP
  BY <1>3 DEF Reachable, At
<1>5. redis[p] \in Processes
  BY DEF TypeOK
<1>6. redis'[p].up /\ redis'[p].role = "slave"
  BY <1>2, <1>4, <1>5 DEF Following, Processes
<1> QED BY <1>4, <1>6

\* A pass changes the role of a process by three commands, each to an address
\* that it holds.
LEMMA OperatorRoles ==
    ASSUME TypeOK, OperatorStep, NEW p \in Pods, redis'[p] # redis[p]
    PROVE  /\ redis[p].up /\ redis'[p].up
           /\ \/ op.pc = "promote" /\ pod[p].ip = op.tip /\ redis'[p].role = "master"
              \/ op.pc = "fence" /\ pod[p].ip = op.fence /\ op.fence # NoIP /\ redis'[p].role = "slave"
              \/ op.pc = "repoint" /\ pod[p].ip \in op.stragglers /\ redis'[p].role = "slave"
<1>1. PromoteMaster \/ FenceOutgoingMaster \/ RepointStragglers
  BY Zenon DEF OperatorStep, InitBootstrapFlag, BootstrapFailover, BootstrapWaits, ReconcileAssignments,
         ListPods, Probe, DecideOnGather, ListFails, StampAssignments, MarkTransition,
         ClearBootstrapFlag, UpdateLabels, UpdateStatus
<1>2. CASE PromoteMaster
  <2>1. PICK done \in SUBSET Reachable(op.tip) :
           redis' = [q \in Pods |-> IF q \in done THEN Promoted(redis[q]) ELSE redis[q]]
    BY <1>2 DEF PromoteMaster
  <2>2. p \in Reachable(op.tip) /\ redis'[p] = Promoted(redis[p])
    BY <2>1
  <2>3. redis[p].up /\ pod[p].ip = op.tip
    BY <2>2 DEF Reachable, At
  <2>4. redis[p] \in Processes
    BY DEF TypeOK
  <2>5. redis'[p].up /\ redis'[p].role = "master"
    BY <2>2, <2>3, <2>4 DEF Promoted, Processes
  <2> QED BY <1>2, <2>3, <2>5 DEF PromoteMaster
<1>3. CASE FenceOutgoingMaster
  <2>1. op.pc = "fence" /\ Redirect({op.fence})
    BY <1>3 DEF FenceOutgoingMaster
  <2> QED BY <2>1, Redirected
<1>4. CASE RepointStragglers
  <2>1. op.pc = "repoint" /\ Redirect(op.stragglers)
    BY <1>4 DEF RepointStragglers
  <2> QED BY <2>1, Redirected
<1> QED BY <1>1, <1>2, <1>3, <1>4

\* Everyone else only starts and ends processes.
LEMMA PodRoles ==
    ASSUME TypeOK, Stopped, NEW p \in Pods, PodStep(p) \/ Environment(p), NEW q \in Pods,
           redis'[q].role # redis[q].role
    PROVE  redis[q].role = "none" \/ redis'[q].role = "none"
<1>1. redis \in [Pods -> Processes] /\ redis[p] \in Processes
  BY DEF TypeOK
<1>2. CASE \/ AssignIP(p) \/ Project(p) \/ ReportStatus(p) \/ Recreate(p) \/ DeletePod(p)
           \/ Cut(p) \/ Heal(p)
  BY <1>2 DEF AssignIP, Project, ReportStatus, Recreate, DeletePod, Cut, Heal
<1>3. CASE KillContainer(p) \/ PodGone(p)
  <2>1. redis' = [redis EXCEPT ![p] = Down]
    BY <1>3 DEF KillContainer, PodGone
  <2> QED BY <1>1, <2>1 DEF Down
<1>4. CASE StartRedis(p) \/ StartOnTornRead(p)
  <2>1. ~redis[p].up /\ \E v : redis' = [redis EXCEPT ![p] = v]
    BY Zenon, <1>4 DEF StartRedis, StartOnTornRead, Exec
  <2>2. q # p => redis'[q] = redis[q]
    BY <1>1, <2>1
  <2> QED BY <2>1, <2>2 DEF Stopped
<1>5. CASE Sync(p)
  <2>1. PICK x \in Pods : \E second \in {0, redis[x].replid2} :
           redis' = [redis EXCEPT ![p] =
              [redis[p] EXCEPT !.link = "up", !.data = redis[x].data,
                               !.replid = redis[x].replid, !.replid2 = second]]
    BY Zenon, <1>5 DEF Sync, At
  <2> QED BY <1>1, <2>1 DEF Processes
<1>6. CASE LinkLost(p) \/ Write(p) \/ PreStopFence(p)
  BY <1>1, <1>6 DEF LinkLost, Write, PreStopFence, Processes
<1> QED BY Zenon, <1>2, <1>3, <1>4, <1>5, <1>6 DEF PodStep, Environment

----------------------------------------------------------------------------
(* The invariant.                                                          *)

LEMMA UnderIntent ==
    ASSUME NEW a, NEW k, pod = PodsUnder(a, k), ctr = ContainersUnder(a, k),
           \A p \in Pods : redis[p].up
    PROVE  Addressed /\ Stopped
<1>1. \A p \in Pods : pod[p].exists /\ pod[p].ip = <<p, 1>> /\ ctr[p].inc = 1
  BY DEF PodsUnder, ContainersUnder
<1> QED BY <1>1 DEF Addressed, Stopped

LEMMA InitIntent == Init => IntentInv
<1> SUFFICES ASSUME Init PROVE IntentInv
  OBVIOUS
<1>1. EpochInv
  BY InitEpochs
<1>2. op.pc = "idle"
  BY DEF Init, IdleOp
<1>3. Gathered /\ Aimed /\ Named /\ Fenced
  BY <1>2 DEF Gathered, Aimed, Named, Fenced
<1>4. ASSUME NewInstance PROVE Addressed /\ Stopped
  BY <1>4 DEF NewInstance, PendingPod, Down, Addressed, Stopped
<1>5. ASSUME SettledInstance PROVE Addressed /\ Stopped
  BY <1>5, UnderIntent DEF SettledInstance, Converged
<1>6. ASSUME FailedOverInstance PROVE Addressed /\ Stopped
  BY <1>6, UnderIntent DEF FailedOverInstance, Converged
<1>7. ASSUME NEW m \in Nat, PartitionedInstance(m) PROVE Addressed /\ Stopped
  BY <1>7, UnderIntent DEF PartitionedInstance, Converged
<1>8. PICK sc \in Scenarios : StartAt(sc.start)
  BY DEF Init
<1> QED BY Zenon, <1>1, <1>3, <1>4, <1>5, <1>6, <1>7, <1>8, ScenariosAssumption
        DEF StartAt, StartingPoints, IntentInv

LEMMA NextIntent ==
    ASSUME IntentInv, Countable, [Next]_vars
    PROVE  IntentInv'
<1>0. EpochInv' /\ TypeOK /\ TypeOK' /\ Stopped /\ Addressed
  BY NextEpochs DEF IntentInv, EpochInv
<1>1. CASE OperatorStep
  <2>1. Stopped'
    BY <1>0, <1>1, OperatorRoles DEF Stopped
  <2> QED BY <1>0, <1>1, <2>1, OperatorIntent DEF IntentInv
<1>2. ASSUME NEW p \in Pods, PodStep(p) \/ Environment(p) PROVE IntentInv'
  <2>1. Churn /\ Addressed' /\ op' = op
    BY <1>0, <1>2, PodSteps
  <2>2. Gathered' /\ Aimed' /\ Named' /\ Fenced'
    BY <1>0, <2>1, ChurnKeeps
  <2>3. Stopped'
    BY <1>0, <1>2, PodsStop
  <2> QED BY <1>0, <2>1, <2>2, <2>3 DEF IntentInv
<1>3. CASE OperatorCrash
  <2>1. pod' = pod /\ ctr' = ctr /\ redis' = redis /\ op'.pc = "idle"
    BY <1>3 DEF OperatorCrash, IdleOp
  <2>2. Addressed' /\ Stopped'
    BY <1>0, <2>1 DEF Addressed, Stopped
  <2> QED BY <1>0, <2>1, <2>2, QuietPass DEF IntentInv
<1>4. CASE WindowElapses \/ CooldownEnds \/ UNCHANGED vars
  <2>1. pod' = pod /\ ctr' = ctr /\ redis' = redis /\ op' = op
    BY <1>4 DEF WindowElapses, CooldownEnds, vars
  <2>2. Churn /\ Addressed' /\ Stopped'
    BY <1>0, <2>1, QuietChurn DEF Stopped
  <2> QED BY <1>0, <2>1, <2>2, ChurnKeeps DEF IntentInv
<1> QED BY <1>1, <1>2, <1>3, <1>4 DEF Next

----------------------------------------------------------------------------
(* Faults that do not happen.                                              *)

LEMMA EngineSpends ==
    ASSUME NEW s, NEW n, Engine(s, n)
    PROVE  budget' = budget \/ \E w \in Events : Spend(w)
<1>1. "errors" \in Events
  BY DEF Events
<1> QED BY Zenon, <1>1 DEF Engine, PassBeyondBound, ResumeTransition, DetectionWindow, NoFailover,
        RefuseFailover, ElectMaster, HealReplicas, StatusWrite

\* A fault whose budget is spent happens no more.
LEMMA SpentStays ==
    ASSUME TypeOK, [Next]_vars, NEW v \in Events, budget[v] = 0
    PROVE  budget'[v] = 0
<1>1. budget' = budget \/ \E w \in Events : Spend(w)
  <2>0. Events = {"writes", "kills", "deletes", "crashes", "errors", "torn"} \cup DialFaults
    BY DEF Events
  <2>1. CASE OperatorStep
    <3>1. CASE ReconcileAssignments \/ DecideOnGather
      BY <3>1, EngineSpends DEF ReconcileAssignments, DecideOnGather
    <3>2. CASE ~ReconcileAssignments /\ ~DecideOnGather
      BY Zenon, <2>0, <2>1, <3>2
      DEF OperatorStep, InitBootstrapFlag, BootstrapFailover, BootstrapWaits, ListPods, Probe,
          ListFails, StampAssignments, PromoteMaster, FenceOutgoingMaster, RepointStragglers,
          Redirect, MarkTransition, ClearBootstrapFlag, UpdateLabels, UpdateStatus
    <3> QED BY <3>1, <3>2
  <2>2. ASSUME NEW p \in Pods, PodStep(p) \/ Environment(p)
        PROVE  budget' = budget \/ \E w \in Events : Spend(w)
    BY Zenon, <2>0, <2>2
    DEF PodStep, Environment, AssignIP, Project, ReportStatus, StartRedis, StartOnTornRead, Recreate,
        PodGone, Sync, LinkLost, Write, KillContainer, DeletePod, PreStopFence, Cut, Heal
  <2>3. CASE WindowElapses \/ CooldownEnds \/ OperatorCrash
    BY <2>0, <2>3 DEF WindowElapses, CooldownEnds, OperatorCrash
  <2>4. CASE UNCHANGED vars
    BY <2>4 DEF vars
  <2> QED BY <2>1, <2>2, <2>3, <2>4 DEF Next
<1>2. budget \in [Events -> Nat]
  BY DEF TypeOK, Budgets
<1>3. ASSUME NEW w \in Events, Spend(w) PROVE budget'[v] = 0
  BY <1>2, <1>3 DEF Spend
<1> QED BY <1>1, <1>3

\* Nobody deletes pods: then none goes, and the master that a pass repoints the
\* others to is still there.
Lasting ==
    /\ budget["deletes"] = 0
    /\ \A p \in Pods : ~pod[p].terminating
    /\ op.pc = "gather" => \A p \in Pods : op.snap[p].ip # NoIP => pod[p].ip = op.snap[p].ip
    /\ op.pc = "repoint" => \E p \in Pods : pod[p].ip = op.tip

LEMMA EngineLasts ==
    ASSUME IntentInv, NEW s \in [Pods -> PodObjects], NEW n \in [Pods -> Observations],
           Snapshot(s, n), Engine(s, n), op'.pc = "repoint",
           \A p \in Pods : s[p].ip # NoIP => pod[p].ip = s[p].ip
    PROVE  \E p \in Pods : pod[p].ip = op'.tip
<1>0. /\ IdleOp \in Passes /\ IdleOp.pc = "idle" /\ \A x : ToLabel(x).pc = "label"
      /\ ToLabelNone.pc = "label" /\ TypeOK
  BY IdleOpType DEF IntentInv, EpochInv, IdleOp, ToLabel, ToLabelNone
<1>1. PICK m \in Pods \cup {NoPod}, e \in 0 .. MaxEpoch :
         /\ IsIntendedMaster(s, m)
         /\ \/ PassBeyondBound
            \/ ResumeTransition(n, m)
            \/ DetectionWindow(s, n, m)
            \/ NoFailover(s, n, m)
            \/ RefuseFailover(s, n, m)
            \/ ElectMaster(s, n, m, e)
            \/ HealReplicas(s, n, m, e)
  BY Zenon DEF Engine
<1>2. CASE PassBeyondBound \/ DetectionWindow(s, n, m) \/ NoFailover(s, n, m) \/ RefuseFailover(s, n, m)
  <2>1. op'.pc \in {"idle", "label"}
    BY <1>0, <1>2 DEF PassBeyondBound, DetectionWindow, NoFailover, RefuseFailover
  <2> QED BY <2>1
<1>3. CASE ResumeTransition(n, m)
  <2>1. op'.pc = "promote"
    BY <1>0, <1>3 DEF ResumeTransition, Passes
  <2> QED BY <2>1
<1>4. CASE ElectMaster(s, n, m, e)
  <2>1. op'.pc = "stamp"
    BY <1>0, <1>4 DEF ElectMaster, Passes
  <2> QED BY <2>1
<1>5. CASE HealReplicas(s, n, m, e)
  <2>1. ~NeedsPromotion(n, m) /\ MasterDeath(s, n, m) = "clearMarker" /\ op'.tip = LiveMaster(n, m)
    BY <1>0, <1>5 DEF HealReplicas, Passes
  <2>2. cr.down \in {"none", "open", "elapsed"}
    BY <1>0 DEF TypeOK, Statuses
  <2>3. m # NoPod /\ MasterReachable(n, m)
    BY <2>1, <2>2 DEF MasterDeath, planMasterDeath
  <2>4. m \in Pods /\ n[m].probed /\ op'.tip = n[m].ip
    BY Zenon, <1>1, <2>1, <2>3 DEF NeedsPromotion, MasterReachable, LiveMaster
  <2>5. n[m].ip = s[m].ip /\ s[m].ip # NoIP
    BY <2>4 DEF Snapshot, Stampable
  <2> QED BY <2>4, <2>5
<1> QED BY Zenon, <1>1, <1>2, <1>3, <1>4, <1>5

LEMMA NextLasts ==
    ASSUME IntentInv, Lasting, Countable, [Next]_vars
    PROVE  Lasting'
<1>0. /\ TypeOK /\ pod \in [Pods -> PodObjects] /\ op \in Passes /\ IdleOp \in Passes
      /\ \A p \in Pods : ~pod[p].terminating
  BY IdleOpType DEF IntentInv, EpochInv, TypeOK, Lasting
<1>1. budget'["deletes"] = 0
  BY <1>0, SpentStays DEF Lasting, Events
<1>2. ASSUME \A p \in Pods : /\ pod'[p].ip = pod[p].ip \/ pod[p].ip = NoIP
                             /\ ~pod'[p].terminating,
             op' = op
      PROVE  Lasting'
  <2>1. ASSUME op.pc = "gather", NEW p \in Pods, op.snap[p].ip # NoIP
        PROVE  pod'[p].ip = op.snap[p].ip
    BY <1>2, <2>1 DEF Lasting
  <2>2. ASSUME op.pc = "repoint" PROVE \E p \in Pods : pod'[p].ip = op.tip
    <3>1. PICK p \in Pods : pod[p].ip = op.tip
      BY <2>2 DEF Lasting
    <3>2. op.tip # NoIP
      BY <2>2 DEF IntentInv, Named
    <3> QED BY <1>2, <3>1, <3>2
  <2> QED BY <1>1, <1>2, <2>1, <2>2 DEF Lasting
<1>3. ASSUME \A p \in Pods : ~pod'[p].terminating, op'.pc \notin {"gather", "repoint"}
      PROVE  Lasting'
  BY <1>1, <1>3 DEF Lasting
<1>4. CASE OperatorStep
  <2>1. /\ IdleOp.pc = "idle" /\ ToLabelNone.pc = "label" /\ \A x : ToLabel(x).pc = "label"
    BY <1>0 DEF IdleOp, ToLabel, ToLabelNone, Passes
  <2>2. ASSUME pod' = pod, op'.pc \notin {"gather", "repoint"} PROVE Lasting'
    BY <1>0, <1>3, <2>2
  <2>3. ASSUME pod' = pod, NEW s \in [Pods -> PodObjects], NEW n \in [Pods -> Observations],
               Snapshot(s, n), Engine(s, n), \A p \in Pods : s[p].ip # NoIP => pod[p].ip = s[p].ip
        PROVE  Lasting'
    <3>1. op'.pc # "gather"
      BY <2>3, EngineEpoch
    <3>2. op'.pc = "repoint" => \E p \in Pods : pod[p].ip = op'.tip
      BY <2>3, EngineLasts
    <3> QED BY <1>0, <1>1, <2>3, <3>1, <3>2 DEF Lasting
  <2>4. CASE InitBootstrapFlag
    BY <1>0, <1>2, <2>4 DEF InitBootstrapFlag
  <2>5. CASE BootstrapFailover
    <3>1. op'.pc \in {"idle", "stamp"} /\ pod' = pod
      BY <1>0, <2>1, <2>5 DEF BootstrapFailover, Passes
    <3> QED BY <2>2, <3>1
  <2>6. CASE BootstrapWaits \/ ListFails \/ UpdateStatus
    BY <2>1, <2>2, <2>6 DEF BootstrapWaits, ListFails, UpdateStatus
  <2>7. CASE MarkTransition \/ ClearBootstrapFlag
    <3>1. /\ [IdleOp EXCEPT !.pc = "clearFlag"].pc = "clearFlag"
          /\ [IdleOp EXCEPT !.pc = "engine"].pc = "engine"
      BY <1>0 DEF Passes
    <3> QED BY Zenon, <2>1, <2>2, <2>7, <3>1 DEF MarkTransition, ClearBootstrapFlag
  <2>8. CASE ReconcileAssignments
    <3> DEFINE n == [p \in Pods |-> IF Stampable(pod[p]) THEN Observation(p, pod[p].ip) ELSE NotProbed]
    <3>1. \A p \in Pods : pod[p].ip \in IPs
      BY <1>0 DEF PodObjects
    <3>2. n \in [Pods -> Observations]
      BY <1>0, <3>1, NotProbedType DEF Countable
    <3>3. \A p \in Pods : n[p].probed => n[p].ip = pod[p].ip /\ Stampable(pod[p])
      BY ObservedAt DEF NotProbed
    <3>4. Engine(pod, n) /\ pod' = pod
      BY <2>8 DEF ReconcileAssignments
    <3> HIDE DEF n
    <3>5. Snapshot(pod, n)
      BY <3>3, CurrentSnapshot
    <3> QED BY <1>0, <2>3, <3>2, <3>4, <3>5
  <2>9. CASE ListPods
    <3>1. op'.pc = "gather" /\ op'.snap = pod /\ pod' = pod
      BY <1>0, <2>9 DEF ListPods, Passes
    <3> QED BY <1>0, <1>1, <3>1 DEF Lasting
  <2>10. ASSUME NEW p \in Pods, Probe(p) PROVE Lasting'
    <3>1. op'.pc = op.pc /\ op'.snap = op.snap /\ op'.tip = op.tip /\ pod' = pod
      BY <1>0, <2>10 DEF Probe, Passes
    <3> QED BY <1>1, <3>1 DEF Lasting
  <2>11. CASE DecideOnGather
    <3>1. op.snap \in [Pods -> PodObjects] /\ op.nodes \in [Pods -> Observations]
      BY <1>0 DEF Passes
    <3>2. Snapshot(op.snap, op.nodes) /\ Engine(op.snap, op.nodes) /\ pod' = pod /\ op.pc = "gather"
      BY <2>11 DEF DecideOnGather, IntentInv, Gathered
    <3>3. \A p \in Pods : op.snap[p].ip # NoIP => pod[p].ip = op.snap[p].ip
      BY <3>2 DEF Lasting
    <3> QED BY <2>3, <3>1, <3>2, <3>3
  <2>12. CASE StampAssignments
    <3>1. PICK done :
             /\ pod' = [p \in Pods |-> IF p \in done THEN Stamped(p) ELSE pod[p]]
             /\ op' = AfterStamps(AllStamped(done))
      BY <2>12 DEF StampAssignments
    <3>2. op.pc = "stamp"
      BY <2>12 DEF StampAssignments
    <3>3. op'.pc \notin {"gather", "repoint"}
      BY <1>0, <2>1, <3>1 DEF AfterStamps, AfterPromotion, Passes
    <3>4. ASSUME NEW p \in Pods PROVE Stamped(p).terminating = pod[p].terminating
      <4>1. pod[p] \in PodObjects
        BY <1>0
      <4> QED BY <4>1 DEF Stamped, PodObjects
    <3>5. \A p \in Pods : ~pod'[p].terminating
      BY <1>0, <3>1, <3>4
    <3> QED BY <1>3, <3>3, <3>5
  <2>13. CASE PromoteMaster
    <3>1. op'.pc \in {"fence", "mark", "label"} /\ pod' = pod
      BY <1>0, <2>1, <2>13 DEF PromoteMaster, AfterPromotion, Passes
    <3> QED BY <2>2, <3>1
  <2>14. CASE FenceOutgoingMaster \/ RepointStragglers
    <3>1. op'.pc \in {"mark", "stamp", "label"} /\ pod' = pod
      BY Zenon, <1>0, <2>14 DEF FenceOutgoingMaster, RepointStragglers, HealStep, Passes
    <3> QED BY <2>2, <3>1
  <2>15. CASE UpdateLabels
    <3>1. op'.pc \in {"idle", "status"} /\ \A p \in Pods : pod'[p].terminating = pod[p].terminating
      BY <1>0, <2>1, <2>15 DEF UpdateLabels, PodObjects, Passes
    <3> QED BY <1>0, <1>3, <3>1
  <2> QED BY <1>4, <2>4, <2>5, <2>6, <2>7, <2>8, <2>9, <2>10, <2>11, <2>12, <2>13, <2>14, <2>15
          DEF OperatorStep
<1>5. ASSUME NEW p \in Pods, PodStep(p) \/ Environment(p) PROVE Lasting'
  <2>1. pod[p] \in PodObjects
    BY <1>0
  <2>2. CASE PodGone(p) \/ DeletePod(p)
    <3>1. FALSE
      BY <1>0, <2>2 DEF PodGone, DeletePod, Spend, Lasting
    <3> QED BY <3>1
  <2>3. CASE AssignIP(p)
    BY <1>0, <1>2, <2>1, <2>3 DEF AssignIP, PodObjects
  <2>4. CASE ReportStatus(p)
    BY <1>0, <1>2, <2>1, <2>4 DEF ReportStatus, PodObjects
  <2>5. CASE Recreate(p)
    <3>1. pod[p].ip = NoIP
      BY <2>5 DEF Recreate, IntentInv, Addressed
    <3>2. pod' = [pod EXCEPT ![p] = PendingPod] /\ op' = op /\ ~PendingPod.terminating
      BY <2>5 DEF Recreate, PendingPod
    <3> QED BY <1>0, <1>2, <3>1, <3>2
  <2>6. CASE \/ Project(p) \/ StartRedis(p) \/ StartOnTornRead(p) \/ Sync(p) \/ LinkLost(p)
             \/ Write(p) \/ KillContainer(p) \/ PreStopFence(p) \/ Cut(p) \/ Heal(p)
    <3>1. pod' = pod /\ op' = op
      BY Zenon, <2>6 DEF Project, StartRedis, StartOnTornRead, Sync, LinkLost, Write, KillContainer,
                  PreStopFence, Cut, Heal
    <3> QED BY <1>0, <1>2, <3>1
  <2> QED BY <1>5, <2>2, <2>3, <2>4, <2>5, <2>6 DEF PodStep, Environment
<1>6. CASE WindowElapses \/ CooldownEnds \/ UNCHANGED vars
  BY <1>0, <1>2, <1>6 DEF WindowElapses, CooldownEnds, vars
<1>7. CASE OperatorCrash
  BY <1>0, <1>3, <1>7 DEF OperatorCrash, IdleOp
<1> QED BY <1>4, <1>5, <1>6, <1>7 DEF Next

LEMMA InitLasts ==
    ASSUME Init, \A sc \in Scenarios : sc.budget["deletes"] = 0
    PROVE  Lasting
<1>1. PICK sc \in Scenarios : StartAt(sc.start) /\ budget = sc.budget
  BY DEF Init
<1>2. op.pc = "idle"
  BY DEF Init, IdleOp
<1>3. \A p \in Pods : ~pod[p].terminating
  <2>1. ASSUME NewInstance PROVE \A p \in Pods : ~pod[p].terminating
    BY <2>1 DEF NewInstance, PendingPod
  <2>2. ASSUME NEW a, NEW k, pod = PodsUnder(a, k) PROVE \A p \in Pods : ~pod[p].terminating
    BY <2>2 DEF PodsUnder
  <2>3. ASSUME SettledInstance PROVE \A p \in Pods : ~pod[p].terminating
    BY Zenon, <2>2, <2>3 DEF SettledInstance, Converged
  <2>4. ASSUME FailedOverInstance PROVE \A p \in Pods : ~pod[p].terminating
    BY Zenon, <2>2, <2>4 DEF FailedOverInstance, Converged
  <2>5. ASSUME NEW m \in Nat, PartitionedInstance(m) PROVE \A p \in Pods : ~pod[p].terminating
    BY <2>2, <2>5 DEF PartitionedInstance, Converged
  <2> QED BY Zenon, <1>1, <2>1, <2>3, <2>4, <2>5, ScenariosAssumption DEF StartAt, StartingPoints
<1> QED BY <1>1, <1>2, <1>3 DEF Lasting

\* Every pass lists, probes and decides before anything else happens.
Whole ==
    /\ budget["torn"] = 0 /\ op.pc # "gather"
    /\ op.pc = "repoint" => op.action = "reauth"

LEMMA NextWhole ==
    ASSUME TypeOK, Whole, [Next]_vars
    PROVE  Whole'
<1>0. op \in Passes /\ IdleOp \in Passes
  BY IdleOpType DEF TypeOK
<1>1. budget'["torn"] = 0
  BY SpentStays DEF Whole, Events
<1>2. ASSUME op' = op PROVE Whole'
  BY <1>1, <1>2 DEF Whole
<1>3. ASSUME op'.pc \notin {"gather", "repoint"} PROVE Whole'
  BY <1>1, <1>3 DEF Whole
<1>4. IdleOp.pc = "idle" /\ ToLabelNone.pc = "label" /\ \A x : ToLabel(x).pc = "label"
  BY <1>0 DEF IdleOp, ToLabel, ToLabelNone, Passes
<1>5. CASE OperatorStep
  <2>1. CASE InitBootstrapFlag
    BY <1>2, <2>1 DEF InitBootstrapFlag
  <2>2. CASE BootstrapFailover
    <3>1. op'.pc \in {"idle", "stamp"}
      BY <1>0, <1>4, <2>2 DEF BootstrapFailover, Passes
    <3> QED BY <1>3, <3>1
  <2>3. CASE BootstrapWaits \/ ListFails \/ UpdateStatus
    BY <1>3, <1>4, <2>3 DEF BootstrapWaits, ListFails, UpdateStatus
  <2>4. CASE MarkTransition \/ ClearBootstrapFlag
    <3>1. /\ [IdleOp EXCEPT !.pc = "clearFlag"].pc = "clearFlag"
          /\ [IdleOp EXCEPT !.pc = "engine"].pc = "engine"
      BY <1>0 DEF Passes
    <3> QED BY Zenon, <1>3, <1>4, <2>4, <3>1 DEF MarkTransition, ClearBootstrapFlag
  <2>5. ASSUME NEW s, NEW n, Engine(s, n) PROVE Whole'
    <3>1. PICK m, e :
             \/ PassBeyondBound
             \/ ResumeTransition(n, m)
             \/ DetectionWindow(s, n, m)
             \/ NoFailover(s, n, m)
             \/ RefuseFailover(s, n, m)
             \/ ElectMaster(s, n, m, e)
             \/ HealReplicas(s, n, m, e)
      BY <2>5 DEF Engine
    <3>2. CASE PassBeyondBound \/ DetectionWindow(s, n, m) \/ NoFailover(s, n, m) \/ RefuseFailover(s, n, m)
      BY <1>3, <1>4, <3>2 DEF PassBeyondBound, DetectionWindow, NoFailover, RefuseFailover
    <3>3. CASE ResumeTransition(n, m) \/ ElectMaster(s, n, m, e)
      <4>1. op'.pc \in {"promote", "stamp"}
        BY Zenon, <1>0, <3>3 DEF ResumeTransition, ElectMaster, Passes
      <4> QED BY <1>3, <4>1
    <3>4. CASE HealReplicas(s, n, m, e)
      <4>1. op'.pc \in {"repoint", "stamp", "label"} /\ op'.action = "reauth"
        BY <1>0, <3>4 DEF HealReplicas, HealStep, Passes
      <4> QED BY <1>1, <4>1 DEF Whole
    <3> QED BY <3>1, <3>2, <3>3, <3>4
  <2>6. CASE ReconcileAssignments
    BY <2>5, <2>6 DEF ReconcileAssignments
  <2>7. CASE ListPods \/ DecideOnGather \/ \E p \in Pods : Probe(p)
    <3>1. ~ListPods
      BY DEF ListPods, Spend, Whole
    <3>2. ~DecideOnGather /\ \A p \in Pods : ~Probe(p)
      BY Zenon DEF DecideOnGather, Probe, Whole
    <3> QED BY <2>7, <3>1, <3>2
  <2>8. CASE StampAssignments
    <3>1. PICK ok : op' = AfterStamps(ok)
      BY <2>8 DEF StampAssignments
    <3>2. op.pc = "stamp"
      BY <2>8 DEF StampAssignments
    <3>3. op'.pc \notin {"gather", "repoint"}
      BY <1>0, <1>4, <3>1 DEF AfterStamps, AfterPromotion, Passes
    <3> QED BY <1>3, <3>3
  <2>9. CASE PromoteMaster
    <3>1. op'.pc \in {"fence", "mark", "label"}
      BY <1>0, <1>4, <2>9 DEF PromoteMaster, AfterPromotion, Passes
    <3> QED BY <1>3, <3>1
  <2>10. CASE FenceOutgoingMaster \/ RepointStragglers
    <3>1. op'.pc \in {"mark", "stamp", "label"}
      BY Zenon, <1>0, <2>10 DEF FenceOutgoingMaster, RepointStragglers, HealStep, Passes
    <3> QED BY <1>3, <3>1
  <2>11. CASE UpdateLabels
    <3>1. op'.pc \in {"idle", "status"}
      BY <1>0, <1>4, <2>11 DEF UpdateLabels, Passes
    <3> QED BY <1>3, <3>1
  <2> QED BY <1>5, <2>1, <2>2, <2>3, <2>4, <2>6, <2>7, <2>8, <2>9, <2>10, <2>11 DEF OperatorStep
<1>6. ASSUME NEW p \in Pods, PodStep(p) \/ Environment(p) PROVE Whole'
  BY Zenon, <1>2, <1>6
  DEF PodStep, Environment, AssignIP, Project, ReportStatus, StartRedis, StartOnTornRead, Recreate,
      PodGone, Sync, LinkLost, Write, KillContainer, DeletePod, PreStopFence, Cut, Heal
<1>7. CASE WindowElapses \/ CooldownEnds \/ UNCHANGED vars
  BY <1>2, <1>7 DEF WindowElapses, CooldownEnds, vars
<1>8. CASE OperatorCrash
  BY <1>3, <1>4, <1>8 DEF OperatorCrash
<1> QED BY <1>5, <1>6, <1>7, <1>8 DEF Next

\* planFailover refuses while two holders are masters.
LEMMA ForkRefused ==
    ASSUME NEW n, NEW live, NEW unsettled, NEW cooling, holdersForked(n),
           NEW plan \in planFailover(n, live, AllowUnsafe, unsettled, cooling)
    PROVE  plan.action \notin {"promote", "seed"}
<1>1. DataHolders(n) # {}
  BY DEF holdersForked
<1> DEFINE chosen == {Plan("unsafeElect", b) : b \in BestDataHolders(n)}
<1>2. \/ plan \in {Plan("none", NoPod)} \/ plan \in {Plan("wait", NoPod)} \/ plan \in chosen
      \/ plan \in {Plan("refuseUnverified", NoPod)} \/ plan \in {Plan("refuse", NoPod)}
  BY Zenon, <1>1 DEF planFailover
<1> QED BY <1>2 DEF Plan

\* The engine elects nobody over a gather in which two holders are masters.
LEMMA NoElection ==
    ASSUME NEW s, NEW n, Engine(s, n), holdersForked(n)
    PROVE  op'.pc = "stamp" => op'.action \notin {"promote", "seed"}
<1>0. /\ IdleOp \in Passes /\ IdleOp.pc = "idle" /\ \A x : ToLabel(x).pc = "label"
      /\ ToLabelNone.pc = "label"
  BY IdleOpType DEF IdleOp, ToLabel, ToLabelNone
<1>1. PICK m, e :
         \/ PassBeyondBound
         \/ ResumeTransition(n, m)
         \/ DetectionWindow(s, n, m)
         \/ NoFailover(s, n, m)
         \/ RefuseFailover(s, n, m)
         \/ ElectMaster(s, n, m, e)
         \/ HealReplicas(s, n, m, e)
  BY DEF Engine
<1>2. CASE PassBeyondBound \/ DetectionWindow(s, n, m) \/ NoFailover(s, n, m) \/ RefuseFailover(s, n, m)
  <2>1. op'.pc \in {"idle", "label"}
    BY <1>0, <1>2 DEF PassBeyondBound, DetectionWindow, NoFailover, RefuseFailover
  <2> QED BY <2>1
<1>3. CASE ResumeTransition(n, m)
  <2>1. op'.pc = "promote"
    BY <1>0, <1>3 DEF ResumeTransition, Passes
  <2> QED BY <2>1
<1>4. CASE HealReplicas(s, n, m, e)
  <2>1. op'.action = "reauth"
    BY <1>0, <1>4 DEF HealReplicas, Passes
  <2> QED BY <2>1
<1>5. CASE ElectMaster(s, n, m, e)
  <2>1. PICK plan \in [action : {"seed", "promote", "unsafeElect"}, target : Pods] :
           Decision(s, n, m, plan) /\ op'.action = plan.action
    BY <1>0, <1>5 DEF ElectMaster, Passes
  <2>2. plan.action \notin {"promote", "seed"}
    BY <2>1, ForkRefused DEF Decision
  <2> QED BY <2>1, <2>2
<1> QED BY <1>1, <1>2, <1>3, <1>4, <1>5

LEMMA DemotionStep ==
    ASSUME IntentInv, [Next]_vars, NEW p \in Pods, redis[p].role = "master", redis'[p].role = "slave",
           ~pod[p].terminating, IsIntendedMaster(pod, p)
    PROVE  op.pc = "repoint" /\ \A q \in Pods : pod[q].ip # op.tip
<1>0. EpochInv /\ TypeOK /\ Stopped
  BY DEF IntentInv, EpochInv
<1>1. CASE OperatorStep
  <2>1. \/ op.pc = "fence" /\ pod[p].ip = op.fence /\ op.fence # NoIP
        \/ op.pc = "repoint" /\ pod[p].ip \in op.stragglers
    BY <1>0, <1>1, OperatorRoles
  <2>2. pod[p].role = "master"
    BY ReplicasAssumption DEF IsIntendedMaster, Masters, Pods, NoPod
  <2>3. ~(op.pc = "fence" /\ pod[p].ip = op.fence /\ op.fence # NoIP)
    BY <2>2 DEF IntentInv, Fenced
  <2>4. op.pc = "repoint" /\ pod[p].ip \in op.stragglers
    BY <2>1, <2>3
  <2>5. ASSUME NEW q \in Pods, pod[q].ip = op.tip PROVE FALSE
    <3>1. IsIntendedMaster(pod, q) /\ op.tip \notin op.stragglers
      BY <2>4, <2>5 DEF IntentInv, Named
    <3>2. p = q
      BY <1>0, <3>1, IntendedIsOne
    <3> QED BY <2>4, <2>5, <3>1, <3>2
  <2> QED BY <2>4, <2>5
<1>2. ASSUME NEW q \in Pods, PodStep(q) \/ Environment(q) PROVE FALSE
  BY <1>0, <1>2, PodRoles
<1>3. CASE WindowElapses \/ CooldownEnds \/ OperatorCrash \/ UNCHANGED vars
  BY <1>3 DEF WindowElapses, CooldownEnds, OperatorCrash, vars
<1> QED BY <1>1, <1>2, <1>3 DEF Next

----------------------------------------------------------------------------
(* Theorems.                                                               *)

INSTANCE FiniteSetTheorems

\* A new replication id exists: 2 * (Replicas + 1) records carry two ids each,
\* and the pool has one id more.
LEMMA FreshReplidType ==
  ASSUME TypeOK
  PROVE  FreshReplid \in Nat \ {0}
<1> DEFINE N    == 4 * (Replicas + 1)
           Slot == Pods \X (1 .. 4)
           Id(x) == CASE x[2] = 1 -> redis[x[1]].replid
                      [] x[2] = 2 -> redis[x[1]].replid2
                      [] x[2] = 3 -> op.nodes[x[1]].replid
                      [] x[2] = 4 -> op.nodes[x[1]].replid2
           Ids  == {Id(x) : x \in Slot}
<1>1. IsFiniteSet(Pods) /\ Cardinality(Pods) = Replicas + 1
  BY ReplicasAssumption, FS_Interval DEF Pods
<1>2. IsFiniteSet(1 .. 4) /\ Cardinality(1 .. 4) = 4
  <2>1. IsFiniteSet(1 .. 4) /\ Cardinality(1 .. 4) = IF 1 > 4 THEN 0 ELSE 4 - 1 + 1
    BY FS_Interval, 1 \in Int, 4 \in Int
  <2> QED BY <2>1
<1>3. IsFiniteSet(Slot) /\ Cardinality(Slot) = (Replicas + 1) * 4
  BY <1>1, <1>2, FS_Product
<1>4. IsFiniteSet(Ids) /\ Cardinality(Ids) =< Cardinality(Slot)
  <2> DEFINE f == [x \in Slot |-> Id(x)]
  <2> HIDE DEF Id, Slot
  <2>1. f \in Surjection(Slot, Ids)
    BY DEF Surjection
  <2> HIDE DEF f, Ids
  <2> QED BY <1>3, <2>1, FS_Surjection
<1>5. IdsInUse \subseteq Ids
  <2> SUFFICES ASSUME NEW p \in Pods, NEW r \in Replids(redis[p]) \cup Replids(op.nodes[p])
               PROVE  r \in Ids
    BY DEF IdsInUse
  <2>1. <<p, 1>> \in Slot /\ <<p, 2>> \in Slot /\ <<p, 3>> \in Slot /\ <<p, 4>> \in Slot
    OBVIOUS
  <2>2. /\ Id(<<p, 1>>) = redis[p].replid    /\ Id(<<p, 2>>) = redis[p].replid2
        /\ Id(<<p, 3>>) = op.nodes[p].replid /\ Id(<<p, 4>>) = op.nodes[p].replid2
    OBVIOUS
  <2>3. \E i \in 1 .. 4 : r = Id(<<p, i>>)
    BY <2>2 DEF Replids
  <2> HIDE DEF Id
  <2> QED BY <2>1, <2>3
<1>6. IsFiniteSet(1 .. N + 1) /\ Cardinality(1 .. N + 1) = N + 1
  BY ReplicasAssumption, FS_Interval
<1>7. \E r \in 1 .. N + 1 : r \notin IdsInUse
  <2> SUFFICES ASSUME 1 .. N + 1 \subseteq Ids PROVE FALSE
    BY <1>5
  <2>1. Cardinality(1 .. N + 1) =< Cardinality(Ids)
    BY Zenon, <1>4, FS_Subset
  <2>2. Cardinality(Ids) \in Nat /\ Cardinality(Slot) \in Nat
    BY Zenon, <1>3, <1>4, FS_CardinalityType
  <2> HIDE DEF Ids, Slot
  <2> QED BY <1>3, <1>4, <1>6, <2>1, <2>2, ReplicasAssumption
<1>8. FreshReplid \in 1 .. N + 1
  BY <1>7 DEF FreshReplid
<1> QED BY <1>8, ReplicasAssumption

\* What a probe returns has the type of an observation.
LEMMA ObservationType ==
  ASSUME TypeOK, NEW p \in Pods, NEW i \in IPs
  PROVE  Observation(p, i) \in Observations
<1>1. redis[p] \in Processes
  BY DEF TypeOK
<1>2. redis[p].data \in SUBSET (1 .. MaxWrites + 1)
  BY <1>1 DEF Processes
<1>3. Cardinality(redis[p].data) \in Nat
  <2>1. IsFiniteSet(1 .. MaxWrites + 1)
    BY FS_Interval, BoundsAssumption
  <2>2. IsFiniteSet(redis[p].data)
    BY Zenon, <1>2, <2>1, FS_Subset
  <2> QED BY <2>2, FS_CardinalityType
<1>4. NotProbed \in Observations
  BY NotProbedType
<1>5. CASE p \in At(i) /\ net[p] = "ok"
  BY <1>1, <1>3, <1>5 DEF Observation, Observations, Processes
<1>6. CASE ~(p \in At(i) /\ net[p] = "ok")
  <2>1. (p \in At(i) /\ net[p] = "auth") \in BOOLEAN
    OBVIOUS
  <2> QED BY Zenon, <1>4, <1>6, <2>1 DEF Observation, Observations, NotProbed, NoIP
<1> QED BY <1>5, <1>6

\* Every well-typed state has a free replication id and finite key counts.
LEMMA CountableType == TypeOK => Countable
  BY FreshReplidType, ObservationType DEF Countable

\* A pod in reach that runs as a master and holds data is observed as one.
LEMMA MasterObserved ==
    ASSUME TypeOK, Stopped, NEW a \in Pods, redis[a].role = "master", redis[a].data # {},
           Stampable(pod[a]), net[a] = "ok"
    PROVE  LET o == Observation(a, pod[a].ip)
           IN  o.probed /\ o.reachable /\ o.keys > 0 /\ o.role = "master"
<1>1. redis[a] \in Processes
  BY DEF TypeOK
<1>2. redis[a].up
  BY DEF Stopped
<1>3. a \in At(pod[a].ip)
  BY <1>2 DEF At, Stampable
<1>4. Cardinality(redis[a].data) > 0
  <2>1. redis[a].data \subseteq 1 .. MaxWrites + 1
    BY <1>1 DEF Processes
  <2>2. IsFiniteSet(1 .. MaxWrites + 1)
    BY SMTT(20), BoundsAssumption, FS_Interval
  <2>3. IsFiniteSet(redis[a].data)
    BY Zenon, <2>1, <2>2, FS_Subset
  <2>4. Cardinality(redis[a].data) \in Nat /\ Cardinality(redis[a].data) # 0
    BY <2>3, FS_CardinalityType, FS_EmptySet
  <2> QED BY <2>4
<1> QED BY <1>3, <1>4 DEF Observation

\* The model's variables keep the shapes of the code's types in every behaviour,
\* for any number of replicas and any bounds.
THEOREM TypeCorrect == Spec => []TypeOK
<1>1. Init => TypeOK
  BY InitType
<1>2. TypeOK /\ [Next]_vars => TypeOK'
  BY NextType, CountableType
<1> QED BY <1>1, <1>2, PTL DEF Spec

\* The epoch invariant holds in every behaviour: markers follow projected files,
\* files follow assignments, and a pass that stamps is ahead of them all.
THEOREM EpochInvariant == Spec => []EpochInv
<1>1. Init => EpochInv
  BY InitEpochs
<1>2. EpochInv /\ [Next]_vars => EpochInv'
  BY NextEpochs, CountableType DEF EpochInv
<1> QED BY <1>1, <1>2, PTL DEF Spec

\* resolveFailoverIntent never has to break a tie: at no time do two pods carry
\* a master assignment of the same epoch.
THEOREM OneMaster == Spec => []OneMasterPerEpoch
<1>1. EpochInv => OneMasterPerEpoch
  BY DEF EpochInv
<1> QED BY <1>1, EpochInvariant, PTL

\* stampFailoverAssignments never writes an epoch that a pod it means to release
\* has already consumed.
THEOREM StampsRelease == Spec => []StampsReleaseParkedPods
<1>1. EpochInv => StampsReleaseParkedPods
  <2> SUFFICES ASSUME EpochInv, op.pc = "stamp", NEW p \in op.todo \ op.fresh
               PROVE  op.epoch > ctr[p].marker
    BY DEF StampsReleaseParkedPods
  <2>1. p \in Pods /\ op.epoch \in Nat
    BY DEF EpochInv, TypeOK, Passes
  <2>2. /\ ctr[p].marker \in Nat /\ ctr[p].file.epoch \in Nat /\ pod[p].epoch \in Nat
    BY <2>1 DEF EpochInv, TypeOK, Containers, Assignments, PodObjects
  <2>3. ctr[p].marker =< ctr[p].file.epoch /\ ctr[p].file.epoch =< pod[p].epoch
    BY <2>1 DEF EpochInv, EpochsFlowDown
  <2>4. pod[p].epoch < op.epoch
    BY <2>1 DEF EpochInv, PassIsAhead
  <2> QED BY <2>1, <2>2, <2>3, <2>4
<1> QED BY <1>1, EpochInvariant, PTL

\* No step of the operator, the pods or the faults takes a pod object back to an
\* older assignment.
THEOREM EpochsGrow == Spec => EpochsNeverRegress
<1> QED BY NextGrows, EpochInvariant, PTL DEF Spec, EpochsNeverRegress, Grow

\* What a list, its probes and the addresses that a pass took from them still
\* stand for, in every behaviour: any pods, any faults, any number of them.
THEOREM IntentInvariant == Spec => []IntentInv
<1>1. Init => IntentInv
  BY InitIntent
<1>2. IntentInv /\ [Next]_vars => IntentInv'
  BY NextIntent, CountableType DEF IntentInv, EpochInv
<1> QED BY <1>1, <1>2, PTL DEF Spec

\* "Stamp the new intent first, then promote" (the election's execution order,
\* and the resume of a transition): whatever happened between the pod list and
\* REPLICAOF NO ONE, the pod that becomes master is the one the annotations
\* name at that moment.
THEOREM PromotionFollowsIntentAlways == Spec => PromotionFollowsIntent
<1> DEFINE Named1 == \A p \in Pods : redis[p].role = "slave" /\ redis'[p].role = "master"
                                      => IsIntendedMaster(pod, p)
<1>1. ASSUME IntentInv, [Next]_vars PROVE [Named1]_vars
  <2>0. TypeOK /\ Stopped
    BY <1>1 DEF IntentInv, EpochInv
  <2> SUFFICES ASSUME NEW p \in Pods, redis[p].role = "slave", redis'[p].role = "master"
               PROVE  IsIntendedMaster(pod, p)
    OBVIOUS
  <2>1. CASE OperatorStep
    <3>1. op.pc = "promote" /\ pod[p].ip = op.tip
      BY <2>0, <2>1, OperatorRoles
    <3> QED BY <1>1, <3>1 DEF IntentInv, Named
  <2>2. ASSUME NEW q \in Pods, PodStep(q) \/ Environment(q) PROVE FALSE
    BY <2>0, <2>2, PodRoles
  <2>3. CASE WindowElapses \/ CooldownEnds \/ OperatorCrash \/ UNCHANGED vars
    BY <2>3 DEF WindowElapses, CooldownEnds, OperatorCrash, vars
  <2> QED BY <1>1, <2>1, <2>2, <2>3 DEF Next
<1> QED BY <1>1, IntentInvariant, PTL DEF Spec, PromotionFollowsIntent

\* The fence never demotes the pod that the annotations name, unless it is
\* terminating; the repoint of stragglers does so only when the living master
\* it repoints to has gone since the pass listed it.
THEOREM DemotionsSpareAlways == Spec => DemotionsSpare
<1> DEFINE Spare == \A p \in Pods : redis[p].role = "master" /\ redis'[p].role = "slave" =>
                       \/ pod[p].terminating \/ ~IsIntendedMaster(pod, p)
                       \/ op.pc = "repoint" /\ \A q \in Pods : pod[q].ip # op.tip
<1>1. ASSUME IntentInv, [Next]_vars PROVE [Spare]_vars
  BY <1>1, DemotionStep
<1> QED BY <1>1, IntentInvariant, PTL DEF Spec, DemotionsSpare

\* Where pods are not deleted, no step demotes the pod that the annotations
\* name, with any number of kills, crashes, partitions, failing calls and old
\* lists.
THEOREM DemotionSparesIntentAlways ==
    ASSUME \A sc \in Scenarios : sc.budget["deletes"] = 0
    PROVE  Spec => DemotionSparesIntent
<1> DEFINE Spare == \A p \in Pods : redis[p].role = "master" /\ redis'[p].role = "slave" =>
                       pod[p].terminating \/ ~IsIntendedMaster(pod, p)
<1>1. Init => Lasting
  BY InitLasts
<1>2. IntentInv /\ Lasting /\ [Next]_vars => Lasting'
  BY NextLasts, CountableType DEF IntentInv, EpochInv
<1>3. ASSUME IntentInv, Lasting, [Next]_vars PROVE [Spare]_vars
  BY <1>3, DemotionStep DEF Lasting
<1> QED BY <1>1, <1>2, <1>3, IntentInvariant, PTL DEF Spec, DemotionSparesIntent

\* LR-057: where a pass decides on what the pods are at that moment, it elects
\* nobody without the opt-in while two pods in reach run as masters with data,
\* whatever faults led to that.
THEOREM NoElectionAcrossForkAlways ==
    ASSUME \A sc \in Scenarios : sc.budget["torn"] = 0
    PROVE  Spec => NoElectionAcrossFork
<1> DEFINE Decides ==
       op.pc # "stamp" /\ op'.pc = "stamp" /\ op'.action \in {"promote", "seed"}
       => ~\E a, b \in Pods : /\ a # b /\ {redis[a].role, redis[b].role} = {"master"}
                              /\ redis[a].data # {} /\ redis[b].data # {}
                              /\ Stampable(pod[a]) /\ Stampable(pod[b])
                              /\ net[a] = "ok" /\ net[b] = "ok"
<1>1. Init => Whole
  <2> SUFFICES ASSUME Init PROVE Whole
    OBVIOUS
  <2>1. op.pc = "idle"
    BY Zenon DEF Init, IdleOp
  <2>2. budget["torn"] = 0
    BY DEF Init
  <2> QED BY <2>1, <2>2 DEF Whole
<1>2. IntentInv /\ Whole /\ [Next]_vars => Whole'
  BY NextWhole DEF IntentInv, EpochInv
<1>3. ASSUME IntentInv, Whole, [Next]_vars, ~Decides PROVE FALSE
  <2>0. /\ TypeOK /\ Stopped /\ op \in Passes /\ IdleOp \in Passes /\ IdleOp.pc = "idle"
        /\ ToLabelNone.pc = "label" /\ op.pc # "gather"
    BY <1>3, IdleOpType DEF IntentInv, EpochInv, TypeOK, Whole, IdleOp, ToLabel, ToLabelNone
  <2>1. CASE ReconcileAssignments
    <3> DEFINE n == [p \in Pods |-> IF Stampable(pod[p]) THEN Observation(p, pod[p].ip) ELSE NotProbed]
    <3>1. Engine(pod, n)
      BY <2>1 DEF ReconcileAssignments
    <3>2. PICK a \in Pods, b \in Pods :
             /\ a # b /\ redis[a].role = "master" /\ redis[b].role = "master"
             /\ redis[a].data # {} /\ redis[b].data # {}
             /\ Stampable(pod[a]) /\ Stampable(pod[b]) /\ net[a] = "ok" /\ net[b] = "ok"
      BY Zenon, <1>3
    <3>3. n[a] = Observation(a, pod[a].ip) /\ n[b] = Observation(b, pod[b].ip) /\ DOMAIN n = Pods
      BY <3>2
    <3> HIDE DEF n
    <3>4. n[a].probed /\ n[a].reachable /\ n[a].keys > 0 /\ n[a].role = "master"
      BY <2>0, <3>2, <3>3, MasterObserved
    <3>5. n[b].probed /\ n[b].reachable /\ n[b].keys > 0 /\ n[b].role = "master"
      BY Zenon, <2>0, <3>2, <3>3, MasterObserved
    <3>6. holdersForked(n)
      BY Zenon, <3>2, <3>3, <3>4, <3>5 DEF holdersForked, DataHolders
    <3> QED BY <1>3, <3>1, <3>6, NoElection
  <2>2. CASE BootstrapFailover
    <3>1. op' = IdleOp \/ op'.action = "bootstrap"
      BY <2>0, <2>2 DEF BootstrapFailover, Passes
    <3> QED BY <1>3, <2>0, <3>1
  <2>3. CASE RepointStragglers
    <3>1. op.pc = "repoint" /\ op'.action = op.action
      BY <2>0, <2>3 DEF RepointStragglers, Passes
    <3> QED BY <1>3, <3>1 DEF Whole
  <2>4. CASE InitBootstrapFlag \/ BootstrapWaits \/ ListFails \/ UpdateStatus \/ UpdateLabels
             \/ MarkTransition \/ ClearBootstrapFlag
    <3>1. /\ [IdleOp EXCEPT !.pc = "clearFlag"].pc = "clearFlag"
          /\ [IdleOp EXCEPT !.pc = "engine"].pc = "engine"
          /\ [IdleOp EXCEPT !.pc = "status"].pc = "status"
      BY <2>0 DEF Passes
    <3> QED BY Zenon, <1>3, <2>0, <2>4, <3>1
            DEF InitBootstrapFlag, BootstrapWaits, ListFails, UpdateStatus, UpdateLabels,
                MarkTransition, ClearBootstrapFlag
  <2>5. CASE StampAssignments
    BY <1>3, <2>5 DEF StampAssignments
  <2>6. CASE PromoteMaster \/ FenceOutgoingMaster
    <3>1. op'.pc \in {"fence", "mark", "label"}
      BY Zenon, <2>0, <2>6 DEF PromoteMaster, FenceOutgoingMaster, AfterPromotion, Passes
    <3> QED BY <1>3, <3>1
  <2>7. ~ListPods /\ ~DecideOnGather /\ \A p \in Pods : ~Probe(p)
    <3>1. ~ListPods
      BY <1>3 DEF ListPods, Spend, Whole
    <3> QED BY Zenon, <2>0, <3>1 DEF DecideOnGather, Probe
  <2>8. ASSUME NEW p \in Pods, PodStep(p) \/ Environment(p) PROVE FALSE
    <3>1. op' = op
      BY Zenon, <2>8
      DEF PodStep, Environment, AssignIP, Project, ReportStatus, StartRedis, StartOnTornRead,
          Recreate, PodGone, Sync, LinkLost, Write, KillContainer, DeletePod, PreStopFence, Cut, Heal
    <3> QED BY <1>3, <3>1
  <2>9. CASE WindowElapses \/ CooldownEnds \/ OperatorCrash \/ UNCHANGED vars
    BY <1>3, <2>0, <2>9 DEF WindowElapses, CooldownEnds, OperatorCrash, vars
  <2> QED BY Zenon, <1>3, <2>1, <2>2, <2>3, <2>4, <2>5, <2>6, <2>7, <2>8, <2>9 DEF Next, OperatorStep
<1>4. ASSUME IntentInv, Whole, [Next]_vars PROVE [Decides]_vars
  BY <1>3, <1>4
<1> QED BY <1>1, <1>2, <1>4, IntentInvariant, PTL DEF Spec, NoElectionAcrossFork
============================================================================
