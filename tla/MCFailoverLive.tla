-------------------------- MODULE MCFailoverLive --------------------------
(***************************************************************************)
(* Failover under fairness.  While the kubelet of a parked pod lags, or a  *)
(* pod is cut off, every pass re-authorizes or re-seeds at one more epoch, *)
(* so epochs have no bound.  Here a pass begins only when no kubelet lags  *)
(* behind and, once a container has died, no pod is cut off.  That bounds  *)
(* the epochs a behaviour can use; MaxEpoch is above the bound.            *)
(***************************************************************************)
EXTENDS MCFailover

Lagging ==
    \E p \in Pods : \/ ENABLED (Project(p) \/ ReportStatus(p) \/ StartRedis(p))
                    \/ net[p] # "ok" /\ \E q \in Pods : ctr[q].restarted

PromptNext == Next /\ (op.pc = "idle" /\ op'.pc # "idle" => ~Lagging)

LiveSpec == Init /\ [][PromptNext]_vars /\ Fairness

\* A death after an earlier failover, a new resource, a deleted pod: each with an
\* operator crash, the first two with a failing call as well.
FaultsThatStop ==
    {Kill, Scenario("new", [crashes |-> 1, errors |-> 1]),
     Scenario("settled", [writes |-> 1, deletes |-> 1, crashes |-> 1])}

\* A death after two partitions.
ForkThatHeals == {ForkedLineage}

\* planFailoverReauth's comment grants that a lagging kubelet inflates the epoch
\* counter.  Without lag a fault costs a bounded number of epochs: no pod is
\* re-authorized again and again once it has been released.
EpochsStayBounded == \A p \in Pods : pod[p].epoch < MaxEpoch
============================================================================
