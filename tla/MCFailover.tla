---------------------------- MODULE MCFailover ----------------------------
(***************************************************************************)
(* The scenarios in which TLC explores Failover.  Each begins in a state   *)
(* the program reaches and names how many faults and writes may follow.    *)
(***************************************************************************)
EXTENDS Failover

\* The events of the record f, and no others.
Scenario(start, f) ==
    [start |-> start, budget |-> [e \in Events |-> IF e \in DOMAIN f THEN f[e] ELSE 0]]

\* Two pods: a bootstrap that is interrupted and repeated, before or after the
\* first write; a container death after an earlier failover; a death beside a
\* pod that refuses the operator's credential; a deleted pod; a deleted pod
\* under a pass that decides on an old list.
Bootstrap == Scenario("new", [crashes |-> 1, errors |-> 1])
Rewrites  == Scenario("new", [writes |-> 1, crashes |-> 1])
Kill      == Scenario("failedOver", [writes |-> 1, kills |-> 1, crashes |-> 1, errors |-> 1])
AuthLost  == Scenario("settled", [writes |-> 1, kills |-> 1, auth |-> 1])
Delete    == Scenario("settled", [writes |-> 1, deletes |-> 1, crashes |-> 1, errors |-> 1])
TornPass  == Scenario("settled", [writes |-> 1, deletes |-> 1, torn |-> 1])
SingleFaults == {Bootstrap, Rewrites, Kill, AuthLost, Delete, TornPass}

\* Three pods: a death while the replicas are at different offsets; a death after
\* two partitions have left three branches of one lineage.
UnevenReplicas == Scenario("failedOver", [writes |-> 1, kills |-> 1])
ForkedLineage  == Scenario("forked", [kills |-> 1])
Elections == {UnevenReplicas, ForkedLineage}

\* The scenarios of the disagreements with the code's comments.
DeleteThenKill  == {Scenario("settled", [kills |-> 1, deletes |-> 1])}
KillThenDelete  == {Scenario("failedOver", [kills |-> 1, deletes |-> 1])}
TwoKills        == {Scenario("failedOver", [kills |-> 2])}
KillAfterReturn == {Scenario("partitioned", [writes |-> 2, kills |-> 1])}
PhaseNotWritten == {Scenario("new", [writes |-> 1, errors |-> 1])}
============================================================================
