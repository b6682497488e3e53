----------------------------- MODULE MCCluster -----------------------------
(* Small instances of Cluster.tla.                                         *)
EXTENDS Cluster, TLC

None == [crashes |-> 0, losses |-> 0, flaps |-> 0, errors |-> 0, probes |-> 0, frail |-> {},
         elects |-> FALSE]

Blank == [p \in Pods |-> Started(p, 1, 1, FALSE)]

\* The converged cluster: ordinal 0 of shard k owns range k, the others of
\* the shard replicate it, all hold its data, and epochs are distinct.
OwnerId(s) == CHOOSE id \in {IdOf(<<k, 0>>, 1) : k \in Shards} :
                 s \in ExpandSlotRange(GenerateSlotRanges[id[1]])
Formed == [p \in Pods |->
    [Blank[p] EXCEPT
        !.view = {IdOf(q, 1) : q \in Pods},
        !.role = IF p[2] = 0 THEN "master" ELSE "replica",
        !.master = IF p[2] = 0 THEN NoId ELSE IdOf(<<p[1], 0>>, 1),
        !.smap = [s \in Slots |-> [id |-> OwnerId(s), ep |-> OwnerId(s)[1] + 1]],
        !.ep = IF p[2] = 0 THEN p[1] + 1 ELSE 0,
        !.data = ExpandSlotRange(GenerateSlotRanges[p[1]])]]

\* The same after a failover of shard 0.
FailedOver == [p \in Pods |->
    LET n == [Formed[p] EXCEPT !.smap = [s \in Slots |->
                 IF OwnerId(s)[1] = 0 THEN [id |-> IdOf(<<0, 1>>, 1), ep |-> 4] ELSE @[s]]]
    IN  IF p = <<0, 1>> THEN [n EXCEPT !.role = "master", !.master = NoId, !.ep = 4]
        ELSE IF p = <<0, 0>> THEN [n EXCEPT !.role = "replica", !.master = IdOf(<<0, 1>>, 1)]
        ELSE n]

\* Ranges 0 and 2 consolidated on the master of shard 0; shard 2 is empty.
Consolidated == [p \in Pods |->
    LET n == [Formed[p] EXCEPT
                !.smap = [s \in Slots |-> IF OwnerId(s)[1] = 2 THEN Formed[p].smap[CHOOSE t \in Slots : OwnerId(t)[1] = 0]
                                         ELSE Formed[p].smap[s]]]
        two == ExpandSlotRange(GenerateSlotRanges[0]) \cup ExpandSlotRange(GenerateSlotRanges[2])
    IN  IF p[1] = 2 THEN [n EXCEPT !.role = "master", !.master = NoId, !.ep = 0, !.data = {}]
        ELSE IF p[1] = 0 THEN [n EXCEPT !.data = two] ELSE n]

\* Two faults of any kind, on a whole shard or on two masters.
TwoFaults(F) == {[node |-> Formed, budget |->
    [None EXCEPT !.crashes = c, !.losses = 2 - c, !.frail = F]] : c \in 0..2}
CrashAndLoss(F) == [None EXCEPT !.crashes = 1, !.losses = 1, !.frail = F]
FaultScenarios ==
    {[node |-> Blank, budget |-> [None EXCEPT !.crashes = 1, !.frail = {<<0, 0>>}]]}
    \cup {[node |-> n, budget |-> [None EXCEPT !.probes = 1, !.frail = Pods]] :
            n \in {Blank, FailedOver}}
    \cup {[node |-> Formed, budget |-> [None EXCEPT !.probes = 2, !.frail = {<<k, 0>>}]] : k \in {0, 1}}
    \cup {[node |-> Formed, budget |-> [None EXCEPT !.probes = 1, !.crashes = 1, !.frail = {<<0, 0>>}]]}
    \cup {[node |-> Consolidated, budget |-> None]}
    \cup TwoFaults({<<0, 0>>, <<0, 1>>})
    \cup {[node |-> Formed, budget |-> CrashAndLoss({<<0, 0>>, <<2, 0>>})]}
\* One fault without the help of an election; with it, a flap or a failing
\* command besides, or two faults.
OneFault == {[None EXCEPT !.crashes = c, !.losses = 1 - c, !.frail = {<<0, 0>>}] : c \in 0..1}
LiveScenarios ==
    {[node |-> Blank, budget |-> None]} \cup
    {[node |-> Formed, budget |-> b] : b \in OneFault \cup
        {[b EXCEPT !.elects = TRUE, !.flaps = b.losses, !.errors = 1] : b \in OneFault} \cup
        {[CrashAndLoss({<<0, 0>>, <<2, 0>>}) EXCEPT !.elects = TRUE]}}
FailedTakeoverScenarios ==
    {[node |-> Formed, budget |-> [None EXCEPT !.losses = 1, !.errors = 1, !.frail = {<<0, 0>>}]]}
MaskedScenarios == {[node |-> Formed, budget |-> CrashAndLoss({<<0, 0>>, <<2, 0>>})]}
=============================================================================
