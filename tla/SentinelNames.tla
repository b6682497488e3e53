--------------------------- MODULE SentinelNames ---------------------------
(***************************************************************************)
(* The master name of a sentinel-mode instance: its rename, which rolls    *)
(* the Redis pods and leaves every Sentinel with two names until Rule N    *)
(* prunes the old one and the operation is acknowledged; and its capture   *)
(* by another deployment that uses the same name, which the pass answers   *)
(* with a verdict and a quarantine at zero replicas.                       *)
(*                                                                         *)
(* Failovers, elections and replica rescue are Sentinel's; here they take  *)
(* one step.  The Sentinels of a name agree on its address.                *)
(*                                                                         *)
(* name     spec.sentinel.masterName                                       *)
(* sts      tpl: the name in the pod template; size: 0 or the pods;        *)
(*          observed, settled: what the status of the StatefulSet says     *)
(* Ghost    the address pod p had before it was replaced                   *)
(* pod[p]   st: "gone", "parked" in the startup loop or "up"; tpl; of: the *)
(*          address it replicates, None for a master; data: "none", "own"  *)
(*          or the "captor"'s; leaving: terminating                        *)
(* has[s]   the names Sentinel s monitors                                  *)
(* at[n]    the address under name n; down[n]: flagged s_down or o_down    *)
(* marks    forsakenSince, quarantinedSince, quarantineAttempts, whether   *)
(*          the phase is Running, the acknowledged name                    *)
(* op       the pass: the name it read, the addresses it listed and the    *)
(*          live ones among them, whether the StatefulSet was rolling, the *)
(*          master, the Sentinels to give the name and those to prune, the *)
(*          driver's report                                                *)
(*                                                                         *)
(* Prompt stands for the timing the code counts on: a pass reads a status  *)
(* that has caught up, no failover lands between its gather and its end, a *)
(* pod whose probe is lost is not resyncing, and the settle period of the  *)
(* quarantine outlasts the scale-down.                                     *)
(***************************************************************************)
EXTENDS Integers, FiniteSets

CONSTANTS Pods, Sentinels, First, Ghost, Prompt, Scenarios

ASSUME NamesConstants ==
    /\ IsFiniteSet(Pods) /\ First \in Pods /\ Cardinality(Sentinels) = 3 /\ Prompt \in BOOLEAN
    /\ DOMAIN Ghost = Pods /\ \A p, q \in Pods : Ghost[p] \notin Pods /\ (Ghost[p] = Ghost[q] => p = q)

ASSUME AddressesDiffer == {"none", "captor"} \cap (Pods \cup {Ghost[p] : p \in Pods}) = {}

\* What a scenario may spend: edits of the name and writes, faults, lost probes
\* and failing commands; whether spec.auth is enabled; the initial data.
Budgets ==
    [edits : Nat, writes : Nat, evictions : Nat, sentinels : Nat, captures : Nat,
     probes : Nat, errors : Nat, auth : BOOLEAN, data : {"none", "own"}]

ASSUME ScenariosAreBudgets == Scenarios \subseteq Budgets

VARIABLES name, sts, pod, has, at, down, marks, op, budget

redis == <<pod, has, at, down>>
vars  == <<name, sts, pod, has, at, down, marks, op, budget>>

Names  == {"old", "new"}
None   == "none"
Captor == "captor"

Spend(what)     == budget[what] > 0 /\ budget' = [budget EXCEPT ![what] = @ - 1]
Ghosts          == {Ghost[p] : p \in Pods}
Renamed(x, p)   == IF x = p THEN Ghost[p] ELSE x
Up(p)           == pod[p].st = "up"
IsMaster(p)     == Up(p) /\ pod[p].of = None
Living(x)       == x \in {p \in Pods : Up(p)} \cup {Captor}
DataAt(x)       == CASE x = Captor -> "captor" [] x \in Pods -> pod[x].data [] OTHER -> "none"
Copied(p)       == pod[p].of # None => Living(pod[p].of) /\ pod[p].data = DataAt(pod[p].of)
UpIsReady(p)    == Up(p) /\ ~pod[p].leaving                            \* mutant
Ready(p)        == Up(p) /\ Copied(p) /\ ~pod[p].leaving
Monitors(n)     == {s \in Sentinels : n \in has[s]}
Blank(st, tpl)  == [st |-> st, tpl |-> tpl, of |-> None, data |-> "none", leaving |-> FALSE]

----------------------------------------------------------------------------
(* The verdicts of a pass.  R and S are the pods and Sentinels that        *)
(* answered.                                                               *)

statefulSetRolloutSettled == sts.observed /\ sts.settled

IsOurs(x) == x \in op.listed
Observed(S) == UNION {has[s] : s \in S}

\* Every address the reachable Sentinels monitor, under any name, is one
\* living address that is not ours, and no pod of ours is a master.
forsakenSignature(R, S) ==
    /\ Cardinality({s \in S : has[s] # {}}) >= 2
    /\ \E x \in Ghosts \cup {Captor} : \A n \in Observed(S) : at[n] = x /\ ~IsOurs(x) /\ ~down[n]
    /\ \A p \in R : pod[p].of # None

EvenRolling(R, S) == forsakenSignature(R, S)                            \* mutant
Captured(R, S) == forsakenSignature(R, S) /\ (op.rolling => marks.forsaken # "clear")
Forsaken(R, S) == Captured(R, S) /\ marks.forsaken = "due"

OnlyWhatAnswers(R) == \E p \in R : pod[p].data = "own"                  \* mutant
\* Keys that are no copy of the captor's, or a pod that does not answer
\* while its container is ready.
quarantineDataRisk(R) ==
    \/ \E p \in R : pod[p].data # "none" /\ ~(pod[p].of = Captor /\ pod[p].data = "captor")
    \/ \E p \in (op.live \cap Pods) \ R : Up(p) /\ Copied(p)

Limit == IF budget.auth THEN 2 ELSE 1

\* planQuarantine: a marker is decided before the evidence.
Holds(q)    == q # "clear" /\ (marks.attempts >= Limit \/ q = "cooling")
Releases(q) == q = "due" /\ marks.attempts < Limit
Arms(R, S)  == marks.quarantine = "clear" /\ Forsaken(R, S) /\ ~quarantineDataRisk(R)

sentinelDesiredReplicas == IF Holds(marks.quarantine) THEN 0 ELSE Cardinality(Pods)

\* The majority's address if it is a live one; none while the majority is on
\* a ghost; else any pod that says it is a master.
DetermineRealMaster(R, S) ==
    LET major == 2 * Cardinality(Monitors(op.name) \cap S) > Cardinality(S)
        claim == {p \in R : pod[p].of = None}
    IN  CASE major /\ at[op.name] \in op.live -> {at[op.name]}
          [] ~major /\ claim # {} -> claim
          [] OTHER -> {None}

EvenFlaggedDown(R, S, m) ==                                             \* mutant
    LET stale == Observed(S) \ {op.name}
        gates == m \in R /\ \A n \in stale : IsOurs(at[n])
    IN  [prune |-> IF gates THEN {s \in S : op.name \in has[s] /\ has[s] # {op.name}} ELSE {},
         done  |-> stale = {}]

\* Rule N: the Sentinels to prune, and whether nothing stale is left.
planStaleMasterNames(R, S, m) ==
    LET stale   == Observed(S) \ {op.name}
        foreign == \E n \in stale : ~IsOurs(at[n]) /\ ~down[n]
        gates   == /\ ~Captured(R, S) /\ ~foreign
                   /\ m \in R /\ (m \in R => pod[m].of = None)
                   /\ Cardinality(S) >= 2
    IN  [prune |-> IF gates THEN {s \in S : op.name \in has[s] /\ has[s] # {op.name}} ELSE {},
         done  |-> stale = {} /\ ~Captured(R, S)]

----------------------------------------------------------------------------
(* The pass.                                                               *)

Idle == [pc |-> "idle", name |-> None, listed |-> {}, live |-> {}, rolling |-> FALSE,
         master |-> None, bare |-> {}, prune |-> {}, done |-> FALSE]

\* The StatefulSets are applied, then the pods and the StatefulSet are read.
Begin ==
    /\ op.pc = "idle" /\ (Prompt => sts.observed)
    /\ LET new == [sts EXCEPT !.tpl = name, !.size = sentinelDesiredReplicas]
       IN  /\ sts' = IF new = sts THEN sts ELSE [new EXCEPT !.observed = FALSE]
           /\ op' = [Idle EXCEPT !.pc = "gather", !.name = name,
                                 !.listed = {p \in Pods : pod[p].st # "gone"},
                                 !.live = {p \in Pods : pod[p].st # "gone" /\ ~pod[p].leaving},
                                 !.rolling = new # sts \/ ~statefulSetRolloutSettled]
    /\ UNCHANGED <<name, redis, marks, budget>>

\* updateSentinelStatus, where a pass ends.
Running ==
    /\ sts.size # 0 /\ \A p \in Pods : Ready(p)
    /\ at[name] \in Pods /\ Monitors(name) = Sentinels

Marked(f, q, k) ==
    marks' = [marks EXCEPT !.forsaken = f, !.quarantine = q, !.attempts = k]
Stop(f, q, k) ==
    marks' = [marks EXCEPT !.forsaken = f, !.quarantine = q, !.attempts = k, !.running = Running]

Since(mark) == IF mark = "clear" THEN "cooling" ELSE mark

Gather ==
    /\ op.pc = "gather"
    /\ \E lost \in {{}} \cup {{x} : x \in Pods \cup Sentinels} :
       LET R == {p \in op.live \cap Pods : Up(p)} \ lost
           S == IF sts.size = 0 THEN {} ELSE Sentinels \ lost
       IN  /\ IF lost = {} THEN UNCHANGED budget ELSE Spend("probes")
           /\ Prompt => \A p \in lost \cap Pods : Copied(p)
           /\ \/ /\ Holds(marks.quarantine) \/ Arms(R, S)
                 /\ Stop(Since(marks.forsaken), Since(marks.quarantine),
                         IF marks.quarantine = "clear" THEN marks.attempts + 1 ELSE marks.attempts)
                 /\ op' = Idle
              \/ /\ ~Holds(marks.quarantine) /\ ~Arms(R, S) /\ Forsaken(R, S)
                 /\ Stop(marks.forsaken, marks.quarantine, marks.attempts)
                 /\ op' = Idle
              \/ /\ ~Holds(marks.quarantine) /\ ~Forsaken(R, S)
                 /\ IF Captured(R, S) THEN Marked("cooling", marks.quarantine, marks.attempts)
                    ELSE Marked("clear",
                                IF Releases(marks.quarantine) \/ (marks.running /\ marks.attempts # 0)
                                THEN "clear" ELSE marks.quarantine,
                                IF marks.running THEN 0 ELSE marks.attempts)
                 /\ \E m \in DetermineRealMaster(R, S) :
                       LET plan == planStaleMasterNames(R, S, m)
                       IN  op' = [op EXCEPT !.pc = "rule0", !.master = m,
                                     !.done = plan.done /\ marks.quarantine = "clear",
                                     !.prune = plan.prune,
                                     !.bare = IF m = None THEN {} ELSE S \ Monitors(op.name)]
    /\ UNCHANGED <<name, sts, redis>>

\* Rule 0 registers the name; a Sentinel may refuse.
Rule0 ==
    /\ op.pc = "rule0"
    /\ \E ok \in SUBSET op.bare :
        /\ \/ ok = op.bare /\ UNCHANGED budget
           \/ (\E s \in op.bare : ok = op.bare \ {s}) /\ Spend("errors")
        /\ has' = [s \in Sentinels |-> IF s \in ok THEN has[s] \cup {op.name} ELSE has[s]]
        /\ at'   = IF ok = {} THEN at ELSE [at EXCEPT ![op.name] = op.master]
        /\ down' = IF ok = {} THEN down ELSE [down EXCEPT ![op.name] = FALSE]
    /\ op' = [op EXCEPT !.pc = "prune"]
    /\ UNCHANGED <<name, sts, pod, marks>>

\* G6, asked again of each Sentinel before REMOVE.
Confirmed(s) == op.name \in has[s]

\* The REMOVEs; one may fail.
Prune ==
    /\ op.pc = "prune" /\ op.prune # {}
    /\ \E skip \in {{}} \cup {{s} : s \in op.prune} :
        /\ IF skip = {} THEN UNCHANGED budget ELSE Spend("errors")
        /\ has' = [s \in Sentinels |-> IF s \in op.prune \ skip /\ Confirmed(s)
                                      THEN has[s] \cap {op.name} ELSE has[s]]
    /\ op' = [op EXCEPT !.prune = {}]
    /\ UNCHANGED <<name, sts, pod, at, down, marks>>

AcksWhenDone == op.done                                                 \* mutant
\* planOperation: the driver is done and both StatefulSets are settled.
Acknowledges == op.done /\ ~op.rolling

\* What Rules L and R and the ghost-master recovery come to.
Rescued(m) ==
    pod' = [p \in Pods |->
        IF p # m /\ Up(p) /\ ~pod[p].leaving /\ pod[p].of # m THEN [pod[p] EXCEPT !.of = m] ELSE pod[p]]
Stuck ==
    /\ sts.size # 0
    /\ \/ Monitors(op.name) = {}
       \/ /\ at[op.name] \in Ghosts /\ down[op.name]
          /\ \A p \in Pods : Up(p) /\ ~pod[p].leaving => pod[p].of # at[op.name]
Holders == {p \in Pods : Up(p) /\ pod[p].data # "none"}
Contested ==
    IF Monitors(op.name) = {} THEN Cardinality(Holders) > 1
    ELSE \/ Cardinality({p \in Holders : IsMaster(p)}) > 1
         \/ Cardinality({pod[p].data : p \in Holders}) > 1
Elected ==
    CASE Holders = {} -> {IF pod[First].st = "gone" THEN CHOOSE p \in Pods : pod[p].st # "gone" ELSE First}
      [] Holders # {} /\ Contested -> {}
      [] OTHER -> Holders

Leaving  == \E p \in Pods : pod[p].leaving
Rescues  == op.master \in Pods /\ Living(op.master) /\ ~Leaving
Recovers == op.master = None /\ Stuck /\ ~Leaving /\ \E p \in Pods : pod[p].st # "gone"

End ==
    /\ op.pc = "prune" /\ op.prune = {}
    /\ \/ Rescues /\ Rescued(op.master) /\ UNCHANGED <<has, at, down>>
       \/ /\ Recovers
          /\ \E p \in Elected :
              /\ pod' = IF Up(p) THEN [pod EXCEPT ![p].of = None] ELSE pod
              /\ has' = [s \in Sentinels |-> has[s] \cup {op.name}]
              /\ at' = [at EXCEPT ![op.name] = p] /\ down' = [down EXCEPT ![op.name] = FALSE]
       \/ ~Rescues /\ (Recovers => Elected = {}) /\ UNCHANGED redis
    /\ marks' = [marks EXCEPT !.running = Running, !.ack = IF Acknowledges THEN op.name ELSE @]
    /\ op' = Idle
    /\ UNCHANGED <<name, sts, budget>>

Operator == Begin \/ Gather \/ Rule0 \/ Prune \/ End

\* Both StatefulSets are down to zero.
Emptied == (\A p \in Pods : pod[p].st = "gone") /\ \A s \in Sentinels : has[s] = {}
Cool ==
    /\ marks.forsaken = "cooling" \/ (marks.quarantine = "cooling" /\ (Prompt => Emptied))
    /\ marks' = [marks EXCEPT !.forsaken = IF @ = "cooling" THEN "due" ELSE @,
                              !.quarantine = IF @ = "cooling" /\ (Prompt => Emptied) THEN "due" ELSE @]
    /\ UNCHANGED <<name, sts, redis, op, budget>>

----------------------------------------------------------------------------
(* The owner, Kubernetes and the startup script.                           *)

Edit ==
    /\ Spend("edits")
    /\ name' \in Names \ {name}
    /\ UNCHANGED <<sts, redis, marks, op>>

StatusSync ==
    /\ LET settled == /\ \A p \in Pods : pod[p].st # "gone" => pod[p].tpl = sts.tpl
                      /\ Cardinality({p \in Pods : Ready(p)}) = sts.size
       IN  sts' = [sts EXCEPT !.observed = TRUE, !.settled = settled]
    /\ UNCHANGED <<name, redis, marks, op, budget>>

Outdated(p) == pod[p].st # "gone" /\ ~pod[p].leaving /\ pod[p].tpl # sts.tpl

\* A rolling update replaces a pod, ready or not, once those it replaced
\* before are ready; the first pod comes last.
Roll(p) ==
    /\ sts.size # 0 /\ Outdated(p)
    /\ \A q \in Pods \ {p} : Ready(q) \/ (Outdated(q) /\ p # First) \/ q = First
    /\ p = First => \A q \in Pods \ {p} : ~Outdated(q)
    /\ pod' = [pod EXCEPT ![p].leaving = TRUE]
    /\ UNCHANGED <<name, sts, has, at, down, marks, op, budget>>

Evict(p) ==
    /\ pod[p].st # "gone" /\ ~pod[p].leaving /\ Spend("evictions")
    /\ pod' = [pod EXCEPT ![p].leaving = TRUE]
    /\ UNCHANGED <<name, sts, has, at, down, marks, op>>

\* The pod goes, and its address with it; at zero replicas the Sentinels go
\* as well.
Kill(p) ==
    /\ pod[p].st # "gone" /\ (pod[p].leaving \/ sts.size = 0)
    /\ pod' = [q \in Pods |-> IF q = p THEN Blank("gone", sts.tpl)
                              ELSE [pod[q] EXCEPT !.of = Renamed(@, p)]]
    /\ at' = [n \in Names |-> Renamed(at[n], p)]
    /\ op' = [op EXCEPT !.listed = {Renamed(x, p) : x \in @}, !.live = {Renamed(x, p) : x \in @},
                        !.master = Renamed(@, p)]
    /\ sts' = IF Prompt THEN [sts EXCEPT !.settled = FALSE] ELSE sts
    /\ UNCHANGED <<name, has, down, marks, budget>>

StopSentinels ==
    /\ sts.size = 0 /\ \E s \in Sentinels : has[s] # {}
    /\ has' = [s \in Sentinels |-> {}] /\ at' = [n \in Names |-> None]
    /\ down' = [n \in Names |-> FALSE]
    /\ UNCHANGED <<name, sts, pod, marks, op, budget>>

Create(p) ==
    /\ pod[p].st = "gone" /\ sts.size # 0
    /\ pod' = [pod EXCEPT ![p] = Blank("parked", sts.tpl)]
    /\ UNCHANGED <<name, sts, has, at, down, marks, op, budget>>

\* The script asks for the name in its own template: it starts as the
\* master, joins a living one, or starts bare beside a dead one.
StartPod(p) ==
    /\ pod[p].st = "parked" /\ Monitors(pod[p].tpl) # {}
    /\ LET m == at[pod[p].tpl]
       IN  pod' = [pod EXCEPT ![p].st = "up", ![p].of = IF m # p /\ Living(m) THEN m ELSE None]
    /\ UNCHANGED <<name, sts, has, at, down, marks, op, budget>>

Sync(p) ==
    /\ Up(p) /\ pod[p].of # None /\ Living(pod[p].of) /\ ~Copied(p)
    /\ pod' = [pod EXCEPT ![p].data = DataAt(pod[p].of)]
    /\ UNCHANGED <<name, sts, has, at, down, marks, op, budget>>

Write(p) ==
    /\ IsMaster(p) /\ at[name] = p /\ pod[p].data # "own" /\ Spend("writes")
    /\ pod' = [pod EXCEPT ![p].data = "own"]
    /\ UNCHANGED <<name, sts, has, at, down, marks, op>>

----------------------------------------------------------------------------
(* The Sentinels, and the other deployment.                                *)

Drop(s) ==
    /\ has[s] # {} /\ Spend("sentinels")
    /\ has' = [has EXCEPT ![s] = {}]
    /\ UNCHANGED <<name, sts, pod, at, down, marks, op>>

\* The master does not answer, or says it is a replica.
Failing(n) == ~Living(at[n]) \/ \E p \in Pods : at[n] = p /\ pod[p].of # None

Flag(n) ==
    /\ Monitors(n) # {} /\ ~down[n] /\ Failing(n)
    /\ down' = [down EXCEPT ![n] = TRUE]
    /\ UNCHANGED <<name, sts, pod, has, at, marks, op, budget>>

\* The Sentinels of a name promote one of the replicas of its failing master.
Failover(n) ==
    /\ Cardinality(Monitors(n)) >= 2 /\ down[n] /\ Failing(n)
    /\ Prompt => op.pc \in {"idle", "gather"}
    /\ \E p \in Pods :
        /\ Up(p) /\ ~pod[p].leaving /\ pod[p].of = at[n]
        /\ pod[p].data = "own" \/ \A q \in Pods : pod[q].data # "own"
        /\ pod' = [q \in Pods |-> CASE q = p -> [pod[p] EXCEPT !.of = None]
                                    [] q # p /\ Up(q) /\ at[n] \in {q, pod[q].of} -> [pod[q] EXCEPT !.of = p]
                                    [] OTHER -> pod[q]]
        /\ at' = [at EXCEPT ![n] = p] /\ down' = [down EXCEPT ![n] = FALSE]
    /\ UNCHANGED <<name, sts, has, marks, op, budget>>

\* A hello of another deployment under the shared name, with a higher epoch:
\* the Sentinels take its master and point every pod they know at it.
Capture ==
    /\ Monitors("old") # {} /\ at["old"] \in Pods /\ Spend("captures")
    /\ at' = [at EXCEPT !["old"] = Captor] /\ down' = [down EXCEPT !["old"] = FALSE]
    /\ UNCHANGED <<name, sts, pod, has, marks, op>>

Adopt(p) ==
    /\ Monitors("old") # {} /\ at["old"] = Captor /\ Up(p) /\ pod[p].of # Captor
    /\ pod' = [pod EXCEPT ![p].of = Captor]
    /\ UNCHANGED <<name, sts, has, at, down, marks, op, budget>>

----------------------------------------------------------------------------

Init ==
    /\ \E b \in Scenarios : budget = b
    /\ name = "old"
    /\ sts = [tpl |-> "old", size |-> Cardinality(Pods), observed |-> TRUE, settled |-> TRUE]
    /\ pod = [p \in Pods |-> [Blank("up", "old") EXCEPT !.data = budget.data,
                                                       !.of = IF p = First THEN None ELSE First]]
    /\ has = [s \in Sentinels |-> {"old"}]
    /\ at = [n \in Names |-> IF n = "old" THEN First ELSE None]
    /\ down = [n \in Names |-> FALSE]
    /\ marks = [forsaken |-> "clear", quarantine |-> "clear", attempts |-> 0,
                running |-> TRUE, ack |-> "old"]
    /\ op = Idle

Kubernetes ==
    \/ StatusSync \/ StopSentinels
    \/ \E p \in Pods : Roll(p) \/ Kill(p) \/ Create(p) \/ StartPod(p) \/ Sync(p)
Sentinel == (\E n \in Names : Flag(n) \/ Failover(n)) \/ \E p \in Pods : Adopt(p)
Fault == \/ \E p \in Pods : Evict(p)
         \/ \E s \in Sentinels : Drop(s)
         \/ Capture

Next == Operator \/ Cool \/ Edit \/ Kubernetes \/ (\E p \in Pods : Write(p)) \/ Sentinel \/ Fault

Spec == Init /\ [][Next]_vars

FairSpec ==
    /\ Spec /\ WF_vars(Operator) /\ WF_vars(Cool) /\ WF_vars(StatusSync) /\ WF_vars(StopSentinels)
    /\ \A p \in Pods : WF_vars(Roll(p) \/ Kill(p) \/ Create(p) \/ StartPod(p) \/ Sync(p) \/ Adopt(p))
    /\ \A n \in Names : WF_vars(Flag(n)) /\ SF_vars(Failover(n))

----------------------------------------------------------------------------

\* Only a captured instance is quarantined, not one whose own replaced pod the
\* Sentinels still take for a living master, and only when no pod that would
\* have lived on holds data the captor does not have (planQuarantine,
\* quarantineDataRisk).
QuarantineSparesData ==
    [][marks.quarantine = "clear" /\ marks'.quarantine # "clear" =>
         /\ \E n \in Names : at[n] = Captor
         /\ \A p \in Pods : pod[p].data = "own" => pod[p].leaving]_vars

\* A rename is acknowledged only after the roll, and once no Sentinel
\* monitors another name.
AcknowledgedIsDone ==
    [][marks'.ack # marks.ack =>
         /\ \A p \in Pods : pod[p].st # "gone" => pod[p].tpl = marks'.ack
         /\ \A s \in Sentinels : has[s] \subseteq {marks'.ack}]_vars

\* A rename replaces every pod and keeps the data: the roll waits for a copy
\* (the readiness of a replica), and the old name is served until the new one
\* is (Rule 0 before Rule N).
RenameKeepsData ==
    [][(\E p \in Pods : pod[p].data = "own") /\ (\A p \in Pods : pod'[p].data # "own") =>
         \/ marks.quarantine # "clear" \/ \E n \in Names : at[n] = Captor
         \/ \E p \in Pods : Captor \in {pod[p].of, pod[p].data}]_vars

Served ==
    /\ marks.ack = name /\ marks.running
    /\ \A s \in Sentinels : has[s] = {name}
    /\ \E m \in Pods : IsMaster(m) /\ at[name] = m /\ \A p \in Pods \ {m} : pod[p].of = m
Latched == marks.attempts = Limit /\ sts.size = 0

Foreign == \E n \in Names \ {name} : Monitors(n) # {} /\ at[n] = Captor

\* Faults having stopped, the instance serves under the name its owner asked
\* for with the rename acknowledged, or stays latched at zero replicas, or is
\* left to its owner because a name it was renamed from is another's (Rule 0,
\* Rule N, planOperation, planQuarantine).
Settles == <>[](Served \/ Latched \/ Foreign)
=============================================================================
