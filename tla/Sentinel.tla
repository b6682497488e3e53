------------------------------ MODULE Sentinel ------------------------------
(***************************************************************************)
(* Sentinel mode: three Redis pods, three Sentinels that fail their master *)
(* over, and the healing pass of reconcileSentinelCluster, which gathers   *)
(* both, decides from the gathered state, and then sends its commands one  *)
(* rule at a time while pods and Sentinels move on.                        *)
(*                                                                         *)
(* A pod stands for its present address.  Once a pod is replaced its old   *)
(* address is Ghost wherever it is still written down: the code tells dead *)
(* addresses apart in nothing it decides.                                  *)
(*                                                                         *)
(* redis[p]    st: "gone", "down" (its process), "parked" in the startup   *)
(*             loop or "up"; yield: the loop holds back; of: the address   *)
(*             it replicates, None for a master; data: it holds the        *)
(*             dataset; leaving: the pod is terminating                    *)
(* sentinel[s] master: the address it monitors, None if bare; known: the   *)
(*             replicas it has met; seen: it knows the master's run id;    *)
(*             failover: the replica its own failover has promoted; epoch: *)
(*             how new its configuration is, as a rank                     *)
(* marks       bootstrapRequired, leaderlessSince, ghostMasterStuckSince   *)
(* op          the commands the pass still has to send                     *)
(* budget      the faults that may still happen                            *)
(***************************************************************************)
EXTENDS Integers, Sequences, FiniteSets

CONSTANTS Quorum, Unsafe, Prompt, Scenarios

ASSUME SentinelConstants ==
    /\ Quorum \in 1 .. 3 /\ Unsafe \in BOOLEAN /\ Prompt \in BOOLEAN

VARIABLES redis, sentinel, marks, op, budget

vars == <<redis, sentinel, marks, op, budget>>

Pods      == {"r0", "r1", "r2"}
Sentinels == {"s0", "s1", "s2"}
None  == "none"
Ghost == "ghost"

Up(p)       == redis[p].st = "up"
IsMaster(p) == Up(p) /\ redis[p].of = None
Attached(m) == {p \in Pods : Up(p) /\ redis[p].of = m}
Renamed(x, p) == IF x = p THEN Ghost ELSE x
RenamedIn(S, p) == {Renamed(x, p) : x \in S}

(* What a Sentinel can learn: from the master it monitors, by INFO, and     *)
(* from another Sentinel, by a hello through an instance both watch.       *)
Learns(s) ==
    /\ sentinel[s].master \in {m \in Pods : IsMaster(m)}
    /\ ~(Attached(sentinel[s].master) \subseteq sentinel[s].known /\ sentinel[s].seen)
Watched(s) == {p \in Pods \cap (sentinel[s].known \cup {sentinel[s].master}) : Up(p)}

Hears(s, t) ==
    /\ sentinel[s].master # None /\ sentinel[t].master # None
    /\ sentinel[s].epoch < sentinel[t].epoch
    /\ Watched(s) \cap Watched(t) # {}

Lags(p) == /\ redis[p].of \in {m \in Pods : IsMaster(m)}
           /\ redis[p].data # redis[redis[p].of].data

\* Prompt: INFO, hellos and a replica's sync, which take a second or two,
\* outrun the next pass, start of a process, failover and fault.
Calm ==
    Prompt => /\ \A s \in Sentinels : ~Learns(s) /\ \A t \in Sentinels : ~Hears(s, t)
              /\ \A p \in Pods : ~(Up(p) /\ Lags(p))

Spend(what) == budget[what] > 0 /\ budget' = [budget EXCEPT ![what] = @ - 1]

----------------------------------------------------------------------------
(* What a pass reads from the gathered state.  R is the set of Redis pods, *)
(* S the set of Sentinels, that answered; m the real master, None if there *)
(* is none.                                                                *)

LiveTopology == {p \in Pods : redis[p].st # "gone" /\ ~redis[p].leaving}
IsGhost(x)   == x # None /\ x \notin LiveTopology
Majority(S)  == Cardinality(S) \div 2 + 1
Monitoring(S, x) == {s \in S : sentinel[s].master = x}
OnGhosts(S)  == {s \in S : IsGhost(sentinel[s].master)}

\* The promoted replica of a failover is down: it can neither end nor abort.
FailoverStalled(s) ==
    /\ sentinel[s].failover # None
    /\ sentinel[s].failover \in Pods => ~Up(sentinel[s].failover)
FailoverReported(S)    == \E s \in S : sentinel[s].failover # None
FailoverProgressing(S) == \E s \in S : sentinel[s].failover # None /\ ~FailoverStalled(s)

\* Of several masters that claim the role the order of a Go map takes one.
DetermineRealMaster(R, S) ==
    LET agreed  == {p \in LiveTopology : Cardinality(Monitoring(S, p)) >= Majority(S)}
        claimed == {p \in R : redis[p].of = None}
    IN  CASE agreed # {} -> agreed
          [] /\ agreed = {} /\ claimed # {} /\ ~FailoverReported(S)
             /\ Cardinality(OnGhosts(S)) < Majority(S) -> claimed
          [] OTHER -> {None}

AllSentinelsBare(S) == S # {} /\ Monitoring(S, None) = S
SentinelsMonitorGhostMaster(S) == S # {} /\ Cardinality(OnGhosts(S)) >= Majority(S)
HasHealthyKnownReplica(S) ==
    \E s \in S : \E p \in sentinel[s].known \cap LiveTopology : Up(p)
DataHolders(R)   == {p \in R : redis[p].data}
holdersForked(H) == Cardinality({p \in H : redis[p].of = None}) > 1
PromotedIPs(S)   == {sentinel[s].failover : s \in S}

EvenPromoted(R, S, m) == {p \in R \ {m} : redis[p].of # m}                \* mutant
MastersAlone(R, S, m) ==                                                \* mutant
    IF m = None THEN {} ELSE {p \in R \ ({m} \cup PromotedIPs(S)) : redis[p].of = None}
planReplicaRescue(R, S, m) ==
    IF m = None THEN {} ELSE {p \in R \ ({m} \cup PromotedIPs(S)) : redis[p].of # m}

GhostReplicaResetSafe(R, S, m) ==
    /\ \E s \in S : Ghost \in sentinel[s].known
    /\ R = Pods /\ m \in R
    /\ HasHealthyKnownReplica(S)

pickBootstrapMasterIP ==
    IF "r0" \in LiveTopology THEN {"r0"}
    ELSE IF "r1" \in LiveTopology THEN {"r1"}
    ELSE LiveTopology

IgnoresRefusal(R, refused, contested) ==                                \* mutant
    CASE DataHolders(R) = {} -> pickBootstrapMasterIP
      [] DataHolders(R) # {} /\ contested /\ ~Unsafe -> {}
      [] OTHER -> DataHolders(R)

\* What both recoveries do once they are due: seed an empty pod, elect a
\* holder, or refuse.  A pod that refused the credential vetoes.
Elected(R, refused, contested) ==
    LET holders == DataHolders(R)
    IN  CASE refused # {}   -> {}
          [] refused = {} /\ holders = {} -> pickBootstrapMasterIP
          [] refused = {} /\ holders # {} /\ contested /\ ~Unsafe -> {}
          [] OTHER -> holders

planLeaderlessRecovery(R, S, refused) ==
    CASE ~AllSentinelsBare(S) \/ Cardinality(S) < Quorum -> [mark |-> "clear", elect |-> {}]
      [] AllSentinelsBare(S) /\ Cardinality(S) >= Quorum /\ marks.leaderless # "due" ->
            [mark |-> "cooling", elect |-> {}]
      [] OTHER -> [mark |-> "due",
                   elect |-> Elected(R, refused, Cardinality(DataHolders(R)) > 1)]

planGhostMasterRecovery(R, S, refused) ==
    LET stuck == /\ SentinelsMonitorGhostMaster(S) /\ ~HasHealthyKnownReplica(S)
                 /\ Cardinality(S) >= Quorum
    IN  CASE ~stuck -> [mark |-> "clear", elect |-> {}]
          [] stuck /\ marks.stuck # "due" -> [mark |-> "cooling", elect |-> {}]
          [] OTHER -> [mark |-> "due",
                       elect |-> Elected(R, refused, holdersForked(DataHolders(R)))]

----------------------------------------------------------------------------
(* A pass.                                                                 *)

Task(do, at, to) == IF at = {} THEN <<>> ELSE <<[do |-> do, at |-> at, to |-> to]>>

\* needsPromotion, REPLICAOF NO ONE, then every Sentinel.
electMaster(R, p) ==
    Task("promote", {p} \cap {q \in R : redis[q].of # None}, None) \o Task("seed", Sentinels, p)

Marked(l, g) == marks' = [marks EXCEPT !.leaderless = l, !.stuck = g]

\* Rules 0, A, R, the corrections, the recoveries and Rule D, in the order
\* and under the guards of reconcileSentinelCluster.
Decide(R, S, refused, m) ==
    LET leaving == \E p \in Pods : redis[p].st # "gone" /\ redis[p].leaving
        rule0   == Task("monitor", IF m = None THEN {} ELSE Monitoring(S, None), m)
        fix     == IF m \in R THEN {s \in S : sentinel[s].master \notin {m, None}} ELSE {}
        rescue  == Task("slaveof", planReplicaRescue(R, S, m), m)
        reset   == IF GhostReplicaResetSafe(R, S, m) THEN Task("reset", Sentinels, None) ELSE <<>>
        ruleL   == planLeaderlessRecovery(R, S, refused)
        lr024   == planGhostMasterRecovery(R, S, refused)
        chosen  == ruleL.elect \cup lr024.elect
    IN  \/ /\ leaving \/ FailoverProgressing(S)
           /\ op' = rule0 \o (IF leaving THEN <<>> ELSE rescue)
           /\ UNCHANGED marks
        \/ /\ ~leaving /\ ~FailoverProgressing(S) /\ fix # {}
           /\ op' = rule0 \o Task("remonitor", fix, m)
           /\ UNCHANGED marks
        \/ /\ ~leaving /\ ~FailoverProgressing(S) /\ fix = {} /\ m = None
           /\ Marked(ruleL.mark, lr024.mark)
           /\ \/ chosen = {} /\ op' = <<>>
              \/ \E p \in chosen : op' = electMaster(R, p)
        \/ /\ ~leaving /\ ~FailoverProgressing(S) /\ fix = {} /\ m # None
           /\ Marked("clear", "clear")
           /\ op' = rule0 \o reset \o rescue

\* A probe may time out, or its pod refuse the operator's credential.
Gather ==
    /\ op = <<>> /\ ~marks.bootstrap /\ Calm
    /\ \E lost \in {{}} \cup {{x} : x \in Pods \cup Sentinels}, refused \in {{}} \cup {{p} : p \in Pods} :
       /\ \A p \in (lost \cap Pods) \cup refused : Up(p)
       /\ \/ lost = {} /\ refused = {} /\ UNCHANGED budget
          \/ lost \subseteq Pods /\ lost # {} /\ refused = {} /\ Spend("timeouts")
          \/ lost \subseteq Sentinels /\ lost # {} /\ refused = {} /\ Spend("probes")
          \/ lost = {} /\ refused # {} /\ Spend("refusals")
       /\ LET R == {p \in LiveTopology : Up(p)} \ (lost \cup refused)
              S == Sentinels \ lost
          IN  \E m \in DetermineRealMaster(R, S) : Decide(R, S, refused, m)
    /\ UNCHANGED <<redis, sentinel>>

\* What SENTINEL MONITOR leaves: no run id and no replica yet.
Fresh(m) == [master |-> m, known |-> {}, seen |-> FALSE, failover |-> None, epoch |-> 0]
Bare == Fresh(None)

\* Epochs as ranks.
Ranked(f) ==
    [s \in Sentinels |->
        [f[s] EXCEPT !.epoch = Cardinality({f[t].epoch : t \in {t \in Sentinels : f[t].epoch < f[s].epoch}})]]

Sent(do) == op # <<>> /\ Head(op).do = do /\ op' = Tail(op)

\* One command of several may fail.
Reached(ok) ==
    \/ ok = Head(op).at /\ UNCHANGED budget
    \/ (\E x \in Head(op).at : ok = Head(op).at \ {x}) /\ Spend("errors")

\* MONITOR is refused where a master of that name is configured.
Monitor ==
    /\ Sent("monitor")
    /\ \E ok \in SUBSET Head(op).at :
        /\ Reached(ok)
        /\ sentinel' = Ranked([s \in Sentinels |->
              IF s \in ok /\ sentinel[s].master = None THEN Fresh(Head(op).to) ELSE sentinel[s]])
    /\ UNCHANGED <<redis, marks>>

\* REMOVE, then MONITOR: where the second fails the Sentinel is left bare.
Remonitor ==
    /\ Sent("remonitor")
    /\ \E ok \in SUBSET Head(op).at :
        /\ Reached(ok)
        /\ sentinel' = Ranked([s \in Sentinels |->
              CASE s \in ok                -> Fresh(Head(op).to)
                [] s \in Head(op).at \ ok  -> Bare
                [] OTHER                   -> sentinel[s]])
    /\ UNCHANGED <<redis, marks>>

\* REPLICAOF NO ONE; if it fails the election ends there.
Promote ==
    /\ op # <<>> /\ Head(op).do = "promote"
    /\ \E p \in Head(op).at :
        \/ /\ p \in Pods /\ (p \in Pods => Up(p))
           /\ redis' = [redis EXCEPT ![p].of = None]
           /\ op' = Tail(op) /\ UNCHANGED budget
        \/ /\ p \in Pods => ~Up(p)
           /\ op' = <<>> /\ UNCHANGED <<redis, budget>>
        \/ Spend("errors") /\ op' = <<>> /\ UNCHANGED redis
    /\ UNCHANGED <<sentinel, marks>>

\* seedSentinelsWithMaster, with a fresh look at every Sentinel.
seedSentinelsWithMaster(m, ok) ==
    sentinel' = Ranked([s \in Sentinels |->
        CASE sentinel[s].master = m              -> sentinel[s]
          [] sentinel[s].master # m /\ s \in ok  -> Fresh(m)
          [] OTHER                               -> Bare])

Seed ==
    /\ Sent("seed")
    /\ \E ok \in SUBSET Sentinels : Reached(ok) /\ seedSentinelsWithMaster(Head(op).to, ok)
    /\ Marked("clear", "clear")
    /\ UNCHANGED redis

\* SENTINEL RESET forgets the replicas, the run id and a failover.
Reset ==
    /\ Sent("reset")
    /\ sentinel' = [s \in Sentinels |->
          IF sentinel[s].master = None THEN sentinel[s]
          ELSE [Fresh(sentinel[s].master) EXCEPT !.epoch = sentinel[s].epoch]]
    /\ UNCHANGED <<redis, marks, budget>>

SlaveOf ==
    /\ Sent("slaveof")
    /\ \E ok \in SUBSET Head(op).at :
        /\ Reached(ok)
        /\ redis' = [p \in Pods |->
              IF p \in ok /\ Up(p) THEN [redis[p] EXCEPT !.of = Head(op).to] ELSE redis[p]]
    /\ UNCHANGED <<sentinel, marks>>

\* The first master is redis-0; one Sentinel that took it is enough.
bootstrapSentinel ==
    /\ op = <<>> /\ marks.bootstrap /\ redis["r0"].st # "gone"
    /\ \E ok \in SUBSET Sentinels :
        /\ \/ ok = Sentinels /\ UNCHANGED budget
           \/ ok # Sentinels /\ ok # {} /\ Spend("errors")
        /\ seedSentinelsWithMaster("r0", ok)
    /\ marks' = [marks EXCEPT !.bootstrap = FALSE]
    /\ UNCHANGED <<redis, op>>

Cool ==
    /\ "cooling" \in {marks.leaderless, marks.stuck}
    /\ Marked(IF marks.leaderless = "cooling" THEN "due" ELSE marks.leaderless,
              IF marks.stuck = "cooling" THEN "due" ELSE marks.stuck)
    /\ UNCHANGED <<redis, sentinel, op, budget>>

Operator ==
    Gather \/ Monitor \/ Remonitor \/ Promote \/ Seed \/ Reset \/ SlaveOf \/ bootstrapSentinel

----------------------------------------------------------------------------
(* The Redis pods: the startup script, replication, Kubernetes.            *)

\* The script asks whichever Sentinel the Service picks.
Ask(s, p) == Calm /\ sentinel[s].master # None /\ redis[p].st = "parked"

NeverYields(p) ==                                                      \* mutant
    /\ redis[p].st = "down" /\ Calm
    /\ redis' = [redis EXCEPT ![p].st = "parked"]
    /\ UNCHANGED <<sentinel, marks, op, budget>>

\* A process that a Sentinel knows as the master's died here: hold back.
StartScript(p) ==
    /\ redis[p].st = "down" /\ Calm
    /\ \E s \in Sentinels :
          redis' = [redis EXCEPT ![p].st = "parked",
                                 ![p].yield = sentinel[s].master = p /\ sentinel[s].seen]
    /\ UNCHANGED <<sentinel, marks, op, budget>>

Started(p, m) ==
    redis' = [redis EXCEPT ![p] = [@ EXCEPT !.st = "up", !.yield = FALSE, !.of = m]]

MasterDown(m) == m \in Pods => ~IsMaster(m) \/ redis[m].leaving
Agreed(m)     == Cardinality(Monitoring(Sentinels, m)) >= Quorum
Candidates(s) ==
    {p \in sentinel[s].known \cap Pods : Up(p) /\ redis[p].of # None /\ ~redis[p].leaving}
CanFailover(m) ==
    \/ FailoverProgressing(Sentinels)
    \/ Agreed(m) /\ \E s \in Monitoring(Sentinels, m) : Candidates(s) # {}

\* Named as the master.  YIELD_LIMIT outlasts a failover that can happen.
StartAsMaster(p) ==
    /\ \E s \in Sentinels : Ask(s, p) /\ sentinel[s].master = p
    /\ redis[p].yield => ~CanFailover(p)
    /\ Started(p, None)
    /\ UNCHANGED <<sentinel, marks, op, budget>>

Join(p) ==
    /\ \E s \in Sentinels, m \in Pods \ {p} :
        Ask(s, p) /\ sentinel[s].master = m /\ Up(m) /\ Started(p, m)
    /\ UNCHANGED <<sentinel, marks, op, budget>>

\* The named master answers none of the PINGs.
StartBare(p) ==
    /\ \E s \in Sentinels :
        /\ Ask(s, p) /\ sentinel[s].master # p
        /\ sentinel[s].master \in Pods => ~Up(sentinel[s].master)
    /\ Started(p, None)
    /\ UNCHANGED <<sentinel, marks, op, budget>>

Sync(p) ==
    /\ Up(p) /\ Lags(p)
    /\ redis' = [redis EXCEPT ![p].data = redis[redis[p].of].data]
    /\ UNCHANGED <<sentinel, marks, op, budget>>

\* The first data a client stores.
Write(p) ==
    /\ IsMaster(p) /\ Agreed(p) /\ ~redis[p].leaving
    /\ \A q \in Pods : ~redis[q].data
    /\ redis' = [redis EXCEPT ![p].data = TRUE]
    /\ UNCHANGED <<sentinel, marks, op, budget>>

Blank(st) == [st |-> st, yield |-> FALSE, of |-> None, data |-> FALSE, leaving |-> FALSE]

Crash(p) ==
    /\ Up(p) /\ ~redis[p].leaving /\ Calm /\ Spend("crashes")
    /\ redis' = [redis EXCEPT ![p] = Blank("down")]
    /\ UNCHANGED <<sentinel, marks, op>>

\* The pod goes, and its address with it.
Removed(p) ==
    /\ redis' = [q \in Pods |->
          IF q = p THEN Blank("gone") ELSE [redis[q] EXCEPT !.of = Renamed(@, p)]]
    /\ sentinel' = [s \in Sentinels |->
          [sentinel[s] EXCEPT !.master = Renamed(@, p), !.known = RenamedIn(@, p),
                              !.failover = Renamed(@, p)]]
    /\ op' = [i \in DOMAIN op |->
          [op[i] EXCEPT !.at = RenamedIn(@, p), !.to = Renamed(@, p)]]
    /\ UNCHANGED marks

Lose(p)   == redis[p].st # "gone" /\ Calm /\ ~redis[p].leaving /\ Spend("losses") /\ Removed(p)
Delete(p) ==
    /\ redis[p].st # "gone" /\ ~redis[p].leaving /\ Calm /\ Spend("deletes")
    /\ redis' = [redis EXCEPT ![p].leaving = TRUE]
    /\ UNCHANGED <<sentinel, marks, op>>

\* The preStop hook of a master waits for the failover it asked for.
Kill(p) ==
    /\ redis[p].leaving
    /\ ~(IsMaster(p) /\ CanFailover(p))
    /\ Removed(p) /\ UNCHANGED budget

Create(p) ==
    /\ redis[p].st = "gone"
    /\ redis' = [redis EXCEPT ![p] = Blank("down")]
    /\ UNCHANGED <<sentinel, marks, op, budget>>

Pod(p) ==
    \/ StartScript(p) \/ StartAsMaster(p) \/ Join(p) \/ StartBare(p)
    \/ Sync(p) \/ Write(p) \/ Kill(p) \/ Create(p)

----------------------------------------------------------------------------
(* The Sentinels.                                                          *)

Learn(s) ==
    /\ Learns(s)
    /\ sentinel' = [sentinel EXCEPT ![s].known = @ \cup Attached(sentinel[s].master), ![s].seen = TRUE]
    /\ UNCHANGED <<redis, marks, op, budget>>

Switched(r, m) ==
    [r EXCEPT !.master = m, !.known = (@ \cup {r.master}) \ {m}, !.seen = m \in Pods, !.failover = None]

Hello(s, t) ==
    /\ Hears(s, t)
    /\ sentinel' = Ranked([sentinel EXCEPT ![s] =
          IF sentinel[t].master = @.master THEN [@ EXCEPT !.epoch = sentinel[t].epoch]
          ELSE [Switched(@, sentinel[t].master) EXCEPT !.epoch = sentinel[t].epoch]])
    /\ UNCHANGED <<redis, marks, op, budget>>

\* A failover promotes the best replica its leader knows...  A Sentinel that
\* voted waits failover-timeout, which a hello outruns.
StartFailover(s) ==
    /\ Calm /\ \A t \in Sentinels : ~Hears(s, t)
    /\ sentinel[s].master # None /\ MasterDown(sentinel[s].master)
    /\ Agreed(sentinel[s].master)
    /\ sentinel[s].failover = None /\ ~FailoverProgressing(Sentinels)
    /\ \E p \in Candidates(s) :
        /\ redis[p].data \/ \A q \in Candidates(s) : ~redis[q].data
        /\ redis' = [redis EXCEPT ![p].of = None]
        /\ sentinel' = [sentinel EXCEPT ![s].failover = p]
    /\ UNCHANGED <<marks, op, budget>>

\* ...points the others at it, and takes its address.
EndFailover(s) ==
    /\ \E p \in Pods :
        /\ sentinel[s].failover = p /\ Up(p)
        /\ redis' = [q \in Pods |->
              IF q \in sentinel[s].known \ {p} /\ Up(q) THEN [redis[q] EXCEPT !.of = p] ELSE redis[q]]
        /\ sentinel' = Ranked([sentinel EXCEPT ![s] = [Switched(@, p) EXCEPT !.epoch = 3]])
    /\ UNCHANGED <<marks, op, budget>>

\* A Sentinel pod is replaced and comes back bare.
SentinelLost(s) ==
    /\ sentinel[s] # Bare /\ Calm /\ Spend("sentinels")
    /\ sentinel' = Ranked([sentinel EXCEPT ![s] = Bare])
    /\ op' = [i \in DOMAIN op |-> [op[i] EXCEPT !.at = @ \ {s}]]
    /\ UNCHANGED <<redis, marks>>

Quorums(s) == Learn(s) \/ StartFailover(s) \/ EndFailover(s) \/ \E t \in Sentinels : Hello(s, t)

----------------------------------------------------------------------------

Init ==
    /\ \E sc \in Scenarios :
        redis = sc.redis /\ sentinel = sc.sentinel /\ budget = sc.budget
        /\ marks = [bootstrap |-> sc.bootstrap, leaderless |-> "clear", stuck |-> "clear"]
    /\ op = <<>>

Fault ==
    \/ \E p \in Pods : Crash(p) \/ Lose(p) \/ Delete(p)
    \/ \E s \in Sentinels : SentinelLost(s)

Next ==
    \/ Operator \/ Cool
    \/ \E p \in Pods : Pod(p)
    \/ \E s \in Sentinels : Quorums(s)
    \/ Fault

Spec == Init /\ [][Next]_vars

FairSpec ==
    /\ Spec /\ WF_vars(Operator) /\ WF_vars(Cool)
    /\ \A p \in Pods : WF_vars(Pod(p))
    /\ \A s \in Sentinels : WF_vars(Quorums(s))

----------------------------------------------------------------------------

\* A pod that holds the dataset loses it only with its process.
OnlyFaultsDiscard ==
    [][\A p \in Pods : redis[p].data /\ redis'[p].st = "up" => redis'[p].data]_vars

\* Nothing demotes a promoted replica before its failover has ended.
PromotionStands ==
    [][\A s \in Sentinels, p \in Pods :
         sentinel[s].failover = p /\ IsMaster(p) /\ redis'[p].st = "up" => redis'[p].of = None]_vars

\* The operator gives the mastership to an empty pod only when no running pod
\* holds the dataset, and takes it from no master that holds it.
ElectionKeepsData ==
    [][op # <<>> /\ Head(op).do = "seed" /\ op' = Tail(op) =>
         \A p \in Pods : redis[p].data /\ p # Head(op).to =>
             /\ Head(op).to \in Pods => redis[Head(op).to].data
             /\ redis[p].of # None]_vars

\* One master that every Sentinel monitors and every other pod replicates.
Healthy ==
    \E m \in Pods :
        /\ IsMaster(m) /\ \A s \in Sentinels : sentinel[s].master = m
        /\ Attached(m) = Pods \ {m}

\* Whatever pod, Sentinel, probe or command failed, the Sentinels and the
\* pass's rules together bring the instance back to one agreed master for good
\* (reconcileSentinelCluster, bootstrapSentinel).
Converges == <>[]Healthy
=============================================================================
