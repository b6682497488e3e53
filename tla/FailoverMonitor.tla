-------------------------- MODULE FailoverMonitor --------------------------
(***************************************************************************)
(* The failover master watcher: one goroutine per instance that probes the *)
(* master of the resource's status every second and pushes one event onto  *)
(* the reconcile channel when a failure streak has lasted downAfter.       *)
(*                                                                         *)
(* Reconcile passes start and stop it through a registry; a stopped        *)
(* goroutine only notices at its next select, so the next one may already  *)
(* run beside it.  The status, the window and the server's health change   *)
(* while a probe is under way.                                             *)
(*                                                                         *)
(*   cr       the resource, as the informer cache shows it; fault is what  *)
(*            is wrong with its spec: a missing "secret", or "unsupported"   *)
(*   up       the addresses that answer INFO                               *)
(*   w        the goroutines                                               *)
(*   registry r.failoverMonitors[nn]: the goroutine whose cancel it holds  *)
(*   budget   how many more changes may happen around the watcher          *)
(*                                                                         *)
(* Time is kept as ages in units of the tick, up to MaxAge.                *)
(***************************************************************************)
EXTENDS Integers, FiniteSets

CONSTANTS
    IPs,         \* master addresses
    NoIP,        \* status.master is nil
    Windows,     \* values of downAfterMilliseconds, in ticks
    Slots,       \* goroutines that may run at a time
    MaxAge,      \* ages are counted up to here
    MaxChanges,  \* bound on changes of the resource and of the servers
    MaxErrors    \* bound on failing reads and lost replies

NoWatcher == 0

ASSUME WindowsAssumption == MaxAge \in Nat /\ Windows # {} /\ Windows \subseteq 1 .. MaxAge
ASSUME NoIPAssumption    == NoIP \notin IPs
ASSUME SlotsAssumption   == Slots \subseteq Nat \ {NoWatcher}

VARIABLES cr, up, w, registry, budget
vars == <<cr, up, w, registry, budget>>

----------------------------------------------------------------------------
(* The streak.                                                             *)

\* failing: failingSince is not zero; age: now - failingSince.
NoStreak == [ip |-> NoIP, failing |-> FALSE, age |-> 0, fired |-> FALSE]

KeepsOldEvidence(prev, ip) ==                                      \* mutant
    IF ~prev.failing THEN [NoStreak EXCEPT !.ip = ip, !.failing = TRUE] ELSE prev
RestartsStreak(prev, ip) == [NoStreak EXCEPT !.ip = ip, !.failing = TRUE] \* mutant

\* A failed probe of ip goes on with the streak, or starts one.
Continued(prev, ip) ==
    IF prev.ip # ip \/ ~prev.failing THEN [NoStreak EXCEPT !.ip = ip, !.failing = TRUE] ELSE prev

FiresEveryTick(s, window) == s.age >= window                       \* mutant
Crossed(s, window) == ~s.fired /\ s.age >= window

\* advanceFailoverProbeStreak: the next streak, and whether to fire.
Advance(prev, ip, ok, window) ==
    IF ip = NoIP THEN [streak |-> NoStreak, fire |-> FALSE]
    ELSE IF ok THEN [streak |-> [NoStreak EXCEPT !.ip = ip], fire |-> FALSE]
    ELSE LET next == Continued(prev, ip) IN
         IF Crossed(next, window)
         THEN [streak |-> [next EXCEPT !.fired = TRUE], fire |-> TRUE]
         ELSE [streak |-> next, fire |-> FALSE]

----------------------------------------------------------------------------
(* The goroutines.  quiet and fires are history: the time since anything    *)
(* spoke against a dead master (a good probe, another address, a failed     *)
(* read), and the events pushed since then.                                 *)

Dead   == [pc |-> "dead", cancelled |-> FALSE, streak |-> NoStreak, target |-> NoIP,
           window |-> 0, last |-> NoIP, quiet |-> 0, fires |-> 0]
Newborn == [Dead EXCEPT !.pc = "select"]

Min2(a, b) == IF a < b THEN a ELSE b
Older(i) == [i EXCEPT !.streak.age = IF i.streak.failing THEN Min2(@ + 1, MaxAge) ELSE 0,
                      !.quiet = Min2(@ + 1, MaxAge)]

Spoken(i) == [i EXCEPT !.quiet = 0, !.fires = 0]

Spend(what) == budget[what] > 0 /\ budget' = [budget EXCEPT ![what] = @ - 1]

Init ==
    /\ cr = [exists |-> TRUE, deleting |-> FALSE, failover |-> TRUE, disabled |-> FALSE,
             finalizer |-> FALSE, fault |-> "none", master |-> NoIP, window |-> CHOOSE x \in Windows : TRUE]
    /\ up = IPs
    /\ w = [i \in Slots |-> Dead]
    /\ registry = NoWatcher
    /\ budget = [changes |-> MaxChanges, errors |-> MaxErrors]

\* The ticker fires and the resource is read: target and window of this tick.
Tick(i) ==
    LET g == w[i] IN
    /\ g.pc = "select"
    /\ \/ /\ cr.exists
          /\ UNCHANGED budget
          /\ w' = [w EXCEPT ![i] =
                 IF cr.master = NoIP
                 THEN [Spoken(g) EXCEPT !.streak = Advance(g.streak, NoIP, FALSE, cr.window).streak,
                                        !.last = NoIP]
                 ELSE [g EXCEPT !.pc = "probe", !.target = cr.master, !.window = cr.window]]
       \/ /\ IF cr.exists THEN Spend("errors") ELSE UNCHANGED budget
          /\ w' = [w EXCEPT ![i] = [Spoken(g) EXCEPT !.streak = NoStreak, !.last = NoIP]]
    /\ UNCHANGED <<cr, up, registry>>

\* The probe returns; under a cancelled context it fails.
ProbeReturns(i) ==
    /\ w[i].pc = "probe"
    /\ LET ip  == w[i].target
           ok  == ip \in up /\ ~w[i].cancelled
           res == Advance(w[i].streak, ip, ok, w[i].window)
           was == IF ok \/ ip # w[i].last THEN Spoken(w[i]) ELSE w[i]
       IN  w' = [w EXCEPT ![i] = [was EXCEPT
                     !.pc = IF res.fire THEN "push" ELSE "select",
                     !.streak = res.streak, !.last = ip, !.target = NoIP, !.window = 0,
                     !.fires = IF res.fire THEN Min2(@ + 1, 2) ELSE @]]
    /\ UNCHANGED <<cr, up, registry, budget>>

\* The reconcile channel takes the event.
Push(i) ==
    /\ w[i].pc = "push"
    /\ w' = [w EXCEPT ![i].pc = "select"]
    /\ UNCHANGED <<cr, up, registry, budget>>

\* A select sees the cancelled context.
Exit(i) ==
    /\ w[i].pc \in {"select", "push"} /\ w[i].cancelled
    /\ w' = [w EXCEPT ![i] = Dead]
    /\ UNCHANGED <<cr, up, registry, budget>>

----------------------------------------------------------------------------
(* Reconcile passes.                                                       *)

ForgetWithoutCancel ==                                             \* mutant
    registry' = NoWatcher /\ UNCHANGED w

\* stopFailoverMonitor
StopFailoverMonitor ==
    IF registry = NoWatcher THEN UNCHANGED <<w, registry>>
    ELSE /\ w' = [w EXCEPT ![registry].cancelled = TRUE]
         /\ registry' = NoWatcher

\* ensureFailoverMonitor
EnsureFailoverMonitor ==
    IF cr.disabled THEN StopFailoverMonitor
    ELSE IF registry # NoWatcher THEN UNCHANGED <<w, registry>>
    ELSE \E i \in Slots : /\ w[i].pc = "dead"
                          /\ w' = [w EXCEPT ![i] = Newborn]
                          /\ registry' = i

\* Validate, validateSpec: what is wrong with the spec ends the pass.
Validated(tolerated) == cr.exists /\ cr.fault \in tolerated

EnsuresWithout ==                                                  \* mutant
    \/ /\ Validated({"none"}) /\ ~cr.deleting
       /\ IF cr.failover THEN EnsureFailoverMonitor ELSE StopFailoverMonitor
       /\ UNCHANGED <<cr, up, budget>>
    \/ /\ Validated({"none", "secret"}) /\ ~cr.deleting /\ ~cr.finalizer
       /\ cr' = [cr EXCEPT !.finalizer = TRUE]
       /\ UNCHANGED <<up, w, registry, budget>>

\* A pass of the main loop: the finalizer takes a pass of its own.
ReconcilePass ==
    \/ /\ Validated({"none", "secret"}) /\ ~cr.deleting /\ ~cr.finalizer
       /\ cr' = [cr EXCEPT !.finalizer = TRUE]
       /\ UNCHANGED <<up, w, registry, budget>>
    \/ /\ Validated({"none"}) /\ ~cr.deleting /\ cr.finalizer
       /\ IF cr.failover THEN EnsureFailoverMonitor ELSE StopFailoverMonitor
       /\ UNCHANGED <<cr, up, budget>>

ValidatesSpecFirst == Validated({"none"}) /\ cr.deleting           \* mutant

\* Validate runs before the deletion check, validateSpec after it.
Deletable == Validated({"none", "secret"}) /\ cr.deleting

\* reconcileDelete: the finalizer goes, then the watcher.  The update may fail,
\* or be carried out with its reply lost; either way the pass returns at once,
\* and a pass that does not find the resource does nothing.
ReconcileDelete ==
    /\ Deletable
    /\ \/ cr' = [cr EXCEPT !.exists = FALSE] /\ StopFailoverMonitor /\ UNCHANGED budget
       \/ Spend("errors") /\ UNCHANGED <<cr, w, registry>>
       \/ Spend("errors") /\ cr' = [cr EXCEPT !.exists = FALSE] /\ UNCHANGED <<w, registry>>
    /\ UNCHANGED up

OperatorRestart ==
    /\ Spend("errors")
    /\ w' = [i \in Slots |-> Dead] /\ registry' = NoWatcher
    /\ UNCHANGED <<cr, up>>

----------------------------------------------------------------------------
(* What happens around the watcher.                                        *)

StatusMoves  == \E ip \in (IPs \cup {NoIP}) \ {cr.master} : cr' = [cr EXCEPT !.master = ip]
WindowMoves  == \E x \in Windows \ {cr.window} : cr' = [cr EXCEPT !.window = x]
SwitchMoves  == \E f \in {"failover", "disabled"} : cr' = [cr EXCEPT ![f] = ~@]
FaultMoves   == \E f \in {"none", "secret", "unsupported"} \ {cr.fault} : cr' = [cr EXCEPT !.fault = f]
OwnerDeletes ==
    /\ ~cr.deleting
    /\ cr' = [cr EXCEPT !.deleting = TRUE, !.exists = cr.finalizer]

ResourceChange ==
    /\ cr.exists
    /\ StatusMoves \/ WindowMoves \/ SwitchMoves \/ FaultMoves \/ OwnerDeletes
    /\ Spend("changes")
    /\ UNCHANGED <<up, w, registry>>

ServerChange ==
    /\ Spend("changes")
    /\ \E ip \in IPs : up' = IF ip \in up THEN up \ {ip} ELSE up \cup {ip}
    /\ UNCHANGED <<cr, w, registry>>

Clock ==
    /\ \E i \in Slots : w[i].pc # "dead" /\ Older(w[i]) # w[i]
    /\ w' = [i \in Slots |-> IF w[i].pc = "dead" THEN w[i] ELSE Older(w[i])]
    /\ UNCHANGED <<cr, up, registry, budget>>

Watch(i) == Tick(i) \/ ProbeReturns(i) \/ Push(i)

Next ==
    \/ \E i \in Slots : Watch(i) \/ Exit(i)
    \/ ReconcilePass \/ ReconcileDelete \/ OperatorRestart
    \/ ResourceChange \/ ServerChange \/ Clock

\* Passes are requeued, the ticker ticks, time goes by, and a select that finds
\* the context cancelled again and again takes that branch in the end.
Fairness ==
    /\ WF_vars(ReconcilePass) /\ WF_vars(ReconcileDelete) /\ WF_vars(Clock)
    /\ \A i \in Slots : WF_vars(Watch(i)) /\ SF_vars(Exit(i))

Spec == Init /\ [][Next]_vars
FairSpec == Spec /\ Fairness

----------------------------------------------------------------------------
(* Properties.                                                             *)

\* "No stale probes leak across masters": an event is pushed only when nothing
\* has spoken for the probed master, or for another one, for a whole window.
FiresOnEvidence ==
    [][\A i \in Slots : w[i].pc = "probe" /\ w'[i].pc = "push" => w[i].quiet >= w[i].window]_vars

\* "Fires exactly once": a dead master does not push an event every second,
\* whatever happens to the window meanwhile.
FiresOncePerStreak == \A i \in Slots : w[i].fires =< 1

\* Ensure and stop in any order never leave two watchers for one instance that
\* nobody has cancelled, nor one that the registry has lost.
OneWatcher ==
    \A i \in Slots : w[i].pc # "dead" /\ ~w[i].cancelled => registry = i

\* A master that stays dead is reported by the running watcher, however often
\* the status, the window and the watcher itself changed before.
MasterLossReported ==
    \A ip \in IPs :
        <>[](/\ cr.exists /\ cr.fault = "none" /\ ~cr.deleting /\ cr.failover /\ ~cr.disabled
             /\ cr.master = ip /\ ip \notin up)
        => <>[](registry # NoWatcher /\ w[registry].streak.fired /\ w[registry].streak.ip = ip
                /\ w[registry].pc # "push")

\* A watcher that is not wanted (mode switched, kill switch set, resource
\* deleted) ends, every goroutine of it, and a deleted resource goes, unless
\* the operator no longer supports its spec: Validate ends the pass before
\* reconcileDelete.  A lost reply is WatcherEndsWithResource's matter.
UnwantedWatchersEnd ==
    <>[](\/ cr.exists /\ cr.fault = "none" /\ ~cr.deleting /\ (cr.disabled \/ ~cr.failover)
         \/ cr.deleting /\ cr.fault # "unsupported" /\ budget.errors = MaxErrors)
    => <>[](/\ cr.deleting => ~cr.exists
            /\ \A i \in Slots : w[i].pc = "dead")

\* The tick loop's comment: "Deletion also cancels this context via
\* stopFailoverMonitor."  Once the resource is gone, no goroutine is left.
WatcherEndsWithResource ==
    <>[](~cr.exists) => <>[](\A i \in Slots : w[i].pc = "dead")
============================================================================
