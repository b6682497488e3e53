----------------------- MODULE FailoverMonitor_proofs ----------------------
(***************************************************************************)
(* Three promises of the master watcher, for any number of goroutine slots,*)
(* addresses, windows and changes: at most one watcher of an instance runs *)
(* uncancelled, it fires at most once per failure streak, and on evidence. *)
(***************************************************************************)
EXTENDS FailoverMonitor, TLAPS

Calls   == {"dead", "select", "probe", "push"}
Streaks == [ip : IPs \cup {NoIP}, failing : BOOLEAN, age : Nat, fired : BOOLEAN]
Goroutines ==
    [pc : Calls, cancelled : BOOLEAN, streak : Streaks, target : IPs \cup {NoIP}, window : Nat,
     last : IPs \cup {NoIP}, quiet : Nat, fires : Nat]

Resources ==
    [exists : BOOLEAN, deleting : BOOLEAN, failover : BOOLEAN, disabled : BOOLEAN,
     finalizer : BOOLEAN, fault : {"none", "secret", "unsupported"},
     master : IPs \cup {NoIP}, window : Nat]

\* The shape of the watcher's state.
Typed ==
    /\ w \in [Slots -> Goroutines]
    /\ registry \in Slots \cup {NoWatcher}
    /\ cr \in Resources

\* An event was pushed since something last spoke against a dead master: the
\* streak remembers it, and is a streak against the address last probed.  A
\* streak is never older than the silence it stands for.  This is why
\* FiresOncePerStreak is inductive, and why FiresOnEvidence holds.
Remembered(g) ==
    /\ g.fires =< 1
    /\ g.fires = 1 => g.streak.fired /\ g.streak.failing /\ g.streak.ip = g.last
    /\ g.pc = "probe" => g.target # NoIP
    /\ g.streak.failing => g.streak.ip = g.last /\ g.streak.age =< g.quiet

WatcherInv == Typed /\ OneWatcher /\ \A i \in Slots : Remembered(w[i])

\* The streak a goroutine starts with.
LEMMA NoStreakType == NoStreak \in Streaks
  BY DEF NoStreak, Streaks

\* A goroutine that is not running remembers nothing, and keeps the invariant.
LEMMA DeadType == Dead \in Goroutines /\ Remembered(Dead) /\ Dead.pc = "dead"
  BY NoStreakType DEF Dead, Goroutines, Calls, Remembered, NoStreak

\* So does the one ensureFailoverMonitor starts.
LEMMA NewbornType == Newborn \in Goroutines /\ Remembered(Newborn)
<1>1. Newborn \in Goroutines /\ Newborn.pc = "select" /\ Newborn.fires = Dead.fires
      /\ Newborn.streak = NoStreak
  BY DeadType DEF Newborn, Goroutines, Calls, Dead
<1>2. Dead.fires = 0 /\ ~NoStreak.failing
  BY DEF Dead, NoStreak
<1> QED BY <1>1, <1>2 DEF Remembered

\* A failed probe keeps the streak only if it is one against the same address.
LEMMA ContinuedType ==
  ASSUME NEW s \in Streaks, NEW ip \in IPs
  PROVE  /\ Continued(s, ip) \in Streaks
         /\ Continued(s, ip).failing /\ Continued(s, ip).ip = ip
         /\ Continued(s, ip) = s \/ s.ip # ip \/ ~s.failing
         /\ Continued(s, ip).age = 0 \/ (Continued(s, ip) = s /\ s.ip = ip /\ s.failing)
  BY NoStreakType DEF Continued, Streaks, NoStreak

\* A good probe ends the streak.
LEMMA AdvanceGood ==
  ASSUME NEW ip \in IPs, NEW res,
         res = [streak |-> [NoStreak EXCEPT !.ip = ip], fire |-> FALSE]
  PROVE  res.streak \in Streaks /\ res.streak.failing = FALSE /\ res.fire = FALSE
<1> DEFINE good == [NoStreak EXCEPT !.ip = ip]
<1>1. good \in Streaks /\ good.failing = FALSE
  BY NoStreakType DEF Streaks, NoStreak
<1>2. res.streak = good /\ res.fire = FALSE
  OBVIOUS
<1> HIDE DEF good
<1> QED BY <1>1, <1>2

\* What a probe of ip makes of a streak: it fires at most once, on a streak of
\* the window's age, and only a streak against ip goes on.
LEMMA AdvanceType ==
  ASSUME NEW s \in Streaks, NEW ip \in IPs, NEW ok, NEW x \in Nat,
         NEW res, res = Advance(s, ip, ok, x)
  PROVE  /\ res.streak \in Streaks /\ res.fire \in BOOLEAN
         /\ res.fire => ~ok /\ res.streak.fired /\ res.streak.failing /\ res.streak.ip = ip
         /\ ~ok /\ s.fired /\ s.failing /\ s.ip = ip => ~res.fire /\ res.streak = s
         /\ res.fire => res.streak.age >= x
         /\ res.streak.failing =>
              /\ ~ok /\ res.streak.ip = ip
              /\ res.streak.age = 0 \/ (s.failing /\ s.ip = ip /\ res.streak.age = s.age)
<1> DEFINE next == Continued(s, ip)
<1>0. ip # NoIP
  BY NoIPAssumption
<1>1. CASE ok
  <2> DEFINE good == [NoStreak EXCEPT !.ip = ip]
  <2>1. Advance(s, ip, ok, x) = [streak |-> good, fire |-> FALSE]
    BY <1>0, <1>1 DEF Advance
  <2>2. good \in Streaks /\ good.failing = FALSE
    BY NoStreakType DEF Streaks, NoStreak
  <2>3. res.streak = good /\ res.fire = FALSE
    BY <2>1
  <2> HIDE DEF good
  <2> QED BY <1>1, <2>2, <2>3
<1>2. CASE ~ok /\ Crossed(next, x)
  <2>1. Advance(s, ip, ok, x) = [streak |-> [next EXCEPT !.fired = TRUE], fire |-> TRUE]
    BY <1>0, <1>2 DEF Advance
  <2>2. next \in Streaks /\ next.failing /\ next.ip = ip
    BY ContinuedType
  <2>3. /\ [next EXCEPT !.fired = TRUE] \in Streaks
        /\ [next EXCEPT !.fired = TRUE].fired /\ [next EXCEPT !.fired = TRUE].failing
        /\ [next EXCEPT !.fired = TRUE].ip = ip /\ [next EXCEPT !.fired = TRUE].age = next.age
    BY <2>2 DEF Streaks
  <2>4. ~next.fired /\ next.age >= x
    BY <1>2 DEF Crossed
  <2>5. /\ s.failing /\ s.ip = ip => next = s
        /\ next.age = 0 \/ (next = s /\ s.ip = ip /\ s.failing)
    BY ContinuedType
  <2>6. ~(s.fired /\ s.failing /\ s.ip = ip)
    BY <2>4, <2>5
  <2>7. /\ Advance(s, ip, ok, x).streak = [next EXCEPT !.fired = TRUE]
        /\ Advance(s, ip, ok, x).fire = TRUE
    BY <2>1
  <2> HIDE DEF next
  <2> QED BY <1>2, <2>3, <2>4, <2>5, <2>6, <2>7
<1>3. CASE ~ok /\ ~Crossed(next, x)
  <2>1. Advance(s, ip, ok, x) = [streak |-> next, fire |-> FALSE]
    BY <1>0, <1>3 DEF Advance
  <2>2. /\ next \in Streaks /\ next.failing /\ next.ip = ip
        /\ s.failing /\ s.ip = ip => next = s
        /\ next.age = 0 \/ (next = s /\ s.ip = ip /\ s.failing)
    BY ContinuedType
  <2> HIDE DEF next
  <2> QED BY <1>3, <2>1, <2>2
<1> QED BY <1>1, <1>2, <1>3

\* A goroutine that goes on stays cancelled if it was, and only the registered
\* one is not.
LEMMA OneGoes ==
  ASSUME WatcherInv, NEW i \in Slots, NEW g \in Goroutines, w' = [w EXCEPT ![i] = g],
         Remembered(g), UNCHANGED <<cr, registry>>,
         g.pc # "dead" => w[i].pc # "dead" /\ g.cancelled = w[i].cancelled
  PROVE  WatcherInv'
<1>1. Typed'
  BY DEF WatcherInv, Typed
<1>2. OneWatcher'
  BY DEF WatcherInv, Typed, OneWatcher
<1>3. \A j \in Slots : Remembered(w'[j])
  BY DEF WatcherInv, Typed
<1> QED BY <1>1, <1>2, <1>3 DEF WatcherInv, Remembered

\* stopFailoverMonitor cancels the goroutine the registry held, so the registry
\* may forget it.
LEMMA StopKeeps ==
  ASSUME WatcherInv, StopFailoverMonitor, cr' \in Resources
  PROVE  WatcherInv'
<1>1. CASE registry = NoWatcher
  BY <1>1 DEF StopFailoverMonitor, WatcherInv, Typed, OneWatcher, Remembered
<1>2. CASE registry # NoWatcher
  <2>0. registry \in Slots /\ w[registry] \in Goroutines
    BY <1>2 DEF WatcherInv, Typed
  <2> DEFINE g == [w[registry] EXCEPT !.cancelled = TRUE]
  <2>1. g \in Goroutines /\ g.cancelled /\ Remembered(g)
    BY <2>0 DEF Goroutines, Remembered, WatcherInv
  <2>2. w' = [w EXCEPT ![registry] = g] /\ registry' = NoWatcher
    BY <1>2 DEF StopFailoverMonitor
  <2> HIDE DEF g
  <2>3. Typed'
    BY <2>0, <2>1, <2>2 DEF WatcherInv, Typed
  <2>4. OneWatcher'
    BY <2>0, <2>1, <2>2 DEF WatcherInv, Typed, OneWatcher
  <2>5. \A j \in Slots : Remembered(w'[j])
    BY <2>0, <2>1, <2>2 DEF WatcherInv, Typed
  <2> QED BY <2>3, <2>4, <2>5 DEF WatcherInv, Remembered
<1> QED BY <1>1, <1>2

\* History and time do not disturb a goroutine's type or memory.
LEMMA SpokenType ==
  ASSUME NEW g \in Goroutines
  PROVE  /\ Spoken(g) \in Goroutines /\ Spoken(g).fires = 0 /\ Spoken(g).pc = g.pc
         /\ Spoken(g).cancelled = g.cancelled /\ Spoken(g).streak = g.streak
         /\ Spoken(g).quiet = 0
  BY DEF Spoken, Goroutines

\* Time makes a streak and the silence it stands for older alike.
LEMMA OlderType ==
  ASSUME NEW g \in Goroutines, Remembered(g)
  PROVE  /\ Older(g) \in Goroutines /\ Remembered(Older(g))
         /\ Older(g).pc = g.pc /\ Older(g).cancelled = g.cancelled
<1> DEFINE a == IF g.streak.failing THEN Min2(g.streak.age + 1, MaxAge) ELSE 0
           q == Min2(g.quiet + 1, MaxAge)
           s == [g.streak EXCEPT !.age = a]
<1>1. /\ a \in Nat /\ q \in Nat
      /\ g.streak.failing /\ g.streak.age =< g.quiet => a =< q
  BY WindowsAssumption DEF Min2, Goroutines, Streaks
<1>2. /\ s \in Streaks /\ s.fired = g.streak.fired /\ s.failing = g.streak.failing
      /\ s.ip = g.streak.ip /\ s.age = a
  BY <1>1 DEF Goroutines, Streaks
<1>3. Older(g) = [g EXCEPT !.streak = s, !.quiet = q]
  BY DEF Older, Goroutines, Streaks
<1> HIDE DEF a, q, s
<1>4. /\ Older(g) \in Goroutines /\ Older(g).streak = s /\ Older(g).fires = g.fires
      /\ Older(g).last = g.last /\ Older(g).pc = g.pc /\ Older(g).cancelled = g.cancelled
      /\ Older(g).target = g.target /\ Older(g).quiet = q
  BY <1>1, <1>2, <1>3 DEF Goroutines
<1> QED BY <1>1, <1>2, <1>4 DEF Remembered

\* A tick that finds no resource or no master forgets the streak; one that
\* probes leaves it alone.
LEMMA TickKeeps ==
  ASSUME WatcherInv, NEW i \in Slots, Tick(i)
  PROVE  WatcherInv'
<1>0. /\ w[i] \in Goroutines /\ w[i].pc = "select" /\ Remembered(w[i])
      /\ cr.master \in IPs \cup {NoIP} /\ cr.window \in Nat
  BY DEF Tick, WatcherInv, Typed, Resources
<1> DEFINE g1 == [Spoken(w[i]) EXCEPT !.streak = NoStreak, !.last = NoIP]
           g2 == [w[i] EXCEPT !.pc = "probe", !.target = cr.master, !.window = cr.window]
<1>1. Advance(w[i].streak, NoIP, FALSE, cr.window).streak = NoStreak
  BY DEF Advance
<1>2. \/ w' = [w EXCEPT ![i] = g1]
      \/ w' = [w EXCEPT ![i] = g2] /\ cr.master # NoIP
  BY <1>1 DEF Tick
<1>3. /\ g1 \in Goroutines /\ g1.fires = 0 /\ g1.pc = "select"
      /\ g1.cancelled = w[i].cancelled /\ ~g1.streak.failing
  BY <1>0, SpokenType, NoStreakType DEF Goroutines, NoStreak
<1>4. Remembered(g1)
  BY <1>3 DEF Remembered
<1>5. /\ g2 \in Goroutines /\ g2.cancelled = w[i].cancelled /\ g2.target = cr.master
      /\ g2.fires = w[i].fires /\ g2.streak = w[i].streak /\ g2.last = w[i].last
      /\ g2.pc = "probe" /\ g2.quiet = w[i].quiet
  BY <1>0 DEF Goroutines, Calls
<1>6. cr.master # NoIP => Remembered(g2)
  BY <1>0, <1>5 DEF Remembered
<1>7. UNCHANGED <<cr, registry>>
  BY DEF Tick
<1> HIDE DEF g1, g2
<1> QED BY <1>0, <1>2, <1>3, <1>4, <1>5, <1>6, <1>7, OneGoes

\* A probe that returns advances the streak.
LEMMA ProbeKeeps ==
  ASSUME WatcherInv, NEW i \in Slots, ProbeReturns(i)
  PROVE  WatcherInv'
<1> DEFINE g   == w[i]
           ip  == g.target
           ok  == ip \in up /\ ~g.cancelled
           res == Advance(g.streak, ip, ok, g.window)
           was == IF ok \/ ip # g.last THEN Spoken(g) ELSE g
           pc  == IF res.fire THEN "push" ELSE "select"
           n   == IF res.fire THEN Min2(was.fires + 1, 2) ELSE was.fires
           g2  == [was EXCEPT !.pc = pc, !.streak = res.streak, !.last = ip, !.target = NoIP,
                              !.window = 0, !.fires = n]
<1>0. /\ g \in Goroutines /\ g.pc = "probe" /\ Remembered(g)
      /\ g.streak \in Streaks /\ g.window \in Nat /\ g.fires \in Nat
  BY DEF ProbeReturns, WatcherInv, Typed, Goroutines
<1>1. ip \in IPs
  BY <1>0 DEF Remembered, Goroutines
<1>2. ok = TRUE \/ ok = FALSE
  OBVIOUS
<1>3. w' = [w EXCEPT ![i] = g2]
  BY DEF ProbeReturns
<1> HIDE DEF ip, ok
<1>4. /\ res.streak \in Streaks /\ res.fire \in BOOLEAN
      /\ res.fire => ~ok /\ res.streak.fired /\ res.streak.failing /\ res.streak.ip = ip
      /\ ~ok /\ g.streak.fired /\ g.streak.failing /\ g.streak.ip = ip
           => ~res.fire /\ res.streak = g.streak
      /\ res.streak.failing =>
           /\ ~ok /\ res.streak.ip = ip
           /\ res.streak.age = 0
              \/ (g.streak.failing /\ g.streak.ip = ip /\ res.streak.age = g.streak.age)
  <2> HIDE DEF g, was, n, pc, g2
  <2>1. CASE ok = TRUE
    <3>0. res = [streak |-> [NoStreak EXCEPT !.ip = ip], fire |-> FALSE]
      BY <1>1, <2>1, NoIPAssumption DEF Advance
    <3> HIDE DEF res
    <3>1. res.streak \in Streaks /\ res.streak.failing = FALSE /\ res.fire = FALSE
      BY <1>1, <3>0, AdvanceGood
    <3> QED BY <2>1, <3>1
  <2>2. CASE ok = FALSE
    BY <1>0, <1>1, <2>2, AdvanceType
  <2> QED BY <1>2, <2>1, <2>2
<1>5. /\ was \in Goroutines /\ was.cancelled = g.cancelled
      /\ was.fires = IF ok \/ ip # g.last THEN 0 ELSE g.fires
      /\ was.quiet = IF ok \/ ip # g.last THEN 0 ELSE g.quiet
  BY <1>0, SpokenType
<1> HIDE DEF res
<1>6. was.fires \in {0, 1} /\ (was.fires = 1 => g.fires = 1 /\ ~ok /\ ip = g.last)
  BY <1>0, <1>5 DEF Remembered
<1>7. was.fires = 1 => ~res.fire /\ res.streak = g.streak
  BY <1>0, <1>4, <1>6 DEF Remembered
<1>7a. res.streak.failing => res.streak.ip = ip /\ res.streak.age =< was.quiet
  <2>1. was.quiet \in Nat
    BY <1>5 DEF Goroutines
  <2> HIDE DEF was
  <2> QED BY <1>0, <1>4, <1>5, <2>1 DEF Remembered
<1> HIDE DEF was
<1>8. n \in Nat /\ n =< 1 /\ (n = 1 => res.streak.fired /\ res.streak.failing /\ res.streak.ip = ip)
  <2>1. CASE res.fire
    <3>1. was.fires = 0
      BY <1>6, <1>7, <2>1
    <3>2. n = 1
      BY <2>1, <3>1 DEF Min2
    <3> QED BY <1>4, <2>1, <3>2
  <2>2. CASE ~res.fire
    <3>1. n = was.fires
      BY <2>2
    <3>2. n = 1 => g.fires = 1 /\ ip = g.last /\ res.streak = g.streak
      BY <1>6, <1>7, <3>1
    <3> HIDE DEF n
    <3> QED BY <1>0, <1>6, <3>1, <3>2 DEF Remembered
  <2> QED BY <2>1, <2>2
<1>9. pc \in {"push", "select"}
  OBVIOUS
<1> HIDE DEF n, pc
<1>10. /\ g2 \in Goroutines /\ g2.fires = n /\ g2.streak = res.streak /\ g2.last = ip
       /\ g2.pc = pc /\ g2.cancelled = was.cancelled /\ g2.quiet = was.quiet
  BY <1>1, <1>4, <1>5, <1>8, <1>9 DEF Goroutines, Calls
<1>11. Remembered(g2)
  BY <1>7a, <1>8, <1>9, <1>10 DEF Remembered
<1>12. UNCHANGED <<cr, registry>>
  BY DEF ProbeReturns
<1> HIDE DEF g2
<1> QED BY <1>0, <1>3, <1>5, <1>10, <1>11, <1>12, OneGoes

\* Every step of the goroutines, the passes and their surroundings keeps the
\* invariant.
LEMMA NextKeeps ==
  ASSUME WatcherInv, [Next]_vars
  PROVE  WatcherInv'
<1>0. w \in [Slots -> Goroutines] /\ \A i \in Slots : Remembered(w[i])
  BY DEF WatcherInv, Typed
<1>1. ASSUME UNCHANGED <<w, registry>>, cr' \in Resources
      PROVE  WatcherInv'
  BY <1>1 DEF WatcherInv, Typed, OneWatcher, Remembered
<1>2. ASSUME NEW i \in Slots, Push(i) PROVE WatcherInv'
  <2> DEFINE g == [w[i] EXCEPT !.pc = "select"]
  <2>1. /\ g \in Goroutines /\ g.cancelled = w[i].cancelled /\ g.fires = w[i].fires
        /\ g.streak = w[i].streak /\ g.last = w[i].last /\ g.pc = "select"
        /\ g.quiet = w[i].quiet
    BY <1>0 DEF Goroutines, Calls
  <2>2. w' = [w EXCEPT ![i] = g] /\ w[i].pc = "push" /\ UNCHANGED <<cr, registry>>
    BY <1>2 DEF Push
  <2> HIDE DEF g
  <2>3. Remembered(g)
    BY <1>0, <2>1 DEF Remembered
  <2> QED BY <2>1, <2>2, <2>3, OneGoes
<1>3. ASSUME NEW i \in Slots, Exit(i) PROVE WatcherInv'
  BY <1>3, DeadType, OneGoes DEF Exit
<1>4. ASSUME ReconcilePass PROVE WatcherInv'
  <2>0. cr \in Resources
    BY DEF WatcherInv, Typed
  <2>1. cr' \in Resources
    BY <1>4, <2>0 DEF ReconcilePass, Resources
  <2>2. CASE StopFailoverMonitor
    BY <2>1, <2>2, StopKeeps
  <2>3. CASE UNCHANGED <<w, registry>>
    BY <1>1, <2>1, <2>3
  <2>4. ASSUME registry = NoWatcher, NEW i \in Slots, w' = [w EXCEPT ![i] = Newborn], registry' = i
        PROVE  WatcherInv'
    <3>1. Typed'
      BY <2>1, <2>4, NewbornType DEF WatcherInv, Typed
    <3>2. \A j \in Slots : Remembered(w'[j])
      BY <1>0, <2>4, NewbornType
    <3>3. OneWatcher'
      <4>1. \A j \in Slots : j # NoWatcher
        BY SlotsAssumption
      <4> QED BY <1>0, <2>4, <4>1 DEF WatcherInv, OneWatcher
    <3> QED BY <3>1, <3>2, <3>3 DEF WatcherInv, Remembered
  <2> QED BY <1>4, <2>2, <2>3, <2>4 DEF ReconcilePass, EnsureFailoverMonitor
<1>5. ASSUME ReconcileDelete PROVE WatcherInv'
  <2>1. cr' \in Resources
    BY <1>5 DEF ReconcileDelete, WatcherInv, Typed, Resources
  <2>2. CASE StopFailoverMonitor
    BY <2>1, <2>2, StopKeeps
  <2>3. CASE UNCHANGED <<w, registry>>
    BY <1>1, <2>1, <2>3
  <2> QED BY <1>5, <2>2, <2>3 DEF ReconcileDelete
<1>6. ASSUME OperatorRestart PROVE WatcherInv'
  <2>1. /\ w' \in [Slots -> Goroutines] /\ registry' = NoWatcher /\ UNCHANGED cr
        /\ \A i \in Slots : w'[i].pc = "dead" /\ Remembered(w'[i])
    BY <1>6, DeadType DEF OperatorRestart
  <2> QED BY <2>1 DEF WatcherInv, Typed, OneWatcher, Remembered
<1>7. ASSUME ResourceChange PROVE WatcherInv'
  <2>1. Windows \subseteq Nat
    BY WindowsAssumption
  <2>2. cr \in Resources
    BY DEF WatcherInv, Typed
  <2>3. ASSUME StatusMoves PROVE cr' \in Resources
    BY <2>2, <2>3 DEF StatusMoves, Resources
  <2>4. ASSUME WindowMoves PROVE cr' \in Resources
    BY <2>1, <2>2, <2>4 DEF WindowMoves, Resources
  <2>5. ASSUME SwitchMoves PROVE cr' \in Resources
    <3>1. cr' = [cr EXCEPT !.failover = ~cr.failover] \/ cr' = [cr EXCEPT !.disabled = ~cr.disabled]
      BY <2>5 DEF SwitchMoves
    <3> QED BY <2>2, <3>1 DEF Resources
  <2>6. ASSUME OwnerDeletes PROVE cr' \in Resources
    BY <2>2, <2>6 DEF OwnerDeletes, Resources
  <2>7. ASSUME FaultMoves PROVE cr' \in Resources
    BY <2>2, <2>7 DEF FaultMoves, Resources
  <2> QED BY <1>1, <1>7, <2>3, <2>4, <2>5, <2>6, <2>7 DEF ResourceChange
<1>8. ASSUME ServerChange PROVE WatcherInv'
  BY <1>1, <1>8 DEF ServerChange, WatcherInv, Typed
<1>9. ASSUME Clock PROVE WatcherInv'
  <2>1. \A i \in Slots : /\ w'[i] \in Goroutines /\ Remembered(w'[i])
                         /\ w'[i].pc = w[i].pc /\ w'[i].cancelled = w[i].cancelled
    BY <1>0, <1>9, OlderType DEF Clock
  <2>2. w' \in [Slots -> Goroutines]
    BY <1>9, <2>1 DEF Clock
  <2>3. UNCHANGED <<cr, registry>>
    BY <1>9 DEF Clock
  <2>4. Typed' /\ OneWatcher'
    BY <2>1, <2>2, <2>3 DEF WatcherInv, Typed, OneWatcher
  <2> QED BY <2>1, <2>4 DEF WatcherInv, Remembered
<1>10. ASSUME UNCHANGED vars PROVE WatcherInv'
  BY <1>1, <1>10 DEF vars, WatcherInv, Typed
<1> QED BY <1>2, <1>3, <1>4, <1>5, <1>6, <1>7, <1>8, <1>9, <1>10, TickKeeps, ProbeKeeps DEF Next, Watch

\* No goroutine runs when the operator starts.
LEMMA InitKeeps == Init => WatcherInv
<1> SUFFICES ASSUME Init PROVE WatcherInv
  OBVIOUS
<1>1. cr.master = NoIP /\ registry = NoWatcher /\ w = [i \in Slots |-> Dead]
  BY DEF Init
<1>2. Windows \subseteq Nat /\ (CHOOSE x \in Windows : TRUE) \in Windows
  BY WindowsAssumption
<1>3. cr \in Resources
  BY <1>2 DEF Init, Resources
<1>4. Typed /\ OneWatcher /\ \A i \in Slots : Remembered(w[i])
  BY <1>1, <1>3, DeadType DEF Typed, OneWatcher
<1> QED BY <1>4 DEF WatcherInv

----------------------------------------------------------------------------
(* Theorems.                                                               *)

\* The invariant holds in every behaviour.
LEMMA WatcherInvariant == Spec => []WatcherInv
<1>1. WatcherInv /\ [Next]_vars => WatcherInv'
  BY NextKeeps
<1> QED BY <1>1, InitKeeps, PTL DEF Spec

\* ensureFailoverMonitor and stopFailoverMonitor, in any order and across
\* restarts, never leave an uncancelled goroutine that the registry has lost.
THEOREM AtMostOneWatcher == Spec => []OneWatcher
<1>1. WatcherInv => OneWatcher
  BY DEF WatcherInv
<1> QED BY <1>1, WatcherInvariant, PTL

\* advanceFailoverProbeStreak pushes one event per streak, whatever happens to
\* the window, the status and the servers meanwhile.
THEOREM OneEventPerStreak == Spec => []FiresOncePerStreak
<1>1. WatcherInv => FiresOncePerStreak
  BY DEF WatcherInv, Remembered, FiresOncePerStreak
<1> QED BY <1>1, WatcherInvariant, PTL

\* A goroutine that comes from a probe to the channel had its probe return.
LEMMA OnlyProbesPush ==
  ASSUME WatcherInv, Next, NEW i \in Slots, w[i].pc = "probe", w'[i].pc = "push"
  PROVE  ProbeReturns(i)
<1>0. w \in [Slots -> Goroutines]
  BY DEF WatcherInv, Typed
<1>1. ASSUME NEW j \in Slots, Tick(j) PROVE FALSE
  <2>1. w[j].pc = "select" /\ \E g : w' = [w EXCEPT ![j] = g]
    BY <1>1 DEF Tick
  <2> QED BY <1>0, <2>1
<1>2. ASSUME NEW j \in Slots, ProbeReturns(j) PROVE ProbeReturns(i)
  <2>1. \E g : w' = [w EXCEPT ![j] = g]
    BY <1>2 DEF ProbeReturns
  <2>2. j = i
    BY <1>0, <2>1
  <2> QED BY <1>2, <2>2
<1>3. ASSUME NEW j \in Slots, Push(j) \/ Exit(j) PROVE FALSE
  <2>1. w[j].pc \in {"select", "push"} /\ \E g : w' = [w EXCEPT ![j] = g]
    BY <1>3 DEF Push, Exit
  <2> QED BY <1>0, <2>1
<1>4. ASSUME UNCHANGED w PROVE FALSE
  BY <1>4
<1>5. ASSUME StopFailoverMonitor PROVE FALSE
  <2>1. CASE registry = NoWatcher
    BY <2>1, <1>4, <1>5 DEF StopFailoverMonitor
  <2>2. CASE registry # NoWatcher
    <3>1. registry \in Slots /\ w[registry] \in Goroutines
      BY <2>2, <1>0 DEF WatcherInv, Typed
    <3> DEFINE g == [w[registry] EXCEPT !.cancelled = TRUE]
    <3>2. g.pc = w[registry].pc
      BY <3>1 DEF Goroutines
    <3>3. w' = [w EXCEPT ![registry] = g]
      BY <2>2, <1>5 DEF StopFailoverMonitor
    <3> HIDE DEF g
    <3> QED BY <1>0, <3>1, <3>2, <3>3
  <2> QED BY <2>1, <2>2
<1>6. ASSUME ReconcilePass PROVE FALSE
  <2>1. ASSUME NEW j \in Slots, w[j].pc = "dead", w' = [w EXCEPT ![j] = Newborn] PROVE FALSE
    BY <1>0, <2>1
  <2> QED BY <1>4, <1>5, <1>6, <2>1 DEF ReconcilePass, EnsureFailoverMonitor
<1>7. ASSUME ReconcileDelete PROVE FALSE
  BY <1>4, <1>5, <1>7 DEF ReconcileDelete
<1>8. ASSUME OperatorRestart PROVE FALSE
  BY <1>8, DeadType DEF OperatorRestart
<1>9. ASSUME ResourceChange \/ ServerChange PROVE FALSE
  BY <1>4, <1>9 DEF ResourceChange, ServerChange
<1>10. ASSUME Clock PROVE FALSE
  <2>1. w[i] \in Goroutines /\ Remembered(w[i])
    BY <1>0 DEF WatcherInv
  <2> QED BY <1>10, <2>1, OlderType DEF Clock
<1> QED BY <1>1, <1>2, <1>3, <1>6, <1>7, <1>8, <1>9, <1>10 DEF Next, Watch

\* A probe that pushes has a streak of a whole window behind it.
LEMMA PushesOnEvidence ==
  ASSUME WatcherInv, NEW i \in Slots, ProbeReturns(i), w'[i].pc = "push"
  PROVE  w[i].quiet >= w[i].window
<1> DEFINE g   == w[i]
           ip  == g.target
           ok  == ip \in up /\ ~g.cancelled
           res == Advance(g.streak, ip, ok, g.window)
<1>0. /\ g \in Goroutines /\ Remembered(g) /\ g.pc = "probe"
      /\ g.streak \in Streaks /\ g.window \in Nat /\ g.quiet \in Nat
  BY DEF ProbeReturns, WatcherInv, Typed, Goroutines
<1>1. ip \in IPs
  BY <1>0 DEF Remembered, Goroutines
<1>2. res.fire
  <2> DEFINE was == IF ok \/ ip # g.last THEN Spoken(g) ELSE g
             pc  == IF res.fire THEN "push" ELSE "select"
             g2  == [was EXCEPT !.pc = pc, !.streak = res.streak, !.last = ip, !.target = NoIP,
                                !.window = 0, !.fires = IF res.fire THEN Min2(@ + 1, 2) ELSE @]
  <2>1. w' = [w EXCEPT ![i] = g2]
    BY DEF ProbeReturns
  <2>2. was \in Goroutines
    BY <1>0, SpokenType
  <2> HIDE DEF was, res
  <2>3. g2.pc = pc
    BY <2>2 DEF Goroutines
  <2>4. w'[i] = g2
    BY <2>1 DEF WatcherInv, Typed
  <2> QED BY <2>3, <2>4
<1>3. /\ res.streak \in Streaks /\ res.streak.failing /\ res.streak.age >= g.window
      /\ res.streak.age = 0 \/ (g.streak.failing /\ res.streak.age = g.streak.age)
  <2>1. ok = TRUE \/ ok = FALSE
    OBVIOUS
  <2> HIDE DEF g, ip, ok
  <2>2. CASE ok = TRUE
    <3>0. res = [streak |-> [NoStreak EXCEPT !.ip = ip], fire |-> FALSE]
      BY <1>1, <2>2, NoIPAssumption DEF Advance
    <3> HIDE DEF res
    <3>1. res.fire = FALSE
      BY <1>1, <3>0, AdvanceGood
    <3> QED BY <1>2, <3>1
  <2>3. CASE ok = FALSE
    BY <1>0, <1>1, <1>2, <2>3, AdvanceType
  <2> QED BY <2>1, <2>2, <2>3
<1>4. g.streak.failing => g.streak.age =< g.quiet
  BY <1>0 DEF Remembered
<1>5. res.streak.age \in Nat /\ g.streak.age \in Nat
  BY <1>0, <1>3 DEF Streaks
<1> HIDE DEF g, res
<1>6. g.quiet >= g.window
  BY <1>0, <1>3, <1>4, <1>5
<1> QED BY <1>6 DEF g

\* The window a probe works with is the one its tick read, so the event it
\* pushes has that much silence behind it: no streak leaks from one master, or
\* from one side of a good probe, to the other.
THEOREM EventsHaveEvidence == Spec => FiresOnEvidence
<1> DEFINE A == \A i \in Slots :
                   w[i].pc = "probe" /\ w'[i].pc = "push" => w[i].quiet >= w[i].window
<1>1. WatcherInv /\ [Next]_vars => [A]_vars
  <2> SUFFICES ASSUME WatcherInv, Next, NEW i \in Slots, w[i].pc = "probe", w'[i].pc = "push"
               PROVE  w[i].quiet >= w[i].window
    OBVIOUS
  <2>1. ProbeReturns(i)
    BY OnlyProbesPush
  <2> QED BY <2>1, PushesOnEvidence
<1> QED BY <1>1, WatcherInvariant, PTL DEF Spec, FiresOnEvidence
============================================================================
