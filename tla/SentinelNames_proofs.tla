------------------------ MODULE SentinelNames_proofs ------------------------
(***************************************************************************)
(* The acknowledgement of a rename, for any number of pods, any budget of  *)
(* faults and with or without Prompt; and the quarantine of a captured     *)
(* instance, where nothing else replaces a pod or a Sentinel.              *)
(*                                                                         *)
(* op.rolling is computed from the status of the StatefulSet at the start  *)
(* of the pass and used at its end, op.done from the Sentinels that        *)
(* answered the gather.  The invariant says that both are still true at    *)
(* the end: pods created meanwhile have the template the pass applied, and *)
(* only the pass itself gives a Sentinel a name.  The quarantine decides   *)
(* on the data of the pods a gather listed and asked: QuietInv says where  *)
(* the others stand.                                                       *)
(***************************************************************************)
EXTENDS SentinelNames, FiniteSetTheorems, TLAPS

Addresses == Pods \cup Ghosts \cup {None, Captor}
PodState  == [st : {"gone", "parked", "up"}, tpl : Names, of : Addresses,
              data : {"none", "own", "captor"}, leaving : BOOLEAN]
Template  == [tpl : Names, size : {0, Cardinality(Pods)}, observed : BOOLEAN, settled : BOOLEAN]
Marks     == [forsaken : {"clear", "cooling", "due"}, quarantine : {"clear", "cooling", "due"},
              attempts : Nat, running : BOOLEAN, ack : Names]
Passes    == [pc : {"idle", "gather", "rule0", "prune"}, name : Names \cup {None},
              listed : SUBSET Addresses, live : SUBSET Addresses, rolling : BOOLEAN,
              master : Addresses, bare : SUBSET Sentinels, prune : SUBSET Sentinels, done : BOOLEAN]

\* The types of the variables.
NamesType ==
    /\ name \in Names /\ sts \in Template /\ pod \in [Pods -> PodState]
    /\ has \in [Sentinels -> SUBSET Names]
    /\ at \in [Names -> Addresses] /\ down \in [Names -> BOOLEAN]
    /\ marks \in Marks /\ op \in Passes /\ budget \in Budgets
    /\ op.pc # "idle" => op.name \in Names

Carries(n) == \A p \in Pods : pod[p].st # "gone" => pod[p].tpl = n

\* A settled status is true of the pods, a pass applied the template it works
\* for, and what it read of the roll lasts until its end.
RollInv ==
    /\ sts.observed /\ sts.settled => Carries(sts.tpl)
    /\ op.pc # "idle" => sts.tpl = op.name
    /\ op.pc # "idle" /\ ~op.rolling => Carries(op.name)

\* The Sentinels are not scaled down when a pass without a quarantine asks them.
SizeInv == op.pc = "gather" /\ marks.quarantine = "clear" => sts.size = Cardinality(Pods)

\* Without lost probes a driver that is done has seen every Sentinel; without
\* edits there is nothing to acknowledge.
DoneInv ==
    \/ budget.edits = 0 /\ name = "old" /\ marks.ack = "old" /\ op.name \in {"old", None}
    \/ /\ budget.probes = 0
       /\ op.pc \in {"rule0", "prune"} /\ op.done => \A s \in Sentinels : has[s] \subseteq {op.name}

NamesInv == NamesType /\ RollInv /\ SizeInv

----------------------------------------------------------------------------
(* Types.                                                                  *)

USE DEF Names, None, Captor

LEMMA InitType == Init => NamesType
<1> SUFFICES ASSUME Init PROVE NamesType
    OBVIOUS
<1>1. budget \in Budgets
    BY Zenon, ScenariosAreBudgets DEF Init
<1>2. name \in Names /\ sts \in Template
    BY Zenon DEF Init, Template
<1>3. pod \in [Pods -> PodState]
  <2>1. ASSUME NEW p \in Pods
        PROVE  [Blank("up", "old") EXCEPT !.data = budget.data,
                                          !.of = IF p = First THEN None ELSE First] \in PodState
    BY Zenon, <1>1, NamesConstants DEF Budgets, Blank, PodState, Addresses
  <2> QED BY Zenon, <2>1 DEF Init
<1>4. has \in [Sentinels -> SUBSET Names]
    BY Zenon DEF Init
<1>5. at \in [Names -> Addresses] /\ down \in [Names -> BOOLEAN]
    BY Zenon, NamesConstants DEF Init, Addresses
<1>6. marks \in Marks
    BY Zenon DEF Init, Marks
<1>7. op \in Passes /\ op.pc = "idle"
    BY Zenon DEF Init, Idle, Passes, Addresses
<1> QED BY <1>1, <1>2, <1>3, <1>4, <1>5, <1>6, <1>7 DEF NamesType

\* Spending leaves a budget and lowers at most the one count.
LEMMA SpendType ==
    ASSUME budget \in Budgets, NEW w \in {"edits", "writes", "evictions", "sentinels",
                                          "captures", "probes", "errors"}, Spend(w)
    PROVE  /\ budget' \in Budgets /\ budget[w] # 0
           /\ budget.edits = 0 => budget'.edits = 0
           /\ budget.probes = 0 => budget'.probes = 0
BY DEF Spend, Budgets

LEMMA IdleType == Idle \in Passes /\ Idle.pc = "idle" /\ Idle.name = None
BY DEF Idle, Passes, Addresses

LEMMA AddressFacts ==
    /\ Pods \subseteq Addresses /\ None \in Addresses /\ Captor \in Addresses
    /\ \A p \in Pods : Ghost[p] \in Addresses
    /\ \A x \in Addresses, p \in Pods : Renamed(x, p) \in Addresses
BY DEF Addresses, Ghosts, Renamed

LEMMA Following ==
    ASSUME NEW r \in PodState, NEW x \in Addresses
    PROVE  /\ [r EXCEPT !.of = x] \in PodState
           /\ [r EXCEPT !.of = x].st = r.st /\ [r EXCEPT !.of = x].tpl = r.tpl
BY DEF PodState

LEMMA BeginType == NamesType /\ Begin => NamesType'
<1> SUFFICES ASSUME NamesType, Begin PROVE NamesType'
    OBVIOUS
<1> USE DEF NamesType
<1>1. sentinelDesiredReplicas \in {0, Cardinality(Pods)}
    BY DEF sentinelDesiredReplicas
<1>2. sts' \in Template
    BY Zenon, <1>1 DEF Begin, Template
<1>3. op' \in Passes /\ op'.name = name
  <2>1. {p \in Pods : pod[p].st # "gone"} \subseteq Addresses
    BY AddressFacts
  <2>2. {p \in Pods : pod[p].st # "gone" /\ ~pod[p].leaving} \subseteq Addresses
    BY AddressFacts
  <2> QED BY Zenon, <2>1, <2>2, IdleType DEF Begin, Passes
<1> QED BY <1>2, <1>3 DEF Begin, redis

LEMMA RealMasterType ==
    ASSUME NamesType, op.pc = "gather", NEW R \in SUBSET Pods, NEW S, NEW m \in DetermineRealMaster(R, S)
    PROVE  m \in Addresses
<1>1. op.live \in SUBSET Addresses
    BY DEF NamesType, Passes
<1>2. DEFINE major == 2 * Cardinality(Monitors(op.name) \cap S) > Cardinality(S)
             claim == {p \in R : pod[p].of = None}
<1>3. CASE major /\ at[op.name] \in op.live
    BY <1>1, <1>3 DEF DetermineRealMaster
<1>4. CASE ~(major /\ at[op.name] \in op.live) /\ ~major /\ claim # {}
    BY <1>4, AddressFacts DEF DetermineRealMaster
<1>5. CASE ~(major /\ at[op.name] \in op.live) /\ ~(~major /\ claim # {})
    BY <1>5, AddressFacts DEF DetermineRealMaster
<1> QED BY <1>3, <1>4, <1>5

LEMMA StopType ==
    ASSUME marks \in Marks, NEW f \in {"clear", "cooling", "due"},
           NEW q \in {"clear", "cooling", "due"}, NEW k \in Nat, Stop(f, q, k) \/ Marked(f, q, k)
    PROVE  marks' \in Marks /\ marks'.ack = marks.ack
<1>1. Running \in BOOLEAN
    BY DEF Running
<1> QED BY Zenon, <1>1 DEF Stop, Marked, Marks

\* What a gather does to the pass: it ends, or Rules 0 and N follow.  A driver
\* that is done saw no other name on a Sentinel that answered.
LEMMA GatherStep ==
    ASSUME NamesType, Gather
    PROVE  /\ marks' \in Marks /\ marks'.ack = marks.ack
           /\ budget' \in Budgets
           /\ budget.edits = 0 => budget'.edits = 0
           /\ op' \in Passes
           /\ \/ op'.pc = "idle" /\ op'.name = None
              \/ op'.pc = "rule0" /\ op'.name = op.name /\ op'.rolling = op.rolling
           /\ budget.probes = 0 =>
                 /\ budget'.probes = 0
                 /\ op'.pc = "rule0" /\ op'.done =>
                       /\ marks.quarantine = "clear"
                       /\ sts.size # 0 => \A s \in Sentinels : has[s] \subseteq {op.name}
<1> USE DEF NamesType
<1>1. PICK lost \in {{}} \cup {{x} : x \in Pods \cup Sentinels} :
       LET R == {p \in op.live \cap Pods : Up(p)} \ lost
           S == IF sts.size = 0 THEN {} ELSE Sentinels \ lost
       IN  /\ IF lost = {} THEN UNCHANGED budget ELSE Spend("probes")
           /\ \/ /\ Stop(Since(marks.forsaken), Since(marks.quarantine),
                         IF marks.quarantine = "clear" THEN marks.attempts + 1 ELSE marks.attempts)
                 /\ op' = Idle
              \/ /\ Stop(marks.forsaken, marks.quarantine, marks.attempts)
                 /\ op' = Idle
              \/ /\ IF Captured(R, S) THEN Marked("cooling", marks.quarantine, marks.attempts)
                    ELSE Marked("clear",
                                IF Releases(marks.quarantine) \/ (marks.running /\ marks.attempts # 0)
                                THEN "clear" ELSE marks.quarantine,
                                IF marks.running THEN 0 ELSE marks.attempts)
                 /\ \E m \in DetermineRealMaster(R, S) :
                       LET plan == planStaleMasterNames(R, S, m)
                       IN  op' = [op EXCEPT !.pc = "rule0", !.master = m,
                                     !.done = plan.done /\ marks.quarantine = "clear",
                                     !.prune = plan.prune,
                                     !.bare = IF m = None THEN {} ELSE S \ Monitors(op.name)]
    BY Zenon DEF Gather
<1> DEFINE R == {p \in op.live \cap Pods : Up(p)} \ lost
           S == IF sts.size = 0 THEN {} ELSE Sentinels \ lost
<1>2. /\ budget' \in Budgets /\ (budget.edits = 0 => budget'.edits = 0)
      /\ budget.probes = 0 => lost = {} /\ budget'.probes = 0
    BY Zenon, <1>1, SpendType
<1>3. marks.attempts \in Nat /\ Since(marks.forsaken) \in {"clear", "cooling", "due"}
      /\ Since(marks.quarantine) \in {"clear", "cooling", "due"}
      /\ marks.forsaken \in {"clear", "cooling", "due"} /\ marks.quarantine \in {"clear", "cooling", "due"}
    BY DEF Since, Marks
<1>4. CASE /\ Stop(Since(marks.forsaken), Since(marks.quarantine),
                   IF marks.quarantine = "clear" THEN marks.attempts + 1 ELSE marks.attempts)
           /\ op' = Idle
  <2>1. (IF marks.quarantine = "clear" THEN marks.attempts + 1 ELSE marks.attempts) \in Nat
    BY <1>3
  <2>2. marks' \in Marks /\ marks'.ack = marks.ack
    BY <2>1, <1>3, <1>4, StopType
  <2> QED BY <1>2, <1>4, <2>2, IdleType
<1>5. CASE Stop(marks.forsaken, marks.quarantine, marks.attempts) /\ op' = Idle
  <2>1. marks' \in Marks /\ marks'.ack = marks.ack
    BY <1>3, <1>5, StopType
  <2> QED BY <1>2, <1>5, <2>1, IdleType
<1>6. CASE /\ IF Captured(R, S) THEN Marked("cooling", marks.quarantine, marks.attempts)
              ELSE Marked("clear",
                          IF Releases(marks.quarantine) \/ (marks.running /\ marks.attempts # 0)
                          THEN "clear" ELSE marks.quarantine,
                          IF marks.running THEN 0 ELSE marks.attempts)
           /\ \E m \in DetermineRealMaster(R, S) :
                 LET plan == planStaleMasterNames(R, S, m)
                 IN  op' = [op EXCEPT !.pc = "rule0", !.master = m,
                               !.done = plan.done /\ marks.quarantine = "clear",
                               !.prune = plan.prune,
                               !.bare = IF m = None THEN {} ELSE S \ Monitors(op.name)]
  <2> DEFINE q == IF Releases(marks.quarantine) \/ (marks.running /\ marks.attempts # 0)
                  THEN "clear" ELSE marks.quarantine
             k == IF marks.running THEN 0 ELSE marks.attempts
  <2>1. q \in {"clear", "cooling", "due"} /\ k \in Nat
    BY <1>3
  <2>2. Marked("cooling", marks.quarantine, marks.attempts) \/ Marked("clear", q, k)
    BY <1>6
  <2> HIDE DEF q, k
  <2>3. marks' \in Marks /\ marks'.ack = marks.ack
    BY <2>1, <2>2, <1>3, StopType
  <2> HIDE DEF R, S
  <2>4. PICK m \in DetermineRealMaster(R, S) :
            op' = [op EXCEPT !.pc = "rule0", !.master = m,
                       !.done = planStaleMasterNames(R, S, m).done /\ marks.quarantine = "clear",
                       !.prune = planStaleMasterNames(R, S, m).prune,
                       !.bare = IF m = None THEN {} ELSE S \ Monitors(op.name)]
    BY Zenon, <1>6
  <2>5. R \in SUBSET Pods /\ S \in SUBSET Sentinels
    BY DEF R, S
  <2>6. m \in Addresses
    BY Zenon, <2>5, RealMasterType DEF Gather
  <2> DEFINE P == planStaleMasterNames(R, S, m)
  <2>7. P.prune \in SUBSET Sentinels /\ P.done \in BOOLEAN
    BY <2>5 DEF planStaleMasterNames
  <2>8. P.done => Observed(S) \ {op.name} = {}
    BY Zenon DEF planStaleMasterNames
  <2> HIDE DEF P
  <2>9. (IF m = None THEN {} ELSE S \ Monitors(op.name)) \in SUBSET Sentinels
    BY <2>5
  <2>10. /\ op' \in Passes /\ op'.pc = "rule0" /\ op'.name = op.name /\ op'.rolling = op.rolling
         /\ op'.done = (P.done /\ marks.quarantine = "clear")
    BY Zenon, <2>4, <2>6, <2>7, <2>9 DEF P, Passes
  <2>11. lost = {} /\ sts.size # 0 => S = Sentinels
    BY DEF S
  <2>12. Observed(Sentinels) \ {op.name} = {} => \A s \in Sentinels : has[s] \subseteq {op.name}
    BY DEF Observed
  <2> QED BY Zenon, <1>2, <2>3, <2>8, <2>10, <2>11, <2>12
<1> QED BY Zenon, <1>1, <1>4, <1>5, <1>6

LEMMA ElectedArePods ==
    ASSUME NamesType, Recovers, NEW p \in Elected PROVE p \in Pods
<1>1. Holders \subseteq Pods
    BY DEF Holders
<1>2. \E q \in Pods : pod[q].st # "gone"
    BY DEF Recovers
<1>3. CASE Holders = {}
  <2> DEFINE f == IF pod[First].st = "gone" THEN CHOOSE q \in Pods : pod[q].st # "gone" ELSE First
  <2>1. f \in Pods
    BY <1>2, NamesConstants
  <2>2. Elected = {f}
    BY <1>3 DEF Elected
  <2> QED BY Zenon, <2>1, <2>2
<1>4. CASE Holders # {} /\ Contested
    BY <1>4 DEF Elected
<1>5. CASE Holders # {} /\ ~Contested
  <2>1. Elected = Holders
    BY <1>5 DEF Elected
  <2> QED BY <1>1, <2>1
<1> QED BY <1>3, <1>4, <1>5

\* The end of a pass.
LEMMA EndStep ==
    ASSUME NamesType, End
    PROVE  /\ NamesType' /\ op' = Idle
           /\ \A p \in Pods : pod'[p].st = pod[p].st /\ pod'[p].tpl = pod[p].tpl
           /\ marks'.ack = IF Acknowledges THEN op.name ELSE marks.ack
           /\ marks'.quarantine = marks.quarantine
<1> USE DEF NamesType
<1>1. Running \in BOOLEAN /\ op.name \in Names
    BY DEF Running, End
<1>2. /\ marks' \in Marks /\ marks'.quarantine = marks.quarantine
      /\ marks'.ack = IF Acknowledges THEN op.name ELSE marks.ack
    BY Zenon, <1>1 DEF End, Marks
<1>3. op' \in Passes /\ op' = Idle /\ op'.pc = "idle"
    BY IdleType DEF End
<1> DEFINE Redis == /\ pod' \in [Pods -> PodState] /\ has' \in [Sentinels -> SUBSET Names]
                    /\ at' \in [Names -> Addresses] /\ down' \in [Names -> BOOLEAN]
                    /\ \A p \in Pods : pod'[p].st = pod[p].st /\ pod'[p].tpl = pod[p].tpl
<1>4. Redis
  <2>1. CASE Rescues /\ Rescued(op.master) /\ UNCHANGED <<has, at, down>>
    <3>1. op.master \in Pods
      BY <2>1 DEF Rescues
    <3>2. ASSUME NEW p \in Pods
          PROVE  /\ [pod[p] EXCEPT !.of = op.master] \in PodState
                 /\ [pod[p] EXCEPT !.of = op.master].st = pod[p].st
                 /\ [pod[p] EXCEPT !.of = op.master].tpl = pod[p].tpl
      BY <3>1, AddressFacts, Following
    <3> QED BY <2>1, <3>2 DEF Rescued
  <2>2. ASSUME Recovers, NEW p \in Elected,
               pod' = IF Up(p) THEN [pod EXCEPT ![p].of = None] ELSE pod,
               has' = [s \in Sentinels |-> has[s] \cup {op.name}],
               at' = [at EXCEPT ![op.name] = p], down' = [down EXCEPT ![op.name] = FALSE]
        PROVE  Redis
    <3>1. p \in Pods
      BY <2>2, ElectedArePods
    <3>2. /\ pod' \in [Pods -> PodState]
          /\ \A x \in Pods : pod'[x].st = pod[x].st /\ pod'[x].tpl = pod[x].tpl
      BY <2>2, <3>1, AddressFacts, Following
    <3>3. has' \in [Sentinels -> SUBSET Names]
      BY <1>1, <2>2
    <3>4. at' \in [Names -> Addresses] /\ down' \in [Names -> BOOLEAN]
      BY <1>1, <2>2, <3>1, AddressFacts
    <3> QED BY <3>2, <3>3, <3>4
  <2>3. CASE UNCHANGED redis
    BY <2>3 DEF redis
  <2> HIDE DEF Redis
  <2> QED BY <2>1, <2>2, <2>3 DEF End
<1> QED BY <1>2, <1>3, <1>4 DEF End

LEMMA Rule0Type ==
    ASSUME NamesType, Rule0
    PROVE  /\ NamesType' /\ (budget.edits = 0 => budget'.edits = 0)
           /\ budget.probes = 0 => budget'.probes = 0
           /\ \A s \in Sentinels : has'[s] \subseteq has[s] \cup {op.name}
<1> USE DEF NamesType
<1>1. op.name \in Names /\ op.master \in Addresses
    BY DEF Rule0, Passes
<1>2. PICK ok \in SUBSET op.bare :
        /\ UNCHANGED budget \/ Spend("errors")
        /\ has' = [s \in Sentinels |-> IF s \in ok THEN has[s] \cup {op.name} ELSE has[s]]
        /\ at'   = IF ok = {} THEN at ELSE [at EXCEPT ![op.name] = op.master]
        /\ down' = IF ok = {} THEN down ELSE [down EXCEPT ![op.name] = FALSE]
    BY Zenon DEF Rule0
<1>3. /\ budget' \in Budgets /\ (budget.edits = 0 => budget'.edits = 0)
      /\ budget.probes = 0 => budget'.probes = 0
    BY <1>2, SpendType
<1>4. /\ has' \in [Sentinels -> SUBSET Names]
      /\ \A s \in Sentinels : has'[s] \subseteq has[s] \cup {op.name}
    BY <1>1, <1>2
<1>5. at' \in [Names -> Addresses] /\ down' \in [Names -> BOOLEAN]
    BY <1>1, <1>2
<1>6. op' \in Passes /\ op'.name \in Names
    BY <1>1 DEF Rule0, Passes
<1> QED BY <1>3, <1>4, <1>5, <1>6 DEF Rule0

LEMMA PruneType ==
    ASSUME NamesType, Prune
    PROVE  /\ NamesType' /\ (budget.edits = 0 => budget'.edits = 0)
           /\ budget.probes = 0 => budget'.probes = 0
           /\ \A s \in Sentinels : has'[s] \subseteq has[s]
<1> USE DEF NamesType
<1>1. PICK skip \in {{}} \cup {{s} : s \in op.prune} :
        /\ IF skip = {} THEN UNCHANGED budget ELSE Spend("errors")
        /\ has' = [s \in Sentinels |-> IF s \in op.prune \ skip /\ Confirmed(s)
                                      THEN has[s] \cap {op.name} ELSE has[s]]
    BY Zenon DEF Prune
<1>2. /\ budget' \in Budgets /\ (budget.edits = 0 => budget'.edits = 0)
      /\ budget.probes = 0 => budget'.probes = 0
    BY <1>1, SpendType
<1>3. /\ has' \in [Sentinels -> SUBSET Names]
      /\ \A s \in Sentinels : has'[s] \subseteq has[s]
    BY <1>1
<1>4. op' \in Passes /\ (op'.pc # "idle" => op'.name \in Names)
    BY DEF Prune, Passes
<1> QED BY <1>2, <1>3, <1>4 DEF Prune

----------------------------------------------------------------------------
(* The steps of the owner, of Kubernetes and of the Sentinels.             *)

\* What none of them does to a pass: they read no status that is not true of
\* the pods, create pods with the applied template only, and give no name to
\* a Sentinel.
Beside ==
    /\ op'.pc = op.pc /\ op'.name = op.name /\ op'.rolling = op.rolling /\ op'.done = op.done
    /\ marks'.ack = marks.ack /\ (marks'.quarantine = "clear" => marks.quarantine = "clear")
    /\ sts'.tpl = sts.tpl /\ sts'.size = sts.size
    /\ sts'.observed /\ sts'.settled => (sts.observed /\ sts.settled) \/ Carries(sts.tpl)
    /\ \A p \in Pods : pod'[p].st # "gone" =>
          pod'[p].tpl = sts.tpl \/ (pod[p].st # "gone" /\ pod'[p].tpl = pod[p].tpl)
    /\ \A s \in Sentinels : has'[s] \subseteq has[s]
    /\ budget.edits = 0 => name' = name /\ budget'.edits = 0
    /\ budget.probes = 0 => budget'.probes = 0

LEMMA CoolStep == NamesType /\ Cool => NamesType' /\ Beside
<1> SUFFICES ASSUME NamesType, Cool PROVE NamesType' /\ Beside
    OBVIOUS
<1> USE DEF NamesType
<1>1. /\ marks' \in Marks /\ marks'.ack = marks.ack
      /\ marks'.quarantine = "clear" => marks.quarantine = "clear"
    BY Zenon DEF Cool, Marks
<1>2. UNCHANGED <<name, sts, pod, has, at, down, op, budget>>
    BY DEF Cool, redis
<1> QED BY <1>1, <1>2 DEF Beside

LEMMA EditStep == NamesType /\ Edit => NamesType' /\ Beside
<1> SUFFICES ASSUME NamesType, Edit PROVE NamesType' /\ Beside
    OBVIOUS
<1> USE DEF NamesType
<1>1. /\ budget' \in Budgets /\ budget.edits # 0
      /\ budget.probes = 0 => budget'.probes = 0
    BY SpendType DEF Edit
<1>2. name' \in Names /\ UNCHANGED <<sts, pod, has, at, down, marks, op>>
    BY DEF Edit, redis
<1> QED BY <1>1, <1>2 DEF Beside

LEMMA StatusStep == NamesType /\ StatusSync => NamesType' /\ Beside
<1> SUFFICES ASSUME NamesType, StatusSync PROVE NamesType' /\ Beside
    OBVIOUS
<1> USE DEF NamesType
<1>1. UNCHANGED <<name, pod, has, at, down, marks, op, budget>>
    BY DEF StatusSync, redis
<1> DEFINE settled == /\ \A p \in Pods : pod[p].st # "gone" => pod[p].tpl = sts.tpl
                      /\ Cardinality({p \in Pods : Ready(p)}) = sts.size
<1>2. sts' = [sts EXCEPT !.observed = TRUE, !.settled = settled] /\ settled \in BOOLEAN
    BY DEF StatusSync
<1>3. settled => Carries(sts.tpl)
    BY DEF Carries
<1> HIDE DEF settled
<1>4. sts' \in Template /\ sts'.tpl = sts.tpl /\ sts'.size = sts.size /\ sts'.settled = settled
    BY Zenon, <1>2 DEF Template
<1> QED BY <1>1, <1>3, <1>4 DEF Beside

LEMMA StopStep == NamesType /\ StopSentinels => NamesType' /\ Beside
<1> SUFFICES ASSUME NamesType, StopSentinels PROVE NamesType' /\ Beside
    OBVIOUS
<1> USE DEF NamesType
<1>1. UNCHANGED <<name, sts, pod, marks, op, budget>>
    BY DEF StopSentinels
<1>2. /\ has' \in [Sentinels -> SUBSET Names] /\ \A s \in Sentinels : has'[s] \subseteq has[s]
      /\ at' \in [Names -> Addresses] /\ down' \in [Names -> BOOLEAN]
    BY AddressFacts DEF StopSentinels
<1> QED BY <1>1, <1>2 DEF Beside

\* A step that changes pods only, keeping those that live in their template.
LEMMA PodStep ==
    ASSUME NamesType, pod' \in [Pods -> PodState],
           \A p \in Pods : pod'[p].st # "gone" =>
              pod'[p].tpl = sts.tpl \/ (pod[p].st # "gone" /\ pod'[p].tpl = pod[p].tpl),
           UNCHANGED <<name, sts, has, marks, op>>,
           at' \in [Names -> Addresses], down' \in [Names -> BOOLEAN],
           \/ UNCHANGED budget
           \/ \E w \in {"writes", "evictions"} : Spend(w)
    PROVE  NamesType' /\ Beside
<1>1. /\ budget' \in Budgets /\ (budget.edits = 0 => budget'.edits = 0)
      /\ budget.probes = 0 => budget'.probes = 0
    BY SpendType DEF NamesType
<1> QED BY <1>1 DEF NamesType, Beside

LEMMA KillStep == ASSUME NamesType, NEW p \in Pods, Kill(p) PROVE NamesType' /\ Beside
<1> USE DEF NamesType
<1>1. /\ pod' \in [Pods -> PodState]
      /\ \A q \in Pods : pod'[q].st # "gone" => pod[q].st # "gone" /\ pod'[q].tpl = pod[q].tpl
  <2>1. sts.tpl \in Names
    BY DEF Template
  <2>2. Blank("gone", sts.tpl) \in PodState /\ Blank("gone", sts.tpl).st = "gone"
    BY <2>1, AddressFacts DEF Blank, PodState
  <2>3. ASSUME NEW q \in Pods
        PROVE  /\ [pod[q] EXCEPT !.of = Renamed(@, p)] \in PodState
               /\ [pod[q] EXCEPT !.of = Renamed(@, p)].st = pod[q].st
               /\ [pod[q] EXCEPT !.of = Renamed(@, p)].tpl = pod[q].tpl
    <3>1. Renamed(pod[q].of, p) \in Addresses
      BY AddressFacts DEF PodState
    <3> QED BY <3>1, Following
  <2> QED BY <2>2, <2>3 DEF Kill
<1>2. at' \in [Names -> Addresses]
    BY AddressFacts DEF Kill
<1>3. /\ op' \in Passes /\ op'.pc = op.pc /\ op'.name = op.name
      /\ op'.rolling = op.rolling /\ op'.done = op.done
  <2>1. \A A \in SUBSET Addresses : {Renamed(x, p) : x \in A} \in SUBSET Addresses
    BY AddressFacts
  <2> QED BY Zenon, <2>1, AddressFacts DEF Kill, Passes
<1>4. /\ sts' \in Template /\ sts'.tpl = sts.tpl /\ sts'.size = sts.size
      /\ sts'.observed /\ sts'.settled => sts.observed /\ sts.settled
    BY Zenon DEF Kill, Template
<1>5. UNCHANGED <<name, has, down, marks, budget>>
    BY DEF Kill
<1> QED BY <1>1, <1>2, <1>3, <1>4, <1>5 DEF Beside

LEMMA OnePodStep ==
    ASSUME NamesType, NEW p \in Pods,
           Roll(p) \/ Create(p) \/ StartPod(p) \/ Sync(p) \/ Write(p) \/ Evict(p) \/ Adopt(p)
    PROVE  NamesType' /\ Beside
<1> DEFINE Kept == pod'[p].st # "gone" => pod[p].st # "gone" /\ pod'[p].tpl = pod[p].tpl
           One  == /\ pod'[p] \in PodState /\ pod' = [pod EXCEPT ![p] = pod'[p]]
                   /\ Kept \/ pod'[p].tpl = sts.tpl
                   /\ UNCHANGED <<name, sts, has, at, down, marks, op>>
                   /\ UNCHANGED budget \/ \E w \in {"writes", "evictions"} : Spend(w)
<1>1. pod[p] \in PodState /\ pod \in [Pods -> PodState] /\ sts.tpl \in Names
    BY DEF NamesType, Template
<1>2. ASSUME Roll(p) \/ Evict(p) PROVE One
  <2>1. pod' = [pod EXCEPT ![p].leaving = TRUE]
    BY <1>2 DEF Roll, Evict
  <2>2. pod'[p] \in PodState /\ Kept /\ pod' = [pod EXCEPT ![p] = pod'[p]]
    BY Zenon, <1>1, <2>1 DEF PodState
  <2> QED BY <1>2, <2>2 DEF Roll, Evict
<1>3. ASSUME Create(p) PROVE One
  <2>1. Blank("parked", sts.tpl) \in PodState /\ Blank("parked", sts.tpl).tpl = sts.tpl
    BY <1>1, AddressFacts DEF Blank, PodState
  <2>2. pod' = [pod EXCEPT ![p] = Blank("parked", sts.tpl)]
    BY <1>3 DEF Create
  <2>3. pod'[p] = Blank("parked", sts.tpl)
    BY <1>1, <2>2
  <2> QED BY Zenon, <1>3, <2>1, <2>2, <2>3 DEF Create
<1>4. ASSUME StartPod(p) PROVE One
  <2> DEFINE m == at[pod[p].tpl]
             f == IF m # p /\ Living(m) THEN m ELSE None
  <2>1. f \in Addresses
    BY AddressFacts DEF Living
  <2>2. pod' = [pod EXCEPT ![p].st = "up", ![p].of = f]
    BY <1>4 DEF StartPod
  <2> HIDE DEF f
  <2>3. pod'[p] \in PodState /\ pod'[p].tpl = pod[p].tpl /\ pod' = [pod EXCEPT ![p] = pod'[p]]
    BY Zenon, <1>1, <2>1, <2>2 DEF PodState
  <2>4. pod[p].st # "gone"
    BY <1>4 DEF StartPod
  <2> QED BY <1>4, <2>3, <2>4 DEF StartPod
<1>5. ASSUME Sync(p) \/ Write(p) PROVE One
  <2>1. PICK d \in {"none", "own", "captor"} : pod' = [pod EXCEPT ![p].data = d]
    <3>1. CASE Sync(p)
      <4>1. DataAt(pod[p].of) \in {"none", "own", "captor"}
        BY <1>1 DEF DataAt, PodState
      <4> QED BY Zenon, <3>1, <4>1 DEF Sync
    <3>2. CASE Write(p)
      BY <3>2 DEF Write
    <3> QED BY <1>5, <3>1, <3>2
  <2>2. pod'[p] \in PodState /\ Kept /\ pod' = [pod EXCEPT ![p] = pod'[p]]
    BY <1>1, <2>1 DEF PodState
  <2> QED BY <1>5, <2>2 DEF Sync, Write
<1>6. ASSUME Adopt(p) PROVE One
  <2>1. pod' = [pod EXCEPT ![p].of = Captor]
    BY <1>6 DEF Adopt
  <2>2. pod'[p] \in PodState /\ Kept /\ pod' = [pod EXCEPT ![p] = pod'[p]]
    BY Zenon, <1>1, <2>1, AddressFacts DEF PodState
  <2> QED BY <1>6, <2>2 DEF Adopt
<1>7. One
  <2> HIDE DEF One
  <2> QED BY <1>2, <1>3, <1>4, <1>5, <1>6
<1>8. /\ pod' \in [Pods -> PodState]
      /\ \A q \in Pods : pod'[q].st # "gone" =>
            pod'[q].tpl = sts.tpl \/ (pod[q].st # "gone" /\ pod'[q].tpl = pod[q].tpl)
    BY <1>1, <1>7
<1>9. at' \in [Names -> Addresses] /\ down' \in [Names -> BOOLEAN]
    BY <1>7 DEF NamesType
<1> QED BY <1>7, <1>8, <1>9, PodStep

LEMMA DropStep == ASSUME NamesType, NEW s \in Sentinels, Drop(s) PROVE NamesType' /\ Beside
<1> USE DEF NamesType
<1>1. /\ budget' \in Budgets /\ (budget.edits = 0 => budget'.edits = 0)
      /\ budget.probes = 0 => budget'.probes = 0
    BY SpendType DEF Drop
<1>2. /\ has' \in [Sentinels -> SUBSET Names] /\ \A r \in Sentinels : has'[r] \subseteq has[r]
      /\ UNCHANGED <<name, sts, pod, at, down, marks, op>>
    BY DEF Drop
<1> QED BY <1>1, <1>2 DEF Beside

LEMMA SentinelStep ==
    ASSUME NamesType, NEW n \in Names, Flag(n) \/ Failover(n) PROVE NamesType' /\ Beside
<1> USE DEF NamesType
<1>1. CASE Flag(n)
  <2>1. /\ down' \in [Names -> BOOLEAN] /\ UNCHANGED <<name, sts, pod, has, at, marks, op, budget>>
    BY <1>1 DEF Flag
  <2> QED BY <2>1, PodStep
<1>2. CASE Failover(n)
  <2>1. PICK p \in Pods :
          /\ pod' = [q \in Pods |-> CASE q = p -> [pod[p] EXCEPT !.of = None]
                                      [] q # p /\ Up(q) /\ at[n] \in {q, pod[q].of} -> [pod[q] EXCEPT !.of = p]
                                      [] OTHER -> pod[q]]
          /\ at' = [at EXCEPT ![n] = p] /\ down' = [down EXCEPT ![n] = FALSE]
    BY Zenon, <1>2 DEF Failover
  <2>2. \A q \in Pods : /\ pod'[q] \in PodState
                        /\ pod'[q].st = pod[q].st /\ pod'[q].tpl = pod[q].tpl
    <3> SUFFICES ASSUME NEW q \in Pods
                 PROVE  /\ pod'[q] \in PodState
                        /\ pod'[q].st = pod[q].st /\ pod'[q].tpl = pod[q].tpl
      OBVIOUS
    <3>1. \/ pod'[q] = [pod[q] EXCEPT !.of = None]
          \/ pod'[q] = [pod[q] EXCEPT !.of = p]
          \/ pod'[q] = pod[q]
      BY <2>1
    <3>2. None \in Addresses /\ p \in Addresses /\ pod[q] \in PodState
      BY AddressFacts
    <3>3. \A x \in Addresses :
            /\ [pod[q] EXCEPT !.of = x] \in PodState
            /\ [pod[q] EXCEPT !.of = x].st = pod[q].st /\ [pod[q] EXCEPT !.of = x].tpl = pod[q].tpl
      BY <3>2, Following
    <3>4. CASE pod'[q] = [pod[q] EXCEPT !.of = None]
      BY <3>2, <3>3, <3>4
    <3>5. CASE pod'[q] = [pod[q] EXCEPT !.of = p]
      BY <3>2, <3>3, <3>5
    <3> QED BY <3>1, <3>2, <3>4, <3>5
  <2>3. pod' \in [Pods -> PodState]
    BY Zenon, <2>1, <2>2
  <2>4. at' \in [Names -> Addresses] /\ down' \in [Names -> BOOLEAN]
    BY <2>1, AddressFacts
  <2>5. UNCHANGED <<name, sts, has, marks, op, budget>>
    BY <1>2 DEF Failover
  <2> QED BY <2>2, <2>3, <2>4, <2>5, PodStep
<1> QED BY <1>1, <1>2

LEMMA CaptureStep == NamesType /\ Capture => NamesType' /\ Beside
<1> SUFFICES ASSUME NamesType, Capture PROVE NamesType' /\ Beside
    OBVIOUS
<1> USE DEF NamesType
<1>1. /\ budget' \in Budgets /\ (budget.edits = 0 => budget'.edits = 0)
      /\ budget.probes = 0 => budget'.probes = 0
    BY SpendType DEF Capture
<1>2. /\ at' \in [Names -> Addresses] /\ down' \in [Names -> BOOLEAN]
      /\ UNCHANGED <<name, sts, pod, has, marks, op>>
    BY AddressFacts DEF Capture
<1> QED BY <1>1, <1>2 DEF Beside

LEMMA BesideStep ==
    ASSUME NamesType, Next, ~Operator PROVE NamesType' /\ Beside
<1>1. CASE Kubernetes
    BY <1>1, StatusStep, StopStep, KillStep, OnePodStep DEF Kubernetes
<1>2. CASE Sentinel
    BY <1>2, SentinelStep, OnePodStep DEF Sentinel
<1>3. CASE Fault
    BY <1>3, OnePodStep, DropStep, CaptureStep DEF Fault
<1>4. CASE \E p \in Pods : Write(p)
    BY <1>4, OnePodStep
<1> QED BY <1>1, <1>2, <1>3, <1>4, CoolStep, EditStep DEF Next

----------------------------------------------------------------------------
(* The roll.                                                               *)

\* The variables have their types, and NamesInv is inductive.
LEMMA InitInv == Init => NamesInv
<1> SUFFICES ASSUME Init PROVE NamesInv
    OBVIOUS
<1>1. op.pc = "idle"
    BY Zenon DEF Init, Idle
<1>2. Carries(sts.tpl)
  <2>1. \A p \in Pods : pod[p].tpl = "old"
    BY Zenon DEF Init, Blank
  <2> QED BY Zenon, <2>1 DEF Init, Carries
<1> QED BY <1>1, <1>2, InitType DEF NamesInv, RollInv, SizeInv

LEMMA NextInv == NamesInv /\ [Next]_vars => NamesInv'
<1> SUFFICES ASSUME NamesInv, [Next]_vars PROVE NamesInv'
    OBVIOUS
<1> USE DEF NamesInv
<1>1. CASE Begin
  <2> DEFINE new == [sts EXCEPT !.tpl = name, !.size = sentinelDesiredReplicas]
  <2>1. /\ sts' = IF new = sts THEN sts ELSE [new EXCEPT !.observed = FALSE]
        /\ op'.name = name /\ op'.rolling = (new # sts \/ ~statefulSetRolloutSettled)
        /\ UNCHANGED <<pod, marks, budget>>
    BY <1>1 DEF Begin, Idle, redis
  <2>2. sts \in Template
    BY DEF NamesType
  <2>3. new \in [tpl : {name}, size : {sentinelDesiredReplicas}, observed : BOOLEAN, settled : BOOLEAN]
    BY Zenon, <2>2 DEF Template
  <2>4. new.tpl = name /\ new.size = sentinelDesiredReplicas
    BY <2>3
  <2>5. sts'.tpl = name /\ sts'.size = sentinelDesiredReplicas /\ (sts'.observed => new = sts)
    <3> HIDE DEF new
    <3>1. CASE new = sts
      BY <2>1, <2>4, <3>1
    <3>2. CASE new # sts
      BY <2>1, <2>3, <2>4, <3>2
    <3> QED BY <3>1, <3>2
  <2> HIDE DEF new
  <2>6. (sts.observed /\ sts.settled => Carries(sts.tpl))'
    <3> SUFFICES ASSUME sts'.observed, sts'.settled PROVE Carries(sts.tpl)'
      OBVIOUS
    <3>1. sts' = sts
      BY <2>1, <2>5
    <3> QED BY <2>1, <3>1 DEF RollInv, Carries
  <2>7. (~op.rolling => Carries(op.name))'
    <3> SUFFICES ASSUME ~op'.rolling PROVE Carries(op.name)'
      OBVIOUS
    <3>1. new = sts /\ sts.observed /\ sts.settled
      BY Zenon, <2>1 DEF statefulSetRolloutSettled
    <3>2. sts.tpl = name
      BY <2>4, <3>1
    <3> QED BY <2>1, <3>1, <3>2 DEF RollInv, Carries
  <2>8. SizeInv'
    BY <2>1, <2>5 DEF SizeInv, sentinelDesiredReplicas, Holds
  <2> QED BY <1>1, <2>1, <2>5, <2>6, <2>7, <2>8, BeginType DEF RollInv
<1>2. CASE Gather
  <2>1. UNCHANGED <<name, sts, pod, has, at, down>>
    BY Zenon, <1>2 DEF Gather, redis
  <2>2. /\ marks' \in Marks /\ budget' \in Budgets /\ op' \in Passes
        /\ \/ op'.pc = "idle"
           \/ op'.pc = "rule0" /\ op'.name = op.name /\ op'.rolling = op.rolling
    BY <1>2, GatherStep
  <2>3. op.pc = "gather"
    BY Zenon, <1>2 DEF Gather
  <2>4. NamesType'
    BY <2>1, <2>2, <2>3 DEF NamesType
  <2>5. RollInv'
    BY <2>1, <2>2, <2>3 DEF RollInv, Carries
  <2> QED BY <2>2, <2>4, <2>5 DEF SizeInv
<1>3. CASE Rule0 \/ Prune
  <2>1. UNCHANGED <<sts, pod>> /\ NamesType'
    BY Zenon, <1>3, Rule0Type, PruneType DEF Rule0, Prune
  <2>2. /\ op.pc # "idle" /\ op'.pc = "prune"
        /\ op'.name = op.name /\ op'.rolling = op.rolling
    BY <1>3 DEF Rule0, Prune, NamesType, Passes
  <2> QED BY <2>1, <2>2 DEF RollInv, SizeInv, Carries
<1>4. CASE End
  <2>1. /\ NamesType' /\ op'.pc = "idle" /\ UNCHANGED sts
        /\ \A p \in Pods : pod'[p].st = pod[p].st /\ pod'[p].tpl = pod[p].tpl
    BY <1>4, EndStep, IdleType DEF End
  <2> QED BY <2>1 DEF RollInv, SizeInv, Carries
<1>5. CASE Next /\ ~Operator
  <2>1. NamesType' /\ Beside
    BY <1>5, BesideStep
  <2>2. ASSUME NEW n, sts.tpl = n, Carries(n) PROVE Carries(n)'
    BY <2>1, <2>2 DEF Beside, Carries
  <2>3. RollInv'
    BY <2>1, <2>2 DEF RollInv, Beside, Carries
  <2>4. SizeInv'
    BY <2>1 DEF SizeInv, Beside
  <2> QED BY <2>1, <2>3, <2>4
<1>6. CASE UNCHANGED vars
    BY <1>6 DEF vars, NamesType, RollInv, SizeInv, Carries
<1> QED BY <1>1, <1>2, <1>3, <1>4, <1>5, <1>6 DEF Operator

\* NamesInv holds in every reachable state.
THEOREM NamesInvariant == Spec => []NamesInv
<1>1. Init => NamesInv
    BY InitInv
<1>2. NamesInv /\ [Next]_vars => NamesInv'
    BY NextInv
<1> QED BY <1>1, <1>2, PTL DEF Spec

----------------------------------------------------------------------------
(* The acknowledgement.                                                    *)

\* Only the end of a pass acknowledges.
LEMMA OnlyEndAcknowledges ==
    ASSUME NamesType, [Next]_vars, marks'.ack # marks.ack
    PROVE  End /\ Acknowledges /\ op.pc # "idle" /\ marks'.ack = op.name
<1>1. ~Begin /\ ~Rule0 /\ ~Prune
    BY DEF Begin, Rule0, Prune
<1>2. ~Gather
    BY GatherStep
<1>3. Operator
    BY BesideStep DEF Beside, vars
<1> QED BY <1>1, <1>2, <1>3, EndStep DEF Operator, End

\* The acknowledged name is the one in the template of every pod.
RolledOut == marks'.ack # marks.ack => Carries(marks'.ack)

LEMMA AcknowledgesRolledOut == NamesInv /\ [Next]_vars => RolledOut
<1> SUFFICES ASSUME NamesInv, [Next]_vars, marks'.ack # marks.ack PROVE Carries(marks'.ack)
    BY DEF RolledOut
<1>1. Acknowledges /\ op.pc # "idle" /\ marks'.ack = op.name
    BY OnlyEndAcknowledges DEF NamesInv
<1> QED BY <1>1 DEF NamesInv, RollInv, Acknowledges

\* A rename is acknowledged only when every pod there is has been started from
\* the renamed template, whatever fails meanwhile and however late the status
\* of the StatefulSet is (planOperation, statefulSetRolloutSettled).
THEOREM AcknowledgedAfterRoll == Spec => [][RolledOut]_vars
<1>1. NamesInv /\ [Next]_vars => RolledOut
    BY AcknowledgesRolledOut
<1> QED BY <1>1, NamesInvariant, PTL DEF Spec

LEMMA DoneInit ==
    ASSUME \A b \in Scenarios : b.probes = 0 \/ b.edits = 0 PROVE Init => DoneInv
<1> SUFFICES ASSUME Init PROVE DoneInv
    OBVIOUS
<1>1. budget.probes = 0 \/ budget.edits = 0
    BY Zenon DEF Init
<1>2. op.pc = "idle" /\ op.name = None /\ name = "old" /\ marks.ack = "old"
    BY Zenon DEF Init, Idle
<1> QED BY <1>1, <1>2 DEF DoneInv

LEMMA DoneStep == NamesInv /\ DoneInv /\ [Next]_vars => DoneInv'
<1> SUFFICES ASSUME NamesInv, DoneInv, [Next]_vars PROVE DoneInv'
    OBVIOUS
<1> DEFINE Fixed == budget.edits = 0 /\ name = "old" /\ marks.ack = "old" /\ op.name \in {"old", None}
           Seen  == op.pc \in {"rule0", "prune"} /\ op.done => \A s \in Sentinels : has[s] \subseteq {op.name}
<1>1. NamesType
    BY DEF NamesInv
<1>2. CASE Begin
  <2>1. op'.pc = "gather" /\ op'.name = name /\ UNCHANGED <<name, marks, budget>>
    BY <1>2 DEF Begin, Idle
  <2> QED BY <2>1 DEF DoneInv
<1>3. CASE Gather
  <2>1. UNCHANGED <<name, has, sts>> /\ op.pc = "gather"
    BY Zenon, <1>3 DEF Gather, redis
  <2>2. Fixed => Fixed'
    BY <1>1, <1>3, <2>1, GatherStep
  <2>3. CASE budget.probes = 0
    <3>1. marks.quarantine = "clear" => sts.size # 0
      <4>1. Cardinality(Pods) # 0
        BY FS_EmptySet, NamesConstants
      <4> QED BY <2>1, <4>1 DEF NamesInv, SizeInv
    <3>2. budget'.probes = 0
      BY <1>1, <1>3, <2>3, GatherStep
    <3>3. Seen'
      <4> SUFFICES ASSUME op'.pc \in {"rule0", "prune"}, op'.done
                   PROVE  \A s \in Sentinels : has[s] \subseteq {op'.name}
        BY <2>1
      <4>1. op'.pc = "rule0" /\ op'.name = op.name
        BY <1>1, <1>3, GatherStep
      <4>2. \A s \in Sentinels : has[s] \subseteq {op.name}
        BY <1>1, <1>3, <2>3, <3>1, <4>1, GatherStep
      <4> QED BY <4>1, <4>2
    <3> QED BY <3>2, <3>3 DEF DoneInv
  <2> QED BY <2>2, <2>3 DEF DoneInv
<1>4. CASE Rule0 \/ Prune
  <2>1. /\ op.pc \in {"rule0", "prune"} /\ op'.name = op.name /\ op'.done = op.done
        /\ UNCHANGED <<name, marks>>
    BY <1>1, <1>4 DEF Rule0, Prune, NamesType, Passes
  <2>2. /\ budget.edits = 0 => budget'.edits = 0
        /\ budget.probes = 0 => budget'.probes = 0
        /\ \A s \in Sentinels : has'[s] \subseteq has[s] \cup {op.name}
    BY <1>1, <1>4, Rule0Type, PruneType
  <2> QED BY <2>1, <2>2 DEF DoneInv
<1>5. CASE End
  <2>1. op'.pc = "idle" /\ op'.name = None /\ UNCHANGED <<name, budget>>
    BY <1>1, <1>5, EndStep, IdleType DEF End
  <2>2. marks'.ack \in {marks.ack, op.name} /\ op.name \in Names
    BY <1>1, <1>5, EndStep DEF End, NamesType
  <2> QED BY <2>1, <2>2 DEF DoneInv
<1>6. CASE Next /\ ~Operator
  <2>1. Beside
    BY <1>1, <1>6, BesideStep
  <2> QED BY <2>1 DEF DoneInv, Beside
<1>7. CASE UNCHANGED vars
    BY <1>7 DEF vars, DoneInv
<1> QED BY <1>2, <1>3, <1>4, <1>5, <1>6, <1>7 DEF Operator

\* The action AcknowledgedIsDone speaks of.
IsDone == marks'.ack # marks.ack =>
             /\ \A p \in Pods : pod[p].st # "gone" => pod[p].tpl = marks'.ack
             /\ \A s \in Sentinels : has[s] \subseteq {marks'.ack}

LEMMA AcknowledgesDone == NamesInv /\ DoneInv /\ [Next]_vars => IsDone
<1> SUFFICES ASSUME NamesInv, DoneInv, [Next]_vars, marks'.ack # marks.ack PROVE IsDone
    BY DEF IsDone
<1>1. End /\ Acknowledges /\ marks'.ack = op.name /\ op.pc # "idle"
    BY OnlyEndAcknowledges DEF NamesInv
<1>2. op.pc = "prune" /\ op.done /\ op.name \in Names
    BY <1>1 DEF End, Acknowledges, NamesInv, NamesType
<1>3. \A s \in Sentinels : has[s] \subseteq {op.name}
    BY <1>1, <1>2 DEF DoneInv
<1>4. Carries(marks'.ack)
    BY AcknowledgesRolledOut DEF RolledOut
<1> QED BY <1>1, <1>3, <1>4 DEF IsDone, Carries

\* Where no probe is lost while a rename is under way, it is acknowledged only
\* after the roll and once no Sentinel monitors another name, for any number
\* of pods and any other faults (planOperation, Rule N).  A Sentinel whose
\* probe is lost may keep the old name: the driver counts those that answer.
THEOREM AcknowledgedIsDoneAlways ==
    ASSUME \A b \in Scenarios : b.probes = 0 \/ b.edits = 0
    PROVE  Spec => AcknowledgedIsDone
<1>1. Init => DoneInv
    BY DoneInit
<1>2. NamesInv /\ DoneInv /\ [Next]_vars => DoneInv' /\ IsDone
    BY DoneStep, AcknowledgesDone
<1>3. [][IsDone]_vars => AcknowledgedIsDone
    BY DEF IsDone, AcknowledgedIsDone
<1> QED BY <1>1, <1>2, <1>3, NamesInvariant, PTL DEF Spec

----------------------------------------------------------------------------
(* The quarantine, where no pod and no Sentinel is replaced beside it: any *)
(* number of captures, writes, lost probes and failing commands.           *)

\* Nothing is renamed, no pod terminates, a pod that is not up holds nothing.
Undisturbed ==
    /\ budget.edits = 0 /\ budget.evictions = 0 /\ budget.sentinels = 0
    /\ name = "old" /\ sts.tpl = "old" /\ op.name \in {"old", None}
    /\ \A p \in Pods : pod[p].tpl = "old" /\ ~pod[p].leaving /\ (~Up(p) => pod[p].data = "none")
    /\ \A s \in Sentinels : has[s] \subseteq {"old"}

Unmonitored == \A s \in Sentinels : has[s] = {}
Vacant == Unmonitored /\ \A p \in Pods : ~Up(p)

\* A quarantine that is due, or released, has emptied the instance.  A pass
\* heals only outside of it, and finds no master where the instance is down
\* or captured.
HealsOutside ==
    /\ marks.quarantine = "due" \/ (marks.quarantine = "clear" /\ sts.size = 0) => Vacant
    /\ op.pc \in {"rule0", "prune"} =>
          /\ marks.quarantine = "clear" /\ op.master \in Pods \cup {None}
          /\ sts.size = 0 \/ marks.forsaken # "clear" => op.master = None
          /\ op.pc = "rule0" /\ op.master = None => op.bare = {}
    /\ op.live \subseteq Pods \cup Ghosts

\* A dead address is monitored only while the quarantine takes the pods down,
\* and a marker of a capture outside of it means that the captor still is.
CaptorStands ==
    /\ Unmonitored => at["old"] = None
    /\ at["old"] \in Ghosts => sts.size = 0 /\ marks.quarantine # "clear"
    /\ marks.forsaken # "clear" /\ marks.quarantine = "clear" => at["old"] = Captor

\* A pod the pass did not list has started under the captor.
LateJoins ==
    op.pc = "gather" /\ marks.quarantine = "clear" /\ marks.forsaken # "clear" =>
        \A p \in Pods \ op.live : Up(p) => pod[p].of = Captor /\ pod[p].data # "own"

QuietInv == Undisturbed /\ HealsOutside /\ CaptorStands /\ LateJoins

\* No pod is evicted, no Sentinel loses its state and the name stays.
NoReplacement == \A b \in Scenarios : b.edits = 0 /\ b.evictions = 0 /\ b.sentinels = 0

LEMMA AddressesApart ==
    /\ None \notin Pods /\ None \notin Ghosts /\ Captor \notin Pods /\ Captor \notin Ghosts
    /\ Pods \cap Ghosts = {} /\ None # Captor /\ Cardinality(Pods) # 0
<1>1. Cardinality(Pods) # 0
    BY FS_EmptySet, NamesConstants
<1> QED BY <1>1, NamesConstants, AddressesDiffer DEF Ghosts

\* What is left of the budget stays at zero.
LEMMA NothingToSpend ==
    ASSUME budget \in Budgets, NEW z \in {"edits", "evictions", "sentinels"}, budget[z] = 0,
           \/ UNCHANGED budget
           \/ \E w \in {"edits", "writes", "evictions", "sentinels", "captures", "probes", "errors"} : Spend(w)
    PROVE  budget'[z] = 0 /\ ~Spend(z)
BY DEF Spend, Budgets

LEMMA GhostsFixed == Ghosts' = Ghosts
BY DEF Ghosts

LEMMA QuietInit == NoReplacement /\ Init => QuietInv
<1> SUFFICES ASSUME NoReplacement, Init PROVE QuietInv
    OBVIOUS
<1>1. \A p \in Pods : pod[p].tpl = "old" /\ ~pod[p].leaving /\ Up(p)
    BY Zenon DEF Init, Blank, Up
<1>2. Undisturbed
    BY Zenon, <1>1 DEF Init, NoReplacement, Undisturbed, Idle
<1>3. marks.quarantine = "clear" /\ marks.forsaken = "clear" /\ op.pc = "idle" /\ op.live = {}
      /\ sts.size = Cardinality(Pods) /\ at["old"] \in Pods /\ \A s \in Sentinels : has[s] # {}
    BY Zenon, NamesConstants DEF Init, Idle
<1>4. ~Unmonitored
  <2>1. Sentinels # {}
    BY FS_EmptySet, NamesConstants
  <2> QED BY <1>3, <2>1 DEF Unmonitored
<1> QED BY <1>2, <1>3, <1>4, AddressesApart DEF QuietInv, HealsOutside, CaptorStands, LateJoins

LEMMA QuietBegin ==
    ASSUME NamesInv, QuietInv, Begin PROVE QuietInv'
<1> USE DEF QuietInv
<1>1. /\ op'.pc = "gather" /\ op'.name = name
      /\ op'.live = {p \in Pods : pod[p].st # "gone" /\ ~pod[p].leaving}
      /\ UNCHANGED <<name, pod, has, at, down, marks, budget>>
    BY DEF Begin, Idle, redis
<1>2. sts'.tpl = name /\ sts'.size = sentinelDesiredReplicas
  <2> DEFINE new == [sts EXCEPT !.tpl = name, !.size = sentinelDesiredReplicas]
  <2>1. new \in [tpl : {name}, size : {sentinelDesiredReplicas}, observed : BOOLEAN, settled : BOOLEAN]
    BY Zenon DEF NamesInv, NamesType, Template
  <2>2. sts' = IF new = sts THEN sts ELSE [new EXCEPT !.observed = FALSE]
    BY DEF Begin
  <2> HIDE DEF new
  <2> QED BY <2>1, <2>2
<1>3. /\ marks.quarantine = "clear" => sts'.size # 0
      /\ marks.quarantine = "cooling" => sts'.size = 0
      /\ marks.quarantine \in {"clear", "cooling", "due"}
    BY <1>2, AddressesApart DEF sentinelDesiredReplicas, Holds, NamesInv, NamesType, Marks
<1>4. Undisturbed'
    BY <1>1, <1>2 DEF Undisturbed, Up
<1>5. Vacant' = Vacant /\ Unmonitored' = Unmonitored
    BY <1>1 DEF Vacant, Unmonitored, Up
<1>6. HealsOutside'
    BY <1>1, <1>3, <1>5 DEF HealsOutside
<1>7. CaptorStands'
    BY <1>1, <1>3, <1>5, AddressesApart DEF CaptorStands, HealsOutside, Vacant
<1>8. LateJoins'
    BY <1>1 DEF LateJoins, Undisturbed, Up
<1> QED BY <1>4, <1>6, <1>7, <1>8

\* The signature of a capture, seen outside the quarantine, is the captor's.
LEMMA SignatureIsCaptor ==
    ASSUME NamesInv, QuietInv, marks.quarantine \in {"clear", "due"},
           NEW R \in SUBSET Pods, NEW S \in SUBSET Sentinels, forsakenSignature(R, S)
    PROVE  marks.quarantine = "clear" /\ at["old"] = Captor /\ \A p \in R : pod[p].of # None
<1>1. PICK s \in S : has[s] # {}
  <2>1. Cardinality({s \in S : has[s] # {}}) >= 2
    BY DEF forsakenSignature
  <2>2. {s \in S : has[s] # {}} = {} => Cardinality({s \in S : has[s] # {}}) = 0
    BY FS_EmptySet
  <2>3. {s \in S : has[s] # {}} # {}
    BY <2>1, <2>2
  <2> QED BY <2>3
<1>2. "old" \in Observed(S)
    BY <1>1 DEF Observed, QuietInv, Undisturbed
<1>3. at["old"] \in Ghosts \cup {Captor} /\ \A p \in R : pod[p].of # None
    BY <1>2 DEF forsakenSignature
<1>4. marks.quarantine = "clear"
    BY <1>1 DEF QuietInv, HealsOutside, Vacant, Unmonitored
<1> QED BY <1>3, <1>4 DEF QuietInv, CaptorStands

\* The master a healing pass works with.
LEMMA QuietMaster ==
    ASSUME NamesInv, QuietInv, op.pc = "gather", marks.quarantine \in {"clear", "due"},
           NEW R \in SUBSET {p \in Pods : Up(p)}, NEW S \in SUBSET Sentinels,
           sts.size = 0 => S = {}, NEW m \in DetermineRealMaster(R, S)
    PROVE  /\ m \in Pods \cup {None}
           /\ sts.size = 0 \/ forsakenSignature(R, S) => m = None
<1>1. op.name = "old"
    BY DEF NamesInv, NamesType, QuietInv, Undisturbed
<1> DEFINE major == 2 * Cardinality(Monitors(op.name) \cap S) > Cardinality(S)
           claim == {p \in R : pod[p].of = None}
<1>2. sts.size = 0 => ~major /\ claim = {}
  <2> SUFFICES ASSUME sts.size = 0 PROVE ~major /\ claim = {}
    OBVIOUS
  <2>1. Vacant
    BY DEF QuietInv, HealsOutside
  <2>2. R = {}
    BY <2>1 DEF Vacant
  <2>3. Monitors(op.name) \cap S = {} /\ S = {}
    OBVIOUS
  <2>4. Cardinality(Monitors(op.name) \cap S) = 0 /\ Cardinality(S) = 0
    BY <2>3, FS_EmptySet
  <2> QED BY <2>2, <2>4
<1>3. forsakenSignature(R, S) => at["old"] \notin op.live /\ claim = {}
  <2> SUFFICES ASSUME forsakenSignature(R, S) PROVE at["old"] \notin op.live /\ claim = {}
    OBVIOUS
  <2>1. at["old"] = Captor /\ claim = {}
    BY SignatureIsCaptor
  <2> QED BY <2>1, AddressesApart DEF QuietInv, HealsOutside
<1>4. major => sts.size # 0
    BY <1>2
<1>5. major /\ at["old"] \in op.live => at["old"] \in Pods
  <2>1. marks.quarantine = "due" => at["old"] = None
    BY DEF QuietInv, HealsOutside, Vacant, CaptorStands
  <2> QED BY <1>4, <2>1, AddressesApart DEF QuietInv, HealsOutside, CaptorStands
<1>6. CASE major /\ at[op.name] \in op.live
  <2>1. m = at["old"]
    BY <1>1, <1>6 DEF DetermineRealMaster
  <2> QED BY <1>1, <1>2, <1>3, <1>5, <1>6, <2>1
<1>7. CASE ~(major /\ at[op.name] \in op.live) /\ ~major /\ claim # {}
  <2>1. m \in claim
    BY <1>7 DEF DetermineRealMaster
  <2> QED BY <1>2, <1>3, <1>7, <2>1
<1>8. CASE ~(major /\ at[op.name] \in op.live) /\ ~(~major /\ claim # {})
  <2>1. m = None
    BY <1>8 DEF DetermineRealMaster
  <2> QED BY <2>1
<1> QED BY <1>6, <1>7, <1>8

LEMMA QuietGather ==
    ASSUME NamesInv, QuietInv, Gather PROVE QuietInv'
<1>1. PICK lost \in {{}} \cup {{x} : x \in Pods \cup Sentinels} :
       LET R == {p \in op.live \cap Pods : Up(p)} \ lost
           S == IF sts.size = 0 THEN {} ELSE Sentinels \ lost
       IN  /\ IF lost = {} THEN UNCHANGED budget ELSE Spend("probes")
           /\ \/ /\ Holds(marks.quarantine) \/ Arms(R, S)
                 /\ Stop(Since(marks.forsaken), Since(marks.quarantine),
                         IF marks.quarantine = "clear" THEN marks.attempts + 1 ELSE marks.attempts)
                 /\ op' = Idle
              \/ /\ Stop(marks.forsaken, marks.quarantine, marks.attempts)
                 /\ op' = Idle
              \/ /\ ~Holds(marks.quarantine)
                 /\ IF Captured(R, S) THEN Marked("cooling", marks.quarantine, marks.attempts)
                    ELSE Marked("clear",
                                IF Releases(marks.quarantine) \/ (marks.running /\ marks.attempts # 0)
                                THEN "clear" ELSE marks.quarantine,
                                IF marks.running THEN 0 ELSE marks.attempts)
                 /\ \E m \in DetermineRealMaster(R, S) :
                       LET plan == planStaleMasterNames(R, S, m)
                       IN  op' = [op EXCEPT !.pc = "rule0", !.master = m,
                                     !.done = plan.done /\ marks.quarantine = "clear",
                                     !.prune = plan.prune,
                                     !.bare = IF m = None THEN {} ELSE S \ Monitors(op.name)]
    BY Zenon DEF Gather
<1> DEFINE R == {p \in op.live \cap Pods : Up(p)} \ lost
           S == IF sts.size = 0 THEN {} ELSE Sentinels \ lost
<1>2. /\ op.pc = "gather" /\ UNCHANGED <<name, sts, pod, has, at>>
      /\ marks \in Marks /\ marks.quarantine \in {"clear", "cooling", "due"}
    BY Zenon DEF Gather, redis, NamesInv, NamesType, Marks
<1>3. UNCHANGED budget \/ Spend("probes")
    BY Zenon, <1>1
<1>4. budget'.edits = 0 /\ budget'.evictions = 0 /\ budget'.sentinels = 0
    BY <1>3, NothingToSpend DEF QuietInv, Undisturbed, NamesInv, NamesType
<1>5. Vacant' = Vacant /\ Unmonitored' = Unmonitored
    BY <1>2 DEF Vacant, Unmonitored, Up
<1>6. op'.name \in {"old", None} => Undisturbed'
    BY <1>2, <1>4 DEF QuietInv, Undisturbed, Up
<1>7. ASSUME op' = Idle,
             marks'.quarantine # "clear" \/ (marks'.forsaken = marks.forsaken /\ marks.quarantine = "clear"),
             marks'.quarantine # marks.quarantine => marks.quarantine = "clear" /\ marks'.quarantine = "cooling"
      PROVE  QuietInv'
  <2>1. op'.pc = "idle" /\ op'.name = None /\ op'.live = {}
    BY <1>7 DEF Idle
  <2>2. Undisturbed'
    BY <1>6, <2>1
  <2>3. HealsOutside'
    BY <1>2, <1>5, <1>7, <2>1 DEF QuietInv, HealsOutside
  <2>4. CaptorStands'
    BY <1>2, <1>5, <1>7, GhostsFixed DEF QuietInv, CaptorStands
  <2> QED BY <2>1, <2>2, <2>3, <2>4 DEF QuietInv, LateJoins
<1>8. CASE /\ Holds(marks.quarantine) \/ Arms(R, S)
           /\ Stop(Since(marks.forsaken), Since(marks.quarantine),
                   IF marks.quarantine = "clear" THEN marks.attempts + 1 ELSE marks.attempts)
           /\ op' = Idle
  <2>1. marks'.quarantine = Since(marks.quarantine)
    BY <1>2, <1>8 DEF Stop, Marks
  <2> QED BY <1>2, <1>7, <1>8, <2>1 DEF Since
<1>9. CASE Stop(marks.forsaken, marks.quarantine, marks.attempts) /\ op' = Idle
  <2>1. marks'.quarantine = marks.quarantine /\ marks'.forsaken = marks.forsaken
    BY <1>2, <1>9 DEF Stop, Marks
  <2> QED BY <1>2, <1>7, <1>9, <2>1
<1>10. CASE /\ ~Holds(marks.quarantine)
            /\ IF Captured(R, S) THEN Marked("cooling", marks.quarantine, marks.attempts)
               ELSE Marked("clear",
                           IF Releases(marks.quarantine) \/ (marks.running /\ marks.attempts # 0)
                           THEN "clear" ELSE marks.quarantine,
                           IF marks.running THEN 0 ELSE marks.attempts)
            /\ \E m \in DetermineRealMaster(R, S) :
                  LET plan == planStaleMasterNames(R, S, m)
                  IN  op' = [op EXCEPT !.pc = "rule0", !.master = m,
                                !.done = plan.done /\ marks.quarantine = "clear",
                                !.prune = plan.prune,
                                !.bare = IF m = None THEN {} ELSE S \ Monitors(op.name)]
  <2>1. /\ R \in SUBSET {p \in Pods : Up(p)} /\ S \in SUBSET Sentinels
        /\ R \in SUBSET Pods /\ (sts.size = 0 => S = {})
    OBVIOUS
  <2>2. marks.quarantine \in {"clear", "due"} /\ (marks.quarantine = "due" => Releases(marks.quarantine))
    <3>1. marks.attempts \in Nat /\ Limit \in Nat
      BY <1>2 DEF Marks, Limit
    <3> QED BY <1>2, <1>10, <3>1 DEF Holds, Releases
  <2> HIDE DEF R, S
  <2>3. Captured(R, S) => marks.quarantine = "clear" /\ at["old"] = Captor
    BY <2>1, <2>2, SignatureIsCaptor DEF Captured
  <2>4. marks'.quarantine = "clear" /\ (marks'.forsaken # "clear" => Captured(R, S))
    BY Zenon, <1>2, <1>10, <2>2, <2>3 DEF Marked, Marks
  <2>5. PICK m \in DetermineRealMaster(R, S) :
            op' = [op EXCEPT !.pc = "rule0", !.master = m,
                       !.done = planStaleMasterNames(R, S, m).done /\ marks.quarantine = "clear",
                       !.prune = planStaleMasterNames(R, S, m).prune,
                       !.bare = IF m = None THEN {} ELSE S \ Monitors(op.name)]
    BY Zenon, <1>10
  <2>6. m \in Pods \cup {None} /\ (sts.size = 0 \/ forsakenSignature(R, S) => m = None)
    BY <1>2, <2>1, <2>2, QuietMaster
  <2>7. /\ op'.pc = "rule0" /\ op'.master = m /\ (m = None => op'.bare = {})
        /\ op'.live = op.live /\ op'.name = op.name
    BY <2>5 DEF NamesInv, NamesType, Passes
  <2>8. Undisturbed'
    BY <1>6, <2>7 DEF QuietInv, Undisturbed
  <2>9. HealsOutside'
    <3>1. marks'.forsaken # "clear" => m = None
      BY <2>4, <2>6 DEF Captured
    <3>2. sts.size = 0 => Vacant
      BY <2>2 DEF QuietInv, HealsOutside
    <3>3. op'.live \subseteq Pods \cup Ghosts
      BY <2>7 DEF QuietInv, HealsOutside
    <3> QED BY <1>2, <1>5, <2>4, <2>6, <2>7, <3>1, <3>2, <3>3, GhostsFixed DEF HealsOutside
  <2>10. CaptorStands'
    <3>1. at["old"] \notin Ghosts
      BY Zenon, <2>2, AddressesApart DEF QuietInv, HealsOutside, Vacant, CaptorStands
    <3> QED BY Zenon, <1>2, <1>5, <2>3, <2>4, <3>1, GhostsFixed DEF QuietInv, CaptorStands
  <2> QED BY <2>7, <2>8, <2>9, <2>10 DEF QuietInv, LateJoins
<1> QED BY Zenon, <1>1, <1>8, <1>9, <1>10

LEMMA QuietRule0 ==
    ASSUME NamesInv, QuietInv, Rule0 PROVE QuietInv'
<1>1. PICK ok \in SUBSET op.bare :
        /\ UNCHANGED budget \/ Spend("errors")
        /\ has' = [s \in Sentinels |-> IF s \in ok THEN has[s] \cup {op.name} ELSE has[s]]
        /\ at'   = IF ok = {} THEN at ELSE [at EXCEPT ![op.name] = op.master]
    BY DEF Rule0
<1>2. /\ op.pc = "rule0" /\ op.name = "old" /\ op.bare \in SUBSET Sentinels
      /\ op'.pc = "prune" /\ op'.name = op.name /\ op'.live = op.live /\ op'.master = op.master
      /\ UNCHANGED <<name, sts, pod, marks>>
    BY DEF Rule0, QuietInv, Undisturbed, NamesInv, NamesType, Passes
<1>3. budget'.edits = 0 /\ budget'.evictions = 0 /\ budget'.sentinels = 0
    BY <1>1, NothingToSpend DEF QuietInv, Undisturbed, NamesInv, NamesType
<1>4. \A s \in Sentinels : has'[s] \subseteq {"old"} /\ has[s] \subseteq has'[s]
                           /\ (s \in ok => has'[s] # {})
    BY <1>1, <1>2 DEF QuietInv, Undisturbed
<1>5. Undisturbed'
    BY Zenon, <1>2, <1>3, <1>4 DEF QuietInv, Undisturbed, Up
<1>6. CASE ok = {}
  <2>1. UNCHANGED <<has, at>>
    BY <1>1, <1>6 DEF NamesInv, NamesType
  <2>2. Vacant' = Vacant /\ Unmonitored' = Unmonitored
    BY <1>2, <2>1 DEF Vacant, Unmonitored, Up
  <2>3. HealsOutside'
    BY <1>2, <2>2, GhostsFixed DEF QuietInv, HealsOutside
  <2>4. CaptorStands'
    BY <1>2, <2>1, <2>2, GhostsFixed DEF QuietInv, CaptorStands
  <2> QED BY Zenon, <1>2, <1>5, <2>3, <2>4 DEF QuietInv, LateJoins
<1>7. CASE ok # {}
  <2>1. op.master \in Pods /\ sts.size # 0 /\ marks.forsaken = "clear" /\ marks.quarantine = "clear"
    BY <1>2, <1>7 DEF QuietInv, HealsOutside
  <2>2. at'["old"] = op.master
    BY <1>1, <1>2, <1>7 DEF NamesInv, NamesType
  <2>3. ~Unmonitored'
    BY <1>2, <1>4, <1>7 DEF Unmonitored
  <2>4. HealsOutside'
    BY <1>2, <2>1, GhostsFixed DEF QuietInv, HealsOutside
  <2>5. CaptorStands'
    BY <1>2, <2>1, <2>2, <2>3, AddressesApart, GhostsFixed DEF CaptorStands
  <2> QED BY <1>2, <1>5, <2>4, <2>5 DEF QuietInv, LateJoins
<1> QED BY <1>6, <1>7

LEMMA QuietPrune ==
    ASSUME NamesInv, QuietInv, Prune PROVE QuietInv'
<1>1. PICK skip \in {{}} \cup {{s} : s \in op.prune} :
        /\ IF skip = {} THEN UNCHANGED budget ELSE Spend("errors")
        /\ has' = [s \in Sentinels |-> IF s \in op.prune \ skip /\ Confirmed(s)
                                      THEN has[s] \cap {op.name} ELSE has[s]]
    BY DEF Prune
<1>2. /\ op.pc = "prune" /\ op.name = "old"
      /\ op'.pc = "prune" /\ op'.name = op.name /\ op'.live = op.live /\ op'.master = op.master
      /\ UNCHANGED <<name, sts, pod, at, marks>>
    BY DEF Prune, QuietInv, Undisturbed, NamesInv, NamesType, Passes
<1>3. budget'.edits = 0 /\ budget'.evictions = 0 /\ budget'.sentinels = 0
    BY <1>1, NothingToSpend DEF QuietInv, Undisturbed, NamesInv, NamesType
<1>4. has' = has
  <2>1. \A s \in Sentinels : has[s] \cap {"old"} = has[s]
    BY DEF QuietInv, Undisturbed
  <2> QED BY <1>1, <1>2, <2>1 DEF NamesInv, NamesType
<1>5. Vacant' = Vacant /\ Unmonitored' = Unmonitored
    BY <1>2, <1>4 DEF Vacant, Unmonitored, Up
<1>6. Undisturbed'
    BY Zenon, <1>2, <1>3, <1>4 DEF QuietInv, Undisturbed, Up
<1>7. HealsOutside'
    BY <1>2, <1>5, GhostsFixed DEF QuietInv, HealsOutside
<1>8. CaptorStands'
    BY <1>2, <1>5, GhostsFixed DEF QuietInv, CaptorStands
<1> QED BY <1>2, <1>6, <1>7, <1>8 DEF QuietInv, LateJoins

\* A change of the address a pod replicates keeps the rest of it.
LEMMA FollowingKeeps ==
    ASSUME NEW r \in PodState, NEW x
    PROVE  /\ [r EXCEPT !.of = x].st = r.st /\ [r EXCEPT !.of = x].tpl = r.tpl
           /\ [r EXCEPT !.of = x].data = r.data /\ [r EXCEPT !.of = x].leaving = r.leaving
           /\ [r EXCEPT !.of = x].of = x
BY DEF PodState

LEMMA QuietEnd ==
    ASSUME NamesInv, QuietInv, End PROVE QuietInv'
<1>1. /\ op.pc = "prune" /\ op.name = "old" /\ op'.pc = "idle" /\ op'.name = None /\ op'.live = {}
      /\ marks'.quarantine = marks.quarantine /\ marks'.forsaken = marks.forsaken
      /\ UNCHANGED <<name, sts, budget>> /\ marks.quarantine = "clear"
    BY DEF End, Idle, QuietInv, Undisturbed, HealsOutside, NamesInv, NamesType, Marks
<1> DEFINE Kept == \A p \in Pods : /\ pod'[p].st = pod[p].st /\ pod'[p].tpl = pod[p].tpl
                                   /\ pod'[p].data = pod[p].data /\ pod'[p].leaving = pod[p].leaving
<1>2. pod \in [Pods -> PodState] /\ has \in [Sentinels -> SUBSET Names] /\ at \in [Names -> Addresses]
    BY DEF NamesInv, NamesType
<1>3. ASSUME Kept, UNCHANGED <<has, at>> PROVE QuietInv'
  <2>1. Undisturbed'
    BY <1>1, <1>3 DEF QuietInv, Undisturbed, Up
  <2>2. Vacant' = Vacant /\ Unmonitored' = Unmonitored
    BY <1>3 DEF Vacant, Unmonitored, Up
  <2>3. HealsOutside'
    BY <1>1, <2>2 DEF QuietInv, HealsOutside
  <2>4. CaptorStands'
    BY <1>1, <1>3, <2>2, GhostsFixed DEF QuietInv, CaptorStands
  <2> QED BY <1>1, <2>1, <2>3, <2>4 DEF QuietInv, LateJoins
<1>4. CASE Rescues /\ Rescued(op.master) /\ UNCHANGED <<has, at, down>>
  <2>1. Kept
    BY <1>2, <1>4, FollowingKeeps DEF Rescued
  <2> QED BY <1>3, <1>4, <2>1
<1>5. ASSUME Recovers, NEW p \in Elected,
             pod' = IF Up(p) THEN [pod EXCEPT ![p].of = None] ELSE pod,
             has' = [s \in Sentinels |-> has[s] \cup {op.name}],
             at' = [at EXCEPT ![op.name] = p]
      PROVE  QuietInv'
  <2>1. p \in Pods
    BY <1>5, ElectedArePods DEF NamesInv
  <2>2. Kept
    BY <1>2, <1>5, <2>1, FollowingKeeps
  <2>3. at'["old"] = p /\ \A s \in Sentinels : has'[s] \subseteq {"old"} /\ has'[s] # {}
    BY <1>1, <1>2, <1>5 DEF QuietInv, Undisturbed
  <2>4. sts.size # 0
    BY <1>5 DEF Recovers, Stuck
  <2>5. marks.forsaken = "clear"
    <3> SUFFICES ASSUME marks.forsaken # "clear" PROVE FALSE
      BY DEF NamesInv, NamesType, Marks
    <3>1. at["old"] = Captor
      BY <1>1 DEF QuietInv, CaptorStands
    <3>2. ~Unmonitored
      BY <3>1 DEF QuietInv, CaptorStands
    <3>3. Monitors("old") # {}
      BY <1>2, <3>2 DEF Unmonitored, Monitors, QuietInv, Undisturbed
    <3> QED BY <1>1, <1>5, <3>1, <3>3, AddressesApart DEF Recovers, Stuck
  <2>6. ~Unmonitored'
    <3>1. Sentinels # {}
      BY FS_EmptySet, NamesConstants
    <3> QED BY <2>3, <3>1 DEF Unmonitored
  <2>7. Undisturbed'
    BY <1>1, <2>2, <2>3 DEF QuietInv, Undisturbed, Up
  <2>8. HealsOutside'
    BY <1>1, <2>4 DEF QuietInv, HealsOutside
  <2>9. CaptorStands'
    BY <1>1, <2>1, <2>3, <2>5, <2>6, AddressesApart, GhostsFixed DEF CaptorStands
  <2> QED BY <1>1, <2>7, <2>8, <2>9 DEF QuietInv, LateJoins
<1>6. CASE UNCHANGED redis
    BY <1>3, <1>6 DEF redis
<1> HIDE DEF Kept
<1> QED BY <1>4, <1>5, <1>6 DEF End

\* The settle period of the quarantine outlasts the scale-down.
LEMMA QuietCool ==
    ASSUME Prompt, NamesInv, QuietInv, Cool PROVE QuietInv'
<1>1. UNCHANGED <<name, sts, pod, has, at, op, budget>> /\ marks \in Marks
    BY DEF Cool, redis, NamesInv, NamesType
<1>2. /\ marks'.quarantine = "clear" <=> marks.quarantine = "clear"
      /\ marks'.forsaken = "clear" <=> marks.forsaken = "clear"
      /\ marks'.quarantine = "due" => marks.quarantine = "due" \/ Emptied
    BY <1>1 DEF Cool, Marks
<1>3. Emptied => Vacant
    BY DEF Emptied, Vacant, Unmonitored, Up
<1>4. Vacant' = Vacant /\ Unmonitored' = Unmonitored
    BY <1>1 DEF Vacant, Unmonitored, Up
<1>5. Undisturbed'
    BY <1>1 DEF QuietInv, Undisturbed, Up
<1>6. HealsOutside'
    BY <1>1, <1>2, <1>3, <1>4, GhostsFixed DEF QuietInv, HealsOutside
<1>7. CaptorStands'
    BY <1>1, <1>2, <1>4, GhostsFixed DEF QuietInv, CaptorStands
<1>8. LateJoins'
    BY <1>1, <1>2 DEF QuietInv, LateJoins, Up
<1> QED BY <1>5, <1>6, <1>7, <1>8 DEF QuietInv

LEMMA QuietStatus ==
    ASSUME NamesInv, QuietInv, StatusSync PROVE QuietInv'
<1>1. /\ UNCHANGED <<name, pod, has, at, marks, op, budget>>
      /\ sts'.tpl = sts.tpl /\ sts'.size = sts.size
    BY DEF StatusSync, redis, NamesInv, NamesType, Template
<1>2. Vacant' = Vacant /\ Unmonitored' = Unmonitored
    BY <1>1 DEF Vacant, Unmonitored, Up
<1>3. Undisturbed'
    BY <1>1 DEF QuietInv, Undisturbed, Up
<1>4. HealsOutside'
    BY <1>1, <1>2, GhostsFixed DEF QuietInv, HealsOutside
<1>5. CaptorStands'
    BY <1>1, <1>2, GhostsFixed DEF QuietInv, CaptorStands
<1>6. LateJoins'
    BY <1>1 DEF QuietInv, LateJoins, Up
<1> QED BY <1>3, <1>4, <1>5, <1>6 DEF QuietInv

\* The Sentinels and the pods go only inside the quarantine, or where nothing
\* was left.
LEMMA QuietStop ==
    ASSUME NamesInv, QuietInv, StopSentinels PROVE QuietInv'
<1>1. /\ UNCHANGED <<name, sts, pod, marks, op, budget>>
      /\ at'["old"] = None /\ \A s \in Sentinels : has'[s] = {}
    BY DEF StopSentinels
<1>2. sts.size = 0 /\ ~Unmonitored
    BY DEF StopSentinels, Unmonitored
<1>3. marks.quarantine # "clear"
    BY <1>2 DEF QuietInv, HealsOutside, Vacant
<1>4. Vacant => Vacant'
    BY <1>1 DEF Vacant, Unmonitored, Up
<1>5. Undisturbed'
    BY <1>1 DEF QuietInv, Undisturbed, Up
<1>6. HealsOutside'
    BY <1>1, <1>4, GhostsFixed DEF QuietInv, HealsOutside
<1>7. CaptorStands'
    BY <1>1, <1>3, AddressesApart, GhostsFixed DEF CaptorStands
<1> QED BY <1>1, <1>3, <1>5, <1>6, <1>7 DEF QuietInv, LateJoins

LEMMA QuietKill ==
    ASSUME NamesInv, QuietInv, NEW p \in Pods, Kill(p) PROVE QuietInv'
<1>1. sts.size = 0
    BY DEF Kill, QuietInv, Undisturbed
<1>2. /\ sts'.tpl = sts.tpl /\ sts'.size = 0 /\ UNCHANGED <<name, has, marks, budget>>
      /\ op'.pc = op.pc /\ op'.name = op.name /\ op'.master = Renamed(op.master, p)
      /\ op'.bare = op.bare /\ op'.live = {Renamed(x, p) : x \in op.live}
      /\ at'["old"] = Renamed(at["old"], p)
    BY <1>1 DEF Kill, NamesInv, NamesType, Template, Passes
<1>3. /\ pod'[p].tpl = "old" /\ ~pod'[p].leaving /\ pod'[p].st = "gone" /\ pod'[p].data = "none"
      /\ \A q \in Pods \ {p} : /\ pod'[q].tpl = pod[q].tpl /\ pod'[q].leaving = pod[q].leaving
                               /\ pod'[q].st = pod[q].st /\ pod'[q].data = pod[q].data
  <2>1. pod' = [q \in Pods |-> IF q = p THEN Blank("gone", sts.tpl)
                               ELSE [pod[q] EXCEPT !.of = Renamed(@, p)]]
    BY DEF Kill
  <2>2. pod'[p] = Blank("gone", sts.tpl)
    BY <2>1
  <2>3. \A q \in Pods \ {p} : pod'[q] = [pod[q] EXCEPT !.of = Renamed(pod[q].of, p)]
    BY <2>1
  <2>4. sts.tpl = "old" /\ pod \in [Pods -> PodState]
    BY DEF QuietInv, Undisturbed, NamesInv, NamesType
  <2>5. \A q \in Pods \ {p} : /\ pod'[q].tpl = pod[q].tpl /\ pod'[q].leaving = pod[q].leaving
                              /\ pod'[q].st = pod[q].st /\ pod'[q].data = pod[q].data
    <3> SUFFICES ASSUME NEW q \in Pods \ {p}
                 PROVE  /\ pod'[q].tpl = pod[q].tpl /\ pod'[q].leaving = pod[q].leaving
                        /\ pod'[q].st = pod[q].st /\ pod'[q].data = pod[q].data
      OBVIOUS
    <3>1. pod[q] \in PodState /\ pod'[q] = [pod[q] EXCEPT !.of = Renamed(pod[q].of, p)]
      BY <2>3, <2>4
    <3> QED BY <3>1, FollowingKeeps
  <2> QED BY <2>2, <2>4, <2>5 DEF Blank
<1>4. Undisturbed'
    BY <1>2, <1>3 DEF QuietInv, Undisturbed, Up
<1>5. Vacant => Vacant'
    BY <1>2, <1>3 DEF Vacant, Unmonitored, Up
<1>6. Renamed(None, p) = None
    BY AddressesApart DEF Renamed
<1>7. HealsOutside'
  <2>1. op'.live \subseteq Pods \cup Ghosts
    BY <1>2 DEF QuietInv, HealsOutside, Renamed, Ghosts
  <2>2. op.pc \in {"rule0", "prune"} => op.master = None
    BY <1>1 DEF QuietInv, HealsOutside
  <2>3. marks.quarantine \in {"clear", "due"} => Vacant'
    BY <1>1, <1>5 DEF QuietInv, HealsOutside
  <2> QED BY <1>2, <1>6, <2>1, <2>2, <2>3, GhostsFixed DEF QuietInv, HealsOutside
<1>8. CaptorStands'
  <2>1. Unmonitored' = Unmonitored
    BY <1>2 DEF Unmonitored
  <2>2. Unmonitored => at'["old"] = None
    BY <1>2, <1>6 DEF QuietInv, CaptorStands
  <2>3. marks.quarantine = "clear" => Unmonitored /\ marks.forsaken = "clear"
    BY <1>1, AddressesApart DEF QuietInv, HealsOutside, Vacant, CaptorStands
  <2> QED BY <1>2, <2>1, <2>2, <2>3, AddressesApart, GhostsFixed DEF CaptorStands
<1>9. LateJoins'
    BY <1>1, <1>2, AddressesApart DEF LateJoins, NamesInv, SizeInv
<1> QED BY <1>4, <1>7, <1>8, <1>9 DEF QuietInv

\* A step that changes one pod: it starts only where the name is monitored,
\* and under the captor where the pass has not listed it.
LEMMA QuietPod ==
    ASSUME NamesInv, QuietInv, NEW p \in Pods,
           pod' = [pod EXCEPT ![p] = pod'[p]], UNCHANGED <<name, sts, has, at, marks, op>>,
           UNCHANGED budget \/ Spend("writes"),
           pod'[p].tpl = "old" /\ ~pod'[p].leaving /\ (pod'[p].st # "up" => pod'[p].data = "none"),
           pod'[p].st = "up" => Up(p) \/ ~Unmonitored,
           pod'[p].st = "up" /\ p \notin op.live /\ at["old"] = Captor
             /\ (Up(p) => pod[p].of = Captor /\ pod[p].data # "own")
             => pod'[p].of = Captor /\ pod'[p].data # "own"
    PROVE  QuietInv'
<1>1. \A q \in Pods \ {p} : pod'[q] = pod[q]
    BY DEF NamesInv, NamesType
<1>2. budget'.edits = 0 /\ budget'.evictions = 0 /\ budget'.sentinels = 0
    BY NothingToSpend DEF QuietInv, Undisturbed, NamesInv, NamesType
<1>3. Unmonitored' = Unmonitored /\ (Vacant => Vacant')
    BY Zenon, <1>1 DEF Vacant, Unmonitored, Up
<1>4. Undisturbed'
  <2>1. ASSUME NEW q \in Pods
        PROVE  pod'[q].tpl = "old" /\ ~pod'[q].leaving /\ (pod'[q].st # "up" => pod'[q].data = "none")
    BY <1>1 DEF QuietInv, Undisturbed, Up
  <2> QED BY <1>2, <2>1 DEF QuietInv, Undisturbed, Up
<1>5. HealsOutside'
    BY <1>3, GhostsFixed DEF QuietInv, HealsOutside
<1>6. CaptorStands'
    BY <1>3, GhostsFixed DEF QuietInv, CaptorStands
<1>7. LateJoins'
  <2> SUFFICES ASSUME op.pc = "gather", marks.quarantine = "clear", marks.forsaken # "clear",
                      NEW q \in Pods \ op.live, pod'[q].st = "up"
               PROVE  pod'[q].of = Captor /\ pod'[q].data # "own"
    BY DEF LateJoins, Up
  <2>1. at["old"] = Captor /\ (Up(q) => pod[q].of = Captor /\ pod[q].data # "own")
    BY DEF QuietInv, CaptorStands, LateJoins
  <2>2. CASE q = p
    BY <2>1, <2>2
  <2>3. CASE q # p
    BY <1>1, <2>1, <2>3 DEF Up
  <2> QED BY <2>2, <2>3
<1> QED BY <1>4, <1>5, <1>6, <1>7 DEF QuietInv

LEMMA QuietOnePod ==
    ASSUME NamesInv, QuietInv, NEW p \in Pods,
           Create(p) \/ StartPod(p) \/ Sync(p) \/ Write(p) \/ Adopt(p)
    PROVE  QuietInv'
<1>1. /\ pod[p] \in PodState /\ pod \in [Pods -> PodState]
      /\ sts.tpl = "old" /\ pod[p].tpl = "old" /\ ~pod[p].leaving /\ (~Up(p) => pod[p].data = "none")
    BY DEF NamesInv, NamesType, QuietInv, Undisturbed
<1>2. CASE Create(p)
  <2>1. pod' = [pod EXCEPT ![p] = Blank("parked", "old")]
    BY Zenon, <1>1, <1>2 DEF Create
  <2>2. pod'[p] = Blank("parked", "old") /\ pod' = [pod EXCEPT ![p] = pod'[p]]
    BY <1>1, <2>1
  <2>3. pod'[p].tpl = "old" /\ ~pod'[p].leaving /\ pod'[p].st = "parked" /\ pod'[p].data = "none"
    BY <2>2 DEF Blank
  <2>4. UNCHANGED <<name, sts, has, at, marks, op, budget>>
    BY <1>2 DEF Create
  <2> QED BY <2>2, <2>3, <2>4, QuietPod
<1>3. CASE StartPod(p)
  <2> DEFINE f == IF at["old"] # p /\ Living(at["old"]) THEN at["old"] ELSE None
  <2>1. pod' = [pod EXCEPT ![p].st = "up", ![p].of = f]
    BY <1>1, <1>3 DEF StartPod
  <2>2. at["old"] = Captor => f = Captor
    BY AddressesApart DEF Living
  <2> HIDE DEF f
  <2>3. /\ pod'[p].tpl = "old" /\ ~pod'[p].leaving /\ pod'[p].st = "up"
        /\ pod'[p].of = f /\ pod'[p].data = pod[p].data /\ pod' = [pod EXCEPT ![p] = pod'[p]]
    BY Zenon, <1>1, <2>1 DEF PodState
  <2>4. pod[p].data = "none" /\ ~Unmonitored
    BY <1>1, <1>3 DEF StartPod, Up, Unmonitored, Monitors
  <2>5. UNCHANGED <<name, sts, has, at, marks, op, budget>>
    BY <1>3 DEF StartPod
  <2> QED BY Zenon, <2>2, <2>3, <2>4, <2>5, QuietPod
<1>4. CASE Sync(p)
  <2> DEFINE d == DataAt(pod[p].of)
  <2>1. pod' = [pod EXCEPT ![p].data = d] /\ Up(p)
    BY <1>4 DEF Sync
  <2>2. pod[p].of = Captor => d = "captor"
    BY AddressesApart DEF DataAt
  <2> HIDE DEF d
  <2>3. /\ pod'[p].tpl = "old" /\ ~pod'[p].leaving /\ pod'[p].st = "up"
        /\ pod'[p].of = pod[p].of /\ pod'[p].data = d /\ pod' = [pod EXCEPT ![p] = pod'[p]]
    BY <1>1, <2>1 DEF PodState, Up
  <2>4. UNCHANGED <<name, sts, has, at, marks, op, budget>>
    BY <1>4 DEF Sync
  <2> QED BY Zenon, <2>1, <2>2, <2>3, <2>4, QuietPod
<1>5. CASE Write(p)
  <2>1. /\ pod' = [pod EXCEPT ![p].data = "own"] /\ Up(p) /\ pod[p].of = None
        /\ UNCHANGED <<name, sts, has, at, marks, op>> /\ Spend("writes")
    BY <1>5 DEF Write, IsMaster
  <2>2. /\ pod'[p].tpl = "old" /\ ~pod'[p].leaving /\ pod'[p].st = "up"
        /\ pod' = [pod EXCEPT ![p] = pod'[p]]
    BY <1>1, <2>1 DEF PodState, Up
  <2> QED BY Zenon, <2>1, <2>2, AddressesApart, QuietPod
<1>6. CASE Adopt(p)
  <2>1. /\ pod' = [pod EXCEPT ![p].of = Captor] /\ Up(p)
        /\ UNCHANGED <<name, sts, has, at, marks, op, budget>>
    BY <1>6 DEF Adopt
  <2>2. /\ pod'[p].tpl = "old" /\ ~pod'[p].leaving /\ pod'[p].st = "up"
        /\ pod'[p].of = Captor /\ pod'[p].data = pod[p].data /\ pod' = [pod EXCEPT ![p] = pod'[p]]
    BY <1>1, <2>1 DEF PodState, Up
  <2> QED BY Zenon, <2>1, <2>2, QuietPod
<1> QED BY <1>2, <1>3, <1>4, <1>5, <1>6

LEMMA QuietSame ==
    ASSUME QuietInv, UNCHANGED <<name, sts, pod, has, at, marks, op, budget>> PROVE QuietInv'
<1>1. Vacant' = Vacant /\ Unmonitored' = Unmonitored
    BY DEF Vacant, Unmonitored, Up
<1>2. Undisturbed'
    BY DEF QuietInv, Undisturbed, Up
<1>3. HealsOutside'
    BY <1>1, GhostsFixed DEF QuietInv, HealsOutside
<1>4. CaptorStands'
    BY <1>1, GhostsFixed DEF QuietInv, CaptorStands
<1>5. LateJoins'
    BY DEF QuietInv, LateJoins, Up
<1> QED BY <1>2, <1>3, <1>4, <1>5 DEF QuietInv

LEMMA QuietCapture ==
    ASSUME NamesInv, QuietInv, Capture PROVE QuietInv'
<1>1. /\ UNCHANGED <<name, sts, pod, has, marks, op>> /\ Spend("captures")
      /\ at'["old"] = Captor /\ at["old"] \in Pods /\ ~Unmonitored
    BY DEF Capture, NamesInv, NamesType, Unmonitored, Monitors
<1>2. budget'.edits = 0 /\ budget'.evictions = 0 /\ budget'.sentinels = 0
    BY <1>1, NothingToSpend DEF QuietInv, Undisturbed, NamesInv, NamesType
<1>3. Vacant' = Vacant /\ Unmonitored' = Unmonitored
    BY <1>1 DEF Vacant, Unmonitored, Up
<1>4. Undisturbed'
    BY <1>1, <1>2 DEF QuietInv, Undisturbed, Up
<1>5. HealsOutside'
    BY Zenon, <1>1, <1>3, GhostsFixed DEF QuietInv, HealsOutside
<1>6. CaptorStands'
    BY Zenon, <1>1, <1>3, AddressesApart, GhostsFixed DEF CaptorStands
<1>7. LateJoins'
    BY <1>1 DEF QuietInv, LateJoins, Up
<1> QED BY <1>4, <1>5, <1>6, <1>7 DEF QuietInv

\* The Sentinels fail over from an address of ours: the captor lives.
LEMMA QuietFailover ==
    ASSUME NamesInv, QuietInv, NEW n \in Names, Failover(n) PROVE QuietInv'
<1>1. PICK p \in Pods :
          /\ pod' = [q \in Pods |-> CASE q = p -> [pod[p] EXCEPT !.of = None]
                                      [] q # p /\ Up(q) /\ at[n] \in {q, pod[q].of} -> [pod[q] EXCEPT !.of = p]
                                      [] OTHER -> pod[q]]
          /\ at' = [at EXCEPT ![n] = p]
    BY Zenon DEF Failover
<1>2. Monitors(n) # {}
  <2>1. Cardinality(Monitors(n)) >= 2
    BY DEF Failover
  <2>2. Monitors(n) = {} => Cardinality(Monitors(n)) = 0
    BY FS_EmptySet
  <2> QED BY <2>1, <2>2
<1>3. n = "old" /\ ~Unmonitored
    BY <1>2 DEF Monitors, Unmonitored, QuietInv, Undisturbed
<1>4. at["old"] # Captor
    BY <1>3, AddressesApart DEF Failover, Failing, Living
<1>5. UNCHANGED <<name, sts, has, marks, op, budget>> /\ at'["old"] = p
    BY <1>1, <1>3 DEF Failover, NamesInv, NamesType
<1>6. \A q \in Pods : /\ pod'[q].st = pod[q].st /\ pod'[q].tpl = pod[q].tpl
                      /\ pod'[q].data = pod[q].data /\ pod'[q].leaving = pod[q].leaving
  <2> SUFFICES ASSUME NEW q \in Pods
               PROVE  /\ pod'[q].st = pod[q].st /\ pod'[q].tpl = pod[q].tpl
                      /\ pod'[q].data = pod[q].data /\ pod'[q].leaving = pod[q].leaving
    OBVIOUS
  <2>1. \/ pod'[q] = [pod[q] EXCEPT !.of = None]
        \/ pod'[q] = [pod[q] EXCEPT !.of = p]
        \/ pod'[q] = pod[q]
    BY <1>1
  <2>2. pod[q] \in PodState
    BY DEF NamesInv, NamesType
  <2>3. CASE pod'[q] = [pod[q] EXCEPT !.of = None]
    BY <2>2, <2>3, FollowingKeeps
  <2>4. CASE pod'[q] = [pod[q] EXCEPT !.of = p]
    BY <2>2, <2>4, FollowingKeeps
  <2> QED BY <2>1, <2>3, <2>4
<1>7. Vacant' = Vacant /\ Unmonitored' = Unmonitored
    BY <1>5, <1>6 DEF Vacant, Unmonitored, Up
<1>8. Undisturbed'
    BY <1>5, <1>6 DEF QuietInv, Undisturbed, Up
<1>9. HealsOutside'
    BY <1>5, <1>7, GhostsFixed DEF QuietInv, HealsOutside
<1>10. ~(marks.forsaken # "clear" /\ marks.quarantine = "clear")
    BY <1>4 DEF QuietInv, CaptorStands
<1>11. CaptorStands'
    BY <1>3, <1>5, <1>7, <1>10, AddressesApart, GhostsFixed DEF CaptorStands
<1>12. LateJoins'
    BY <1>5, <1>10 DEF LateJoins
<1> QED BY <1>8, <1>9, <1>11, <1>12 DEF QuietInv

LEMMA QuietNext ==
    ASSUME Prompt, NamesInv, QuietInv, [Next]_vars PROVE QuietInv'
<1>1. CASE Operator
    BY <1>1, QuietBegin, QuietGather, QuietRule0, QuietPrune, QuietEnd DEF Operator
<1>2. ~Edit /\ (\A p \in Pods : ~Evict(p)) /\ (\A s \in Sentinels : ~Drop(s))
  <2>1. budget \in Budgets /\ budget.edits = 0 /\ budget.evictions = 0 /\ budget.sentinels = 0
    BY DEF NamesInv, NamesType, QuietInv, Undisturbed
  <2> QED BY <2>1, NothingToSpend DEF Edit, Evict, Drop
<1>3. \A p \in Pods : ~Roll(p)
    BY DEF Roll, Outdated, QuietInv, Undisturbed
<1>4. CASE Kubernetes
    BY Zenon, <1>3, <1>4, QuietStatus, QuietStop, QuietKill, QuietOnePod DEF Kubernetes
<1>5. CASE Sentinel
  <2>1. \A n \in Names : Flag(n) => QuietInv'
    BY Zenon, QuietSame DEF Flag
  <2> QED BY Zenon, <1>5, <2>1, QuietFailover, QuietOnePod DEF Sentinel
<1>6. CASE Fault
    BY <1>2, <1>6, QuietCapture DEF Fault
<1>7. CASE \E p \in Pods : Write(p)
    BY <1>7, QuietOnePod
<1>8. CASE UNCHANGED vars
    BY <1>8, QuietSame DEF vars
<1> QED BY <1>1, <1>2, <1>4, <1>5, <1>6, <1>7, <1>8, QuietCool DEF Next

\* The action QuarantineSparesData speaks of.
Spares ==
    marks.quarantine = "clear" /\ marks'.quarantine # "clear" =>
         /\ \E n \in Names : at[n] = Captor
         /\ \A p \in Pods : pod[p].data = "own" => pod[p].leaving

\* A quarantine is armed on evidence of the captor, and every pod that is up
\* was weighed: it answered without data of its own, or stands still in the
\* way, or joined the captor after the pods were listed.
LEMMA ArmingSpares ==
    ASSUME Prompt, NamesInv, QuietInv, Gather, marks.quarantine = "clear", marks'.quarantine # "clear"
    PROVE  at["old"] = Captor /\ \A p \in Pods : pod[p].data # "own"
<1>1. PICK lost \in {{}} \cup {{x} : x \in Pods \cup Sentinels} :
       LET R == {p \in op.live \cap Pods : Up(p)} \ lost
           S == IF sts.size = 0 THEN {} ELSE Sentinels \ lost
       IN  /\ \A p \in lost \cap Pods : Copied(p)
           /\ \/ Holds(marks.quarantine) \/ Arms(R, S)
              \/ Stop(marks.forsaken, marks.quarantine, marks.attempts)
              \/ Marked("cooling", marks.quarantine, marks.attempts)
              \/ Marked("clear",
                        IF Releases(marks.quarantine) \/ (marks.running /\ marks.attempts # 0)
                        THEN "clear" ELSE marks.quarantine,
                        IF marks.running THEN 0 ELSE marks.attempts)
    BY Zenon DEF Gather
<1> DEFINE R == {p \in op.live \cap Pods : Up(p)} \ lost
           S == IF sts.size = 0 THEN {} ELSE Sentinels \ lost
<1>2. marks \in Marks /\ op.pc = "gather"
    BY Zenon DEF NamesInv, NamesType, Gather
<1>3. Arms(R, S)
    BY Zenon, <1>1, <1>2 DEF Holds, Stop, Marked, Marks
<1>4. R \in SUBSET Pods /\ S \in SUBSET Sentinels
    OBVIOUS
<1>5. at["old"] = Captor /\ marks.forsaken # "clear"
  <2> HIDE DEF R, S
  <2> QED BY <1>3, <1>4, SignatureIsCaptor DEF Arms, Forsaken, Captured
<1>6. ASSUME NEW p \in Pods PROVE pod[p].data # "own"
  <2>1. CASE ~Up(p)
    BY <2>1 DEF QuietInv, Undisturbed
  <2>2. CASE Up(p) /\ p \notin op.live
    BY <1>2, <2>2, <1>5 DEF QuietInv, LateJoins
  <2>3. CASE Up(p) /\ p \in R
    BY <1>3, <2>3 DEF Arms, quarantineDataRisk
  <2>4. ~(Up(p) /\ p \in op.live /\ p \in lost)
    BY Zenon, <1>1, <1>3 DEF Arms, quarantineDataRisk
  <2> QED BY <2>1, <2>2, <2>3, <2>4
<1> QED BY <1>5, <1>6

LEMMA QuietSpares ==
    ASSUME Prompt, NamesInv, QuietInv, [Next]_vars PROVE Spares
<1> SUFFICES ASSUME marks.quarantine = "clear", marks'.quarantine # "clear"
             PROVE  at["old"] = Captor /\ \A p \in Pods : pod[p].data # "own"
    BY DEF Spares
<1>1. ~Begin /\ ~Rule0 /\ ~Prune /\ ~End
    BY EndStep DEF Begin, Rule0, Prune, NamesInv
<1>2. Operator
  <2>1. ~Cool
    BY Zenon DEF Cool, NamesInv, NamesType, Marks
  <2>2. ~Kubernetes /\ ~Sentinel /\ ~Fault /\ ~Edit /\ ~(\E p \in Pods : Write(p))
    BY Zenon DEF Kubernetes, Sentinel, Fault, Edit, Write, StatusSync, StopSentinels, Roll, Kill, Create,
           StartPod, Sync, Flag, Failover, Adopt, Evict, Drop, Capture
  <2> QED BY <2>1, <2>2 DEF Next, vars
<1> QED BY <1>1, <1>2, ArmingSpares DEF Operator

\* However often an instance is captured, with clients writing, a probe lost in
\* any pass and commands failing, and for any number of pods: it is scaled to
\* zero only when another deployment's master stands under its name and no pod
\* holds data of its own (planQuarantine, quarantineDataRisk).  This is where
\* no pod is evicted, no Sentinel loses its state and the name is not edited,
\* and under the timing the code counts on: the settle period outlasts the
\* scale-down, and a pod whose probe is lost is not resyncing.
THEOREM QuarantineSparesDataAlways ==
    ASSUME Prompt, NoReplacement PROVE Spec => QuarantineSparesData
<1>1. Init => QuietInv
    BY QuietInit
<1>2. NamesInv /\ QuietInv /\ [Next]_vars => QuietInv' /\ Spares
    BY QuietNext, QuietSpares
<1>3. [][Spares]_vars => QuarantineSparesData
    BY DEF Spares, QuarantineSparesData
<1> QED BY <1>1, <1>2, <1>3, NamesInvariant, PTL DEF Spec
=============================================================================
