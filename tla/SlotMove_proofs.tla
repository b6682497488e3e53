--------------------------- MODULE SlotMove_proofs ---------------------------
(***************************************************************************)
(* A moving slot range loses no acknowledged write, for every range, every *)
(* set of keys and any number of failing commands.                         *)
(*                                                                         *)
(* The argument.  The source gives up a slot only drained and, until then, *)
(* refers clients to the destination for every key it no longer has        *)
(* (Drained, FlipIsSafe): so there is one place where a key lives, Home,   *)
(* and its version is the last one acknowledged (Latest).  A copy left on  *)
(* the destination by a MIGRATE that failed half way is never taken for    *)
(* the key, because it exists only while the slot migrates (NoStaleCopy).  *)
(***************************************************************************)
EXTENDS SlotMove, TLAPS

----------------------------------------------------------------------------

USE DEF At, Idle, Pass, Fails, redis, engine

LEMMA Constants == /\ SlotOf \in [Keys -> Slots] /\ MaxKeys \in Nat /\ MaxErrors \in Nat
                   /\ "src" \in Masters /\ "dst" \in Masters
                   /\ \A n \in Masters : n \in {"src", "dst", "other"}
BY SlotMoveConstants DEF Masters

LEMMA InitMoveInv == Init => MoveInv
<1> SUFFICES ASSUME Init PROVE MoveInv
  OBVIOUS
<1> USE Constants
<1>1. TypeOK
  BY DEF Init, TypeOK, Masters
<1>2. Progress /\ FlipIsSafe /\ Drained /\ NewerClaim /\ OnePath /\ AskIsAccepted
  BY DEF Init, Progress, FlipIsSafe, Drained, NewerClaim, OnePath, AskIsAccepted, Claims
<1>3. NoStaleCopy /\ Latest
  BY DEF Init, NoStaleCopy, Latest, Home, Claims, Asked
<1> QED
  BY <1>1, <1>2, <1>3 DEF MoveInv

\* Steps of the pass that read, and leave the nodes alone.
LEMMA ReadStep ==
    ASSUME MoveInv, UNCHANGED <<redis, last, engine>>, errors' \in Nat,
           op' \in [pc : {"plan", "importing", "migrating", "count", "drain", "flip", "import"},
                    told : SUBSET Masters, left : Nat],
           Progress', FlipIsSafe', OnePath'
    PROVE  MoveInv'
<1>1. TypeOK'
  BY DEF MoveInv, TypeOK
<1>2. Drained' /\ NewerClaim' /\ NoStaleCopy' /\ AskIsAccepted' /\ Latest'
  BY DEF MoveInv, Drained, NewerClaim, NoStaleCopy, AskIsAccepted, Latest, Home, Claims, Asked
<1> QED
  BY <1>1, <1>2 DEF MoveInv

LEMMA PlanStep == MoveInv /\ Plan => MoveInv'
<1> SUFFICES ASSUME MoveInv, Plan PROVE MoveInv'
  OBVIOUS
<1>1. \/ op' = At("plan")
      \/ ~asm /\ op' = At("importing") /\ \A s \in Slots : Claims("src", s)
      \/ asm /\ op' = At("import")
  BY DEF Plan
<1>2. UNCHANGED <<redis, last, engine>> /\ errors' = errors /\ op.pc = "plan"
  BY DEF Plan
<1>3. Progress' /\ FlipIsSafe' /\ OnePath'
  BY <1>1, <1>2 DEF MoveInv, Progress, FlipIsSafe, OnePath, Claims
<1> QED
  BY <1>1, <1>2, <1>3, ReadStep DEF MoveInv, TypeOK

LEMMA CountStep == MoveInv /\ CountKeys => MoveInv'
<1> SUFFICES ASSUME MoveInv, CountKeys PROVE MoveInv'
  OBVIOUS
<1> USE Constants
<1>1. op' = [pc |-> "flip", told |-> Masters, left |-> 0] => \A k \in Keys : val["src"][k] = 0
  <2> SUFFICES ASSUME op' = [pc |-> "flip", told |-> Masters, left |-> 0], NEW k \in Keys
               PROVE  val["src"][k] = 0
    OBVIOUS
  <2>1. SlotOf[k] \notin SlotsNeedingDrain
    BY DEF CountKeys
  <2>2. k \notin KeysIn("src", SlotOf[k])
    BY <2>1 DEF SlotsNeedingDrain
  <2> QED
    BY <2>2 DEF KeysIn, MoveInv, TypeOK
<1>2. \/ op' = Idle
      \/ op' = [pc |-> "flip", told |-> Masters, left |-> 0]
      \/ op' = [pc |-> "drain", told |-> {}, left |-> MaxKeys]
  BY DEF CountKeys
<1>3. op.pc = "count" /\ errors' \in Nat /\ UNCHANGED <<redis, last, engine>>
  BY DEF CountKeys, MoveInv, TypeOK
<1>4. Progress' /\ FlipIsSafe' /\ OnePath'
  BY <1>1, <1>2, <1>3 DEF MoveInv, Progress, FlipIsSafe, OnePath, Claims
<1> QED
  BY <1>2, <1>3, <1>4, ReadStep DEF MoveInv

LEMMA EndDrainStep == MoveInv /\ EndDrain => MoveInv'
<1> SUFFICES ASSUME MoveInv, EndDrain PROVE MoveInv'
  OBVIOUS
<1>1. op' = Idle /\ op.pc = "drain" /\ errors' = errors /\ UNCHANGED <<redis, last, engine>>
  BY DEF EndDrain
<1>2. Progress' /\ FlipIsSafe' /\ OnePath'
  BY <1>1 DEF MoveInv, Progress, FlipIsSafe, OnePath, Claims
<1> QED
  BY <1>1, <1>2, ReadStep DEF MoveInv, TypeOK

LEMMA ImportingStep == MoveInv /\ SetSlotsImporting => MoveInv'
<1> SUFFICES ASSUME MoveInv, SetSlotsImporting PROVE MoveInv'
  OBVIOUS
<1> USE Constants
<1>a. /\ op.pc = "importing" /\ errors' \in Nat
      /\ UNCHANGED <<map, epoch, migrating, val, task, last, engine>>
  BY DEF SetSlotsImporting, MoveInv, TypeOK
<1>b. \/ op' = Idle
      \/ op' = At("migrating") /\ \A s \in Slots : ~Claims("dst", s) /\ s \in importing'
  BY DEF SetSlotsImporting
<1>c. importing' \subseteq Slots /\ importing \subseteq importing'
  BY DEF SetSlotsImporting, MoveInv, TypeOK
<1>1. TypeOK'
  BY <1>a, <1>b, <1>c DEF MoveInv, TypeOK
<1>2. Progress'
  BY <1>a, <1>b, <1>c DEF MoveInv, TypeOK, Claims, Progress
<1>3. FlipIsSafe'
  BY <1>a, <1>b, <1>c DEF MoveInv, TypeOK, Claims, FlipIsSafe
<1>4. Drained'
  BY <1>a, <1>b, <1>c DEF MoveInv, TypeOK, Claims, Drained
<1>5. NewerClaim'
  BY <1>a, <1>b, <1>c DEF MoveInv, TypeOK, Claims, NewerClaim
<1>6. NoStaleCopy'
  BY <1>a, <1>b, <1>c DEF MoveInv, TypeOK, Claims, NoStaleCopy
<1>7. OnePath'
  BY <1>a, <1>b, <1>c DEF MoveInv, TypeOK, Claims, OnePath
<1>8. AskIsAccepted'
  BY <1>a, <1>b, <1>c DEF MoveInv, TypeOK, Claims, AskIsAccepted
<1>9. Latest'
  BY <1>a, <1>b, <1>c DEF MoveInv, TypeOK, Claims, Asked, Latest, Home
<1> QED
  BY <1>1, <1>2, <1>3, <1>4, <1>5, <1>6, <1>7, <1>8, <1>9 DEF MoveInv

LEMMA MigratingStep == MoveInv /\ SetSlotsMigrating => MoveInv'
<1> SUFFICES ASSUME MoveInv, SetSlotsMigrating PROVE MoveInv'
  OBVIOUS
<1> USE Constants
<1>a. /\ op.pc = "migrating" /\ errors' \in Nat
      /\ UNCHANGED <<map, epoch, importing, val, task, last, engine>>
  BY DEF SetSlotsMigrating, MoveInv, TypeOK
<1>d. \A s \in Slots : Claims("src", s) /\ ~Claims("dst", s) /\ s \in importing
  BY <1>a DEF MoveInv, Progress
<1>b. op' = Idle \/ (op' = At("count") /\ \A s \in Slots : s \in migrating')
  <2>1. {s \in Slots : Claims("src", s)} = Slots
    BY <1>d
  <2>2. op' = Idle \/ (op' = At("count") /\ migrating' = migrating \cup Slots)
    BY <2>1 DEF SetSlotsMigrating
  <2> QED
    BY <2>2
<1>c. migrating' \subseteq Slots /\ migrating \subseteq migrating'
  BY DEF SetSlotsMigrating, MoveInv, TypeOK
<1>1. TypeOK'
  BY <1>a, <1>b, <1>c DEF MoveInv, TypeOK
<1>2. Progress'
  BY <1>a, <1>b, <1>c, <1>d DEF MoveInv, TypeOK, Claims, Progress
<1>3. FlipIsSafe'
  BY <1>a, <1>b, <1>c, <1>d DEF MoveInv, TypeOK, Claims, FlipIsSafe
<1>4. Drained'
  BY <1>a, <1>b, <1>c, <1>d DEF MoveInv, TypeOK, Claims, Drained
<1>5. NewerClaim'
  BY <1>a, <1>b, <1>c, <1>d DEF MoveInv, TypeOK, Claims, NewerClaim
<1>6. NoStaleCopy'
  BY <1>a, <1>b, <1>c, <1>d DEF MoveInv, TypeOK, Claims, NoStaleCopy
<1>7. OnePath'
  BY <1>a, <1>b, <1>c, <1>d DEF MoveInv, TypeOK, Claims, OnePath, Progress
<1>8. AskIsAccepted'
  BY <1>a, <1>b, <1>c, <1>d DEF MoveInv, TypeOK, Claims, AskIsAccepted
<1>9. Latest'
  BY <1>a, <1>b, <1>c, <1>d DEF MoveInv, TypeOK, Claims, Asked, Latest, Home, NoStaleCopy
<1> QED
  BY <1>1, <1>2, <1>3, <1>4, <1>5, <1>6, <1>7, <1>8, <1>9 DEF MoveInv

LEMMA MigrateStep == ASSUME NEW k \in Keys PROVE MoveInv /\ MigrateKeys(k) => MoveInv'
<1> SUFFICES ASSUME MoveInv, MigrateKeys(k) PROVE MoveInv'
  OBVIOUS
<1> USE Constants
<1>a. /\ op.pc = "drain" /\ val["src"][k] > 0 /\ errors' \in Nat
      /\ UNCHANGED <<map, epoch, importing, migrating, task, last, engine>>
  BY DEF MigrateKeys, MoveInv, TypeOK
<1>b. op' = Idle \/ (op' = [op EXCEPT !.left = @ - 1] /\ op.left > 0)
  BY DEF MigrateKeys
<1>c. /\ val' \in [Masters -> [Keys -> Nat]]
      /\ \A j \in Keys : j # k => val'["src"][j] = val["src"][j] /\ val'["dst"][j] = val["dst"][j]
      /\ \/ val'["src"][k] = val["src"][k]
         \/ val'["src"][k] = 0 /\ val'["dst"][k] = val["src"][k]
  <2> DEFINE sent == [val EXCEPT !["dst"][k] = val["src"][k]]
  <2>1. /\ sent \in [Masters -> [Keys -> Nat]] /\ sent["src"] = val["src"]
        /\ sent["dst"] = [val["dst"] EXCEPT ![k] = val["src"][k]]
    BY DEF MoveInv, TypeOK
  <2>2. val' = [sent EXCEPT !["src"][k] = 0] \/ val' = val \/ val' = sent
    BY DEF MigrateKeys
  <2>3. CASE val' = val
    BY <2>3 DEF MoveInv, TypeOK
  <2>5. CASE val' = sent
    <3> HIDE DEF sent
    <3> QED
      BY <2>1, <2>5 DEF MoveInv, TypeOK
  <2>4. CASE val' = [sent EXCEPT !["src"][k] = 0]
    <3> HIDE DEF sent
    <3>1. /\ val' \in [Masters -> [Keys -> Nat]] /\ val'["dst"] = sent["dst"]
          /\ val'["src"] = [sent["src"] EXCEPT ![k] = 0]
      BY <2>1, <2>4
    <3> QED
      BY <2>1, <3>1 DEF MoveInv, TypeOK
  <2> QED
    BY <2>2, <2>3, <2>4, <2>5
<1>d. \A s \in Slots : Claims("src", s) /\ ~Claims("dst", s) /\ s \in importing /\ s \in migrating
  BY <1>a DEF MoveInv, Progress
<1>e. op'.pc \in {"plan", "drain"}
  BY <1>a, <1>b DEF MoveInv, TypeOK
<1>f. op' \in [pc : {"plan", "drain"}, told : SUBSET Masters, left : Nat]
  <2>1. op \in [pc : {"drain"}, told : SUBSET Masters, left : Nat]
    BY <1>a DEF MoveInv, TypeOK
  <2> QED
    BY <2>1, <1>b
<1>1. TypeOK'
  BY <1>a, <1>c, <1>f DEF MoveInv, TypeOK
<1>2. Progress'
  BY <1>a, <1>c, <1>d, <1>e DEF MoveInv, TypeOK, Claims, Progress
<1>3. FlipIsSafe'
  BY <1>a, <1>c, <1>d, <1>e DEF MoveInv, TypeOK, Claims, FlipIsSafe
<1>4. Drained'
  BY <1>a, <1>c, <1>d, <1>e DEF MoveInv, TypeOK, Claims, Drained
<1>5. NewerClaim'
  BY <1>a, <1>c, <1>d, <1>e DEF MoveInv, TypeOK, Claims, NewerClaim
<1>6. NoStaleCopy'
  BY <1>a, <1>c, <1>d, <1>e DEF MoveInv, TypeOK, Claims, NoStaleCopy
<1>7. OnePath'
  BY <1>a, <1>c, <1>d, <1>e DEF MoveInv, TypeOK, Claims, OnePath
<1>8. AskIsAccepted'
  BY <1>a, <1>c, <1>d, <1>e DEF MoveInv, TypeOK, Claims, AskIsAccepted
<1>9. Latest'
  BY <1>a, <1>c, <1>d, <1>e DEF MoveInv, TypeOK, Claims, Asked, Latest, Home
<1> QED
  BY <1>1, <1>2, <1>3, <1>4, <1>5, <1>6, <1>7, <1>8, <1>9 DEF MoveInv

LEMMA NodeStep == ASSUME NEW n \in Masters PROVE MoveInv /\ SetSlotsNode(n) => MoveInv'
<1> SUFFICES ASSUME MoveInv, SetSlotsNode(n) PROVE MoveInv'
  OBVIOUS
<1> USE Constants
<1>a. /\ op.pc = "flip" /\ UNCHANGED <<val, task, last, engine>> /\ errors' \in Nat
      /\ op' \in [pc : {"plan", "flip"}, told : SUBSET Masters, left : Nat]
  <2>1. op \in [pc : {"flip"}, told : SUBSET Masters, left : Nat]
    BY DEF SetSlotsNode, MoveInv, TypeOK
  <2>2. op' = Idle \/ op' = [op EXCEPT !.told = @ \ {n}]
    BY DEF SetSlotsNode
  <2>3. op' \in [pc : {"plan", "flip"}, told : SUBSET Masters, left : Nat]
    BY <2>1, <2>2
  <2>4. errors' = errors \/ (errors > 0 /\ errors' = errors - 1)
    BY DEF SetSlotsNode
  <2>5. errors' \in Nat
    BY <2>4 DEF MoveInv, TypeOK
  <2> QED
    BY <2>3, <2>5 DEF SetSlotsNode
<1>b. PICK S \in SUBSET Slots : Flipped(n, S)
  BY DEF SetSlotsNode
<1>c. /\ map' \in [Masters -> [Slots -> {"src", "dst"}]]
      /\ \A s \in Slots : /\ Claims("src", s)' <=> Claims("src", s) /\ ~(n = "src" /\ s \in S)
                          /\ Claims("dst", s)' <=> Claims("dst", s) \/ (n = "dst" /\ s \in S)
  BY <1>b DEF Flipped, Claims, MoveInv, TypeOK
<1>d. /\ importing' = IF n = "dst" THEN importing \ S ELSE importing
      /\ migrating' = IF n = "src" THEN migrating \ S ELSE migrating
  BY <1>b DEF Flipped
<1>e. \A s \in Slots : (Claims("src", s) => s \in migrating) /\ (s \in importing \/ Claims("dst", s))
  BY <1>a DEF MoveInv, FlipIsSafe
<1>f. \A k \in Keys : val["src"][k] = 0
  BY <1>a DEF MoveInv, FlipIsSafe
<1>g. TopEpoch \in Nat /\ epoch["src"] =< TopEpoch
  BY DEF TopEpoch, Higher, MoveInv, TypeOK, Masters
<1>h. /\ epoch' \in [Masters -> Nat] /\ epoch'["src"] = epoch["src"]
      /\ epoch["src"] < epoch["dst"] => epoch["src"] < epoch'["dst"]
      /\ n = "dst" /\ S \cap importing # {} => epoch["src"] < epoch'["dst"]
  <2>1. CASE n = "dst" /\ S \cap importing # {}
    BY <1>b, <1>g, <2>1 DEF Flipped, MoveInv, TypeOK
  <2>2. CASE ~(n = "dst" /\ S \cap importing # {})
    BY <1>b, <2>2 DEF Flipped, MoveInv, TypeOK
  <2> QED
    BY <2>1, <2>2
<1>1. TypeOK'
  BY <1>a, <1>c, <1>d, <1>h DEF MoveInv, TypeOK
<1>2. Progress'
  BY <1>a, <1>c, <1>d, <1>e, <1>f DEF MoveInv, TypeOK, Progress
<1>3. FlipIsSafe'
  BY <1>a, <1>c, <1>d, <1>e, <1>f DEF MoveInv, TypeOK, FlipIsSafe
<1>4. Drained'
  BY <1>a, <1>c, <1>d, <1>e, <1>f DEF MoveInv, TypeOK, Drained
<1>5. NewerClaim'
  BY <1>c, <1>e, <1>h DEF MoveInv, NewerClaim
<1>6. NoStaleCopy'
  BY <1>a, <1>c, <1>d, <1>e, <1>f DEF MoveInv, TypeOK, NoStaleCopy
<1>7. OnePath'
  BY <1>a DEF MoveInv, OnePath
<1>8. AskIsAccepted'
  BY <1>a, <1>c, <1>d, <1>e, <1>f DEF MoveInv, TypeOK, AskIsAccepted
<1>9. Latest'
  BY <1>a, <1>c, <1>d, <1>e, <1>f DEF MoveInv, Latest, Home, Asked
<1> QED
  BY <1>1, <1>2, <1>3, <1>4, <1>5, <1>6, <1>7, <1>8, <1>9 DEF MoveInv

LEMMA ImportStep == MoveInv /\ MigrationImport => MoveInv'
<1> SUFFICES ASSUME MoveInv, MigrationImport PROVE MoveInv'
  OBVIOUS
<1> USE Constants
<1>a. /\ op.pc = "import" /\ op' = Idle /\ errors' \in Nat /\ asm
      /\ UNCHANGED <<map, epoch, importing, migrating, val, last, engine>>
  BY DEF MigrationImport, MoveInv, TypeOK, OnePath
<1>b. task' = task \/ (task' = "running" /\ \A s \in Slots : ~Claims("dst", s))
  BY DEF MigrationImport
<1>1. TypeOK'
  BY <1>a, <1>b DEF MoveInv, TypeOK
<1>2. Progress'
  BY <1>a, <1>b DEF MoveInv, TypeOK, Claims, Progress
<1>3. FlipIsSafe'
  BY <1>a, <1>b DEF MoveInv, TypeOK, Claims, FlipIsSafe
<1>4. Drained'
  BY <1>a, <1>b DEF MoveInv, TypeOK, Claims, Drained
<1>5. NewerClaim'
  BY <1>a, <1>b DEF MoveInv, TypeOK, Claims, NewerClaim
<1>6. NoStaleCopy'
  BY <1>a, <1>b DEF MoveInv, TypeOK, Claims, NoStaleCopy
<1>7. OnePath'
  BY <1>a, <1>b DEF MoveInv, TypeOK, Claims, OnePath
<1>8. AskIsAccepted'
  BY <1>a, <1>b DEF MoveInv, TypeOK, Claims, AskIsAccepted
<1>9. Latest'
  BY <1>a, <1>b DEF MoveInv, TypeOK, Claims, Asked, Latest, Home
<1> QED
  BY <1>1, <1>2, <1>3, <1>4, <1>5, <1>6, <1>7, <1>8, <1>9 DEF MoveInv

LEMMA EndsStep == MoveInv /\ MigrationEnds => MoveInv'
<1> SUFFICES ASSUME MoveInv, MigrationEnds PROVE MoveInv'
  OBVIOUS
<1> USE Constants
<1>a. UNCHANGED <<importing, migrating, last, op, engine>> /\ errors' \in Nat /\ asm
  BY DEF MigrationEnds, MoveInv, TypeOK, OnePath
<1>b. importing = {} /\ migrating = {} /\ op.pc \in {"plan", "import"}
  BY <1>a DEF MoveInv, OnePath
<1>c. TopEpoch \in Nat /\ epoch["src"] =< TopEpoch
  BY DEF TopEpoch, Higher, MoveInv, TypeOK, Masters
<1>d. \A s \in Slots : Claims("src", s) /\ ~Claims("dst", s)
  BY <1>a DEF MigrationEnds, MoveInv, OnePath
<1>e. \/ task' = "failed" /\ UNCHANGED <<map, epoch, val>>
      \/ /\ task' = "none"
         /\ \A s \in Slots : ~Claims("src", s)' /\ Claims("dst", s)'
         /\ epoch'["src"] = epoch["src"] /\ epoch["src"] < epoch'["dst"]
         /\ \A k \in Keys : val'["src"][k] = 0 /\ val'["dst"][k] = val["src"][k]
  BY <1>c DEF MigrationEnds, Claims, MoveInv, TypeOK
<1>1. TypeOK'
  <2>1. map' \in [Masters -> [Slots -> {"src", "dst"}]]
    BY DEF MigrationEnds, MoveInv, TypeOK
  <2>2. val' \in [Masters -> [Keys -> Nat]]
    BY DEF MigrationEnds, MoveInv, TypeOK
  <2>3. epoch' \in [Masters -> Nat]
    BY <1>c DEF MigrationEnds, MoveInv, TypeOK
  <2> QED
    BY <1>a, <1>e, <2>1, <2>2, <2>3 DEF MoveInv, TypeOK
<1>2. Progress'
  BY <1>a, <1>b, <1>d, <1>e DEF MoveInv, TypeOK, Claims, Progress
<1>3. FlipIsSafe'
  BY <1>a, <1>b, <1>d, <1>e DEF MoveInv, TypeOK, Claims, FlipIsSafe
<1>4. Drained'
  BY <1>a, <1>b, <1>d, <1>e DEF MoveInv, TypeOK, Claims, Drained
<1>5. NewerClaim'
  BY <1>a, <1>b, <1>d, <1>e DEF MoveInv, TypeOK, Claims, NewerClaim
<1>6. NoStaleCopy'
  BY <1>a, <1>b, <1>d, <1>e DEF MoveInv, TypeOK, Claims, NoStaleCopy
<1>7. OnePath'
  BY <1>a, <1>b, <1>d, <1>e DEF MoveInv, TypeOK, Claims, OnePath
<1>8. AskIsAccepted'
  BY <1>a, <1>b, <1>d, <1>e DEF MoveInv, TypeOK, Claims, AskIsAccepted
<1>9. Latest'
  BY <1>a, <1>b, <1>d, <1>e DEF MoveInv, TypeOK, Claims, Asked, Latest, Home
<1> QED
  BY <1>1, <1>2, <1>3, <1>4, <1>5, <1>6, <1>7, <1>8, <1>9 DEF MoveInv

LEMMA WriteStep == ASSUME NEW k \in Keys PROVE MoveInv /\ Write(k) => MoveInv'
<1> SUFFICES ASSUME MoveInv, Write(k) PROVE MoveInv'
  OBVIOUS
<1> USE Constants
<1>a. PICK n \in Masters :
        /\ Serves(n, k)
        /\ last' = [last EXCEPT ![k] = @ + 1] /\ val' = [val EXCEPT ![n][k] = last'[k]]
        /\ UNCHANGED <<map, epoch, importing, migrating, task, op, errors, engine>>
  BY DEF Write
<1>b. /\ n = "src" => Claims("src", SlotOf[k]) /\ ~Asked("src", k)
      /\ n = "dst" => Claims("dst", SlotOf[k]) \/ (Claims("src", SlotOf[k]) /\ Asked("src", k))
      /\ n \in {"src", "dst"}
  <2>1. ~Claims("other", SlotOf[k])
    BY DEF Claims, MoveInv, TypeOK, Masters
  <2>2. n # "other"
    BY <1>a, <2>1 DEF Serves
  <2>3. n = "src" => Claims("src", SlotOf[k]) /\ ~Asked("src", k)
    BY <1>a DEF Serves
  <2> QED
    BY <1>a, <2>2, <2>3 DEF Serves
<1>c. n = Home(k)
  BY <1>b DEF Home, Asked, MoveInv, Drained
<1>d. /\ last'[k] = last[k] + 1 /\ last' \in [Keys -> Nat]
      /\ \A j \in Keys : j # k => last'[j] = last[j]
  BY <1>a DEF MoveInv, TypeOK
<1>e. /\ val' \in [Masters -> [Keys -> Nat]]
      /\ \A m \in Masters, j \in Keys : val'[m][j] = IF m = n /\ j = k THEN last[k] + 1 ELSE val[m][j]
  BY <1>a, <1>d DEF MoveInv, TypeOK
<1>f. \A j \in Keys : j # k => val'[Home(j)'][j] = last'[j]
  BY <1>a, <1>d, <1>e DEF MoveInv, TypeOK, Latest, Home, Claims, Asked
<1>g. val'[Home(k)'][k] = last'[k]
  <2>1. Home(k)' = n
    <3>1. val'["src"][k] = IF n = "src" THEN last[k] + 1 ELSE val["src"][k]
      BY <1>e
    <3>2. n = "src" => Claims("src", SlotOf[k])' /\ ~Asked("src", k)'
      BY <1>a, <1>b, <3>1 DEF Claims, Asked, MoveInv, TypeOK
    <3>3. n = "dst" => Home(k)' = Home(k)
      BY <1>a, <3>1 DEF Home, Claims, Asked
    <3> QED
      BY <1>b, <1>c, <3>2, <3>3 DEF Home
  <2> QED
    BY <2>1, <1>d, <1>e
<1>1. TypeOK'
  BY <1>a, <1>d, <1>e DEF MoveInv, TypeOK
<1>2. Progress'
  BY <1>a, <1>b, <1>e DEF MoveInv, TypeOK, Claims, Progress
<1>3. FlipIsSafe'
  BY <1>a, <1>b, <1>e DEF MoveInv, TypeOK, Claims, FlipIsSafe, Asked
<1>4. Drained'
  BY <1>a, <1>b, <1>e DEF MoveInv, TypeOK, Claims, Drained, Asked
<1>5. NewerClaim'
  BY <1>a, <1>b, <1>e DEF MoveInv, TypeOK, Claims, NewerClaim
<1>6. NoStaleCopy'
  BY <1>a, <1>b, <1>e DEF MoveInv, TypeOK, Claims, NoStaleCopy, Asked, Drained
<1>7. OnePath'
  BY <1>a, <1>b, <1>e DEF MoveInv, TypeOK, Claims, OnePath
<1>8. AskIsAccepted'
  BY <1>a, <1>b, <1>e DEF MoveInv, TypeOK, Claims, AskIsAccepted
<1>9. Latest'
  BY <1>f, <1>g DEF Latest
<1> QED
  BY <1>1, <1>2, <1>3, <1>4, <1>5, <1>6, <1>7, <1>8, <1>9 DEF MoveInv

LEMMA GossipStep == ASSUME NEW n \in Masters, NEW m \in Masters PROVE MoveInv /\ Gossip(n, m) => MoveInv'
<1> SUFFICES ASSUME MoveInv, Gossip(n, m) PROVE MoveInv'
  OBVIOUS
<1> USE Constants
<1> DEFINE new == {s \in Slots : Claims(m, s) /\ map[n][s] # m /\ epoch[map[n][s]] < epoch[m]}
<1>a. UNCHANGED <<epoch, importing, task, last, op, errors, engine>>
  BY DEF Gossip
<1>b. \A p \in Masters, s \in Slots : map'[p][s] = IF p = n /\ s \in new THEN m ELSE map[p][s]
  BY DEF Gossip
<1>c. \A p \in Masters, k \in Keys :
        val'[p][k] = IF p = n /\ n = "src" /\ SlotOf[k] \in new THEN 0 ELSE val[p][k]
  BY DEF Gossip
<1>d. migrating' = IF n = "src" THEN migrating \ new ELSE migrating
  BY DEF Gossip
<1>e. m \in {"src", "dst"} /\ n # m
  BY DEF Gossip, Claims, MoveInv, TypeOK
<1>f. n # "dst"
  <2> SUFFICES ASSUME n = "dst" PROVE FALSE
    OBVIOUS
  <2>1. PICK s \in Slots : s \in new
    BY DEF Gossip
  <2>2. Claims("dst", s) /\ epoch["dst"] < epoch["src"]
    BY <2>1, <1>e DEF Claims, MoveInv, TypeOK
  <2> QED
    BY <2>2 DEF MoveInv, TypeOK, NewerClaim
<1>g. \A s \in Slots : /\ Claims("dst", s)' <=> Claims("dst", s)
                       /\ Claims("src", s)' <=> (Claims("src", s) /\ ~(n = "src" /\ s \in new))
                       /\ n = "src" /\ s \in new => Claims("dst", s)
  BY <1>b, <1>e, <1>f DEF Claims, MoveInv, TypeOK
<1>h. \A k \in Keys : val'["src"][k] = val["src"][k] /\ val'["dst"][k] = val["dst"][k]
  BY <1>c, <1>f, <1>g DEF MoveInv, TypeOK, Drained
<1> HIDE DEF new
<1>1. TypeOK'
  <2>1. map' \in [Masters -> [Slots -> {"src", "dst"}]]
    BY <1>e DEF Gossip, MoveInv, TypeOK
  <2>2. val' \in [Masters -> [Keys -> Nat]]
    BY DEF Gossip, MoveInv, TypeOK
  <2> QED
    BY <1>a, <1>d, <2>1, <2>2 DEF MoveInv, TypeOK
<1>2. Progress'
  BY <1>a, <1>d, <1>g, <1>h DEF MoveInv, TypeOK, Progress
<1>3. FlipIsSafe'
  BY <1>a, <1>d, <1>g, <1>h DEF MoveInv, TypeOK, FlipIsSafe
<1>4. Drained'
  BY <1>a, <1>d, <1>g, <1>h DEF MoveInv, TypeOK, Drained
<1>5. NewerClaim'
  BY <1>a, <1>g DEF MoveInv, NewerClaim
<1>6. NoStaleCopy'
  BY <1>a, <1>d, <1>g, <1>h DEF MoveInv, TypeOK, NoStaleCopy
<1>7. OnePath'
  BY <1>a, <1>d, <1>g, <1>h DEF MoveInv, TypeOK, OnePath, Drained
<1>8. AskIsAccepted'
  BY <1>a, <1>d, <1>g DEF MoveInv, TypeOK, AskIsAccepted
<1>9. Latest'
  BY <1>a, <1>d, <1>g, <1>h DEF MoveInv, TypeOK, Drained, Latest, Home, Asked
<1> QED
  BY <1>1, <1>2, <1>3, <1>4, <1>5, <1>6, <1>7, <1>8, <1>9 DEF MoveInv

----------------------------------------------------------------------------

LEMMA StepIInv == MoveInv /\ [Next]_vars => MoveInv'
<1> SUFFICES ASSUME MoveInv, [Next]_vars PROVE MoveInv'
  OBVIOUS
<1>1. CASE Operator
  BY <1>1, PlanStep, ImportingStep, MigratingStep, CountStep, MigrateStep, EndDrainStep, NodeStep,
     ImportStep DEF Operator
<1>2. CASE Next /\ ~Operator
  BY <1>2, EndsStep, WriteStep, GossipStep DEF Next
<1>3. CASE UNCHANGED vars
  BY <1>3 DEF vars, MoveInv, TypeOK, Progress, FlipIsSafe, Drained, NewerClaim, NoStaleCopy, OnePath,
     AskIsAccepted, Latest, Home, Claims, Asked
<1> QED
  BY <1>1, <1>2, <1>3

\* The inductive invariant holds throughout.
THEOREM MoveInvariant == Spec => []MoveInv
BY InitMoveInv, StepIInv, PTL DEF Spec

\* At most one master executes commands on a key while reshardViaDance moves
\* its slot, for every range and however many commands fail.
THEOREM OneMasterServes == Spec => []OneServer
<1>1. MoveInv => OneServer
  <2> SUFFICES ASSUME MoveInv, NEW n \in Masters, NEW k \in Keys, Serves(n, k) PROVE n = Home(k)
    BY DEF OneServer
  <2> USE Constants
  <2>1. ~Claims("other", SlotOf[k])
    BY DEF Claims, MoveInv, TypeOK, Masters
  <2>2. n # "other"
    BY <2>1 DEF Serves
  <2>3. n = "src" => Claims("src", SlotOf[k]) /\ ~Asked("src", k)
    BY DEF Serves
  <2>4. n = "dst" => Claims("dst", SlotOf[k]) \/ (Claims("src", SlotOf[k]) /\ Asked("src", k))
    BY DEF Serves
  <2> QED
    BY <2>2, <2>3, <2>4 DEF Home, Asked, MoveInv, Drained
<1> QED
  BY <1>1, MoveInvariant, PTL

\* A redirected client is accepted: MIGRATING is never set on the source of a
\* slot the destination does not take.
THEOREM AsksAreAccepted == Spec => []AskIsAccepted
<1>1. MoveInv => AskIsAccepted
  BY DEF MoveInv
<1> QED
  BY <1>1, MoveInvariant, PTL

\* The nodes implement a single store of keys: no pass of moveSlotRange, and
\* no failure of one, loses an acknowledged write or revives an older one.
THEOREM MovePreservesKeys == Spec => StoreSpec
<1> DEFINE held == [k \in Keys |-> val[Home(k)][k]]
<1>1. MoveInv => held = last
  BY DEF MoveInv, TypeOK, Latest
<1>2. Init => Store!Init
  <2> SUFFICES ASSUME Init PROVE Store!Init
    OBVIOUS
  <2>1. held = last
    BY <1>1, InitMoveInv
  <2> QED
    BY <2>1, InitMoveInv DEF Store!Init, MoveInv, TypeOK
<1>3. MoveInv /\ MoveInv' /\ [Next]_vars => [Store!Next]_<<held, last>>
  <2> SUFFICES ASSUME MoveInv, MoveInv', [Next]_vars, <<held, last>>' # <<held, last>> PROVE Store!Next
    OBVIOUS
  <2>1. held = last /\ held' = last'
    BY <1>1 DEF MoveInv, TypeOK, Latest
  <2>2. PICK k \in Keys : last' = [last EXCEPT ![k] = @ + 1]
    BY <2>1 DEF Next, Operator, Plan, SetSlotsImporting, SetSlotsMigrating, CountKeys, MigrateKeys,
       EndDrain, SetSlotsNode, MigrationImport, MigrationEnds, Gossip, Write, vars
  <2> QED
    BY <2>1, <2>2 DEF Store!Next, Store!Put
<1> QED
  BY <1>2, <1>3, MoveInvariant, PTL DEF Spec, StoreSpec, Store!Spec
=============================================================================
