------------------------------ MODULE SlotMove ------------------------------
(***************************************************************************)
(* One slot range moves from a master to an empty one with its keys, while *)
(* clients write: moveSlotRange, by native atomic slot migration or by the *)
(* dance of reshardViaDance (IMPORTING, MIGRATING, MIGRATE, SETSLOT NODE), *)
(* one pass of the reconcile loop after the other.                         *)
(*                                                                         *)
(* map[n][s]    the owner of slot s in node n's slot map                   *)
(* epoch[n]     n's configuration epoch                                    *)
(* importing    the slots marked IMPORTING on the destination              *)
(* migrating    the slots marked MIGRATING on the source                   *)
(* val[n][k]    the version of key k that n stores, 0 if none              *)
(* last[k]      the last version a client was acknowledged                 *)
(* op           the pass: where it is, which nodes are still to be told of *)
(*              the new owner, how many keys it may still move             *)
(* asm          the engine migrates slots atomically                       *)
(* task         its migration task: "none", "running" or "failed"          *)
(* errors       the commands that may still fail                           *)
(* brittle      SETSLOT NODE may be among them                             *)
(*                                                                         *)
(* The commands' effects on a node, redirections and gossip are Redis's,   *)
(* modelled from what the executor relies on.                              *)
(***************************************************************************)
EXTENDS Integers, FiniteSets

CONSTANTS Slots,        \* the slots of the range, a set of integers
          Keys,         \* the keys of the range
          SlotOf,       \* the slot of each key
          MaxVersion,   \* how often a client writes one key
          MaxKeys,      \* reshardMaxKeysPerReconcile
          MaxErrors     \* how many commands fail

ASSUME SlotMoveConstants ==
    /\ Slots \subseteq Int /\ IsFiniteSet(Slots) /\ SlotOf \in [Keys -> Slots]
    /\ MaxVersion \in Nat /\ MaxKeys \in Nat \ {0} /\ MaxErrors \in Nat

VARIABLES map, epoch, importing, migrating, val, last, op, asm, task, errors, brittle

redis == <<map, epoch, importing, migrating, val, task>>
vars  == <<map, epoch, importing, migrating, val, task, last, op, errors, asm, brittle>>
engine == <<asm, brittle>>

\* The source, the destination, and a master that takes no part.
Masters == {"src", "dst", "other"}

At(pc) == [pc |-> pc, told |-> {}, left |-> 0]
Idle == At("plan")

Claims(n, s) == map[n][s] = n
KeysIn(n, s) == {k \in Keys : SlotOf[k] = s /\ val[n][k] > 0}

----------------------------------------------------------------------------
(* Clients and gossip.                                                     *)

\* The node that executes a command on k sent to the claimant n: a slot that
\* is migrating and lacks the key is asked of the destination.
Asked(n, k)  == n = "src" /\ SlotOf[k] \in migrating /\ val[n][k] = 0
Serves(n, k) ==
    \/ Claims(n, SlotOf[k]) /\ ~Asked(n, k)
    \/ n = "dst" /\ SlotOf[k] \in importing /\ Claims("src", SlotOf[k]) /\ Asked("src", k)

Higher(a, b) == IF a < b THEN b ELSE a
TopEpoch == Higher(epoch["src"], Higher(epoch["dst"], epoch["other"]))

Write(k) == \E n \in Masters :
    /\ last[k] < MaxVersion /\ Serves(n, k)
    /\ last' = [last EXCEPT ![k] = @ + 1]
    /\ val' = [val EXCEPT ![n][k] = last'[k]]
    /\ UNCHANGED <<map, epoch, importing, migrating, task, op, errors, engine>>

\* n learns the claims of m.  A source that loses a slot drops its keys.
Gossip(n, m) ==
    LET new == {s \in Slots : Claims(m, s) /\ map[n][s] # m /\ epoch[map[n][s]] < epoch[m]}
    IN  /\ n # m /\ new # {}
        /\ map' = [p \in Masters |-> [s \in Slots |-> IF p = n /\ s \in new THEN m ELSE map[p][s]]]
        /\ val' = [p \in Masters |->
                     [k \in Keys |-> IF p = n /\ n = "src" /\ SlotOf[k] \in new THEN 0 ELSE val[p][k]]]
        /\ migrating' = IF n = "src" THEN migrating \ new ELSE migrating
        /\ UNCHANGED <<epoch, importing, task, last, op, errors, engine>>

----------------------------------------------------------------------------
(* The pass.                                                               *)

\* A command, pipelined over the slots in order, fails after some of them.
Prefixes == {{s \in Slots : s < b} : b \in Slots}
Fails == errors > 0 /\ errors' = errors - 1 /\ op' = Idle
Pass(next) == op' = next /\ UNCHANGED errors

\* PlanReshard emits the move while the source reports the whole range, and
\* nothing otherwise.
Plan ==
    /\ op.pc = "plan"
    /\ Pass(IF \E s \in Slots : ~Claims("src", s) THEN Idle
            ELSE IF asm THEN At("import") ELSE At("importing"))
    /\ UNCHANGED <<redis, last, engine>>

SkipsImporting ==                                                  \* mutant
    op.pc = "importing" /\ Pass(At("migrating")) /\ UNCHANGED <<redis, last, engine>>

\* ClusterSetSlotsImporting on the destination, which refuses what it owns.
SetSlotsImporting ==
    LET open == {s \in Slots : ~Claims("dst", s)}
    IN  /\ op.pc = "importing"
        /\ \/ importing' = importing \cup open /\ Pass(IF open = Slots THEN At("migrating") ELSE Idle)
           \/ \E S \in Prefixes : importing' = importing \cup (open \cap S) /\ Fails
        /\ UNCHANGED <<map, epoch, migrating, val, task, last, engine>>

\* ClusterSetSlotsMigrating on the source, which refuses what it does not own.
SkipsMigrating ==                                                  \* mutant
    op.pc = "migrating" /\ Pass(At("count")) /\ UNCHANGED <<redis, last, engine>>

SetSlotsMigrating ==
    LET owned == {s \in Slots : Claims("src", s)}
    IN  /\ op.pc = "migrating"
        /\ \/ migrating' = migrating \cup owned /\ Pass(IF owned = Slots THEN At("count") ELSE Idle)
           \/ \E S \in Prefixes : migrating' = migrating \cup (owned \cap S) /\ Fails
        /\ UNCHANGED <<map, epoch, importing, val, task, last, engine>>

\* ClusterCountKeysInSlots: a range without keys on the source is flipped, any
\* other is drained.
SlotsNeedingDrain == {s \in Slots : KeysIn("src", s) # {}}
CountKeys ==
    /\ op.pc = "count"
    /\ \/ IF SlotsNeedingDrain = {} THEN Pass([pc |-> "flip", told |-> Masters, left |-> 0])
          ELSE Pass([pc |-> "drain", told |-> {}, left |-> MaxKeys])
       \/ Fails
    /\ UNCHANGED <<redis, last, engine>>

KeepsOlder(k) ==                                                   \* mutant
    LET sent == [val EXCEPT !["dst"][k] = IF @ = 0 THEN val["src"][k] ELSE @]
    IN  /\ op.pc = "drain" /\ op.left > 0 /\ val["src"][k] > 0
        /\ \/ val' = [sent EXCEPT !["src"][k] = 0] /\ Pass([op EXCEPT !.left = @ - 1])
           \/ val' \in {val, sent} /\ Fails
        /\ UNCHANGED <<map, epoch, importing, migrating, task, last, engine>>

\* One batch: GETKEYSINSLOT and MIGRATE REPLACE.  MIGRATE may fail before it
\* sends a key, or after the destination stored it.
MigrateKeys(k) ==
    LET sent == [val EXCEPT !["dst"][k] = val["src"][k]]
    IN  /\ op.pc = "drain" /\ op.left > 0 /\ val["src"][k] > 0
        /\ \A j \in Keys : val["src"][j] > 0 => SlotOf[k] =< SlotOf[j]
        /\ \/ val' = [sent EXCEPT !["src"][k] = 0] /\ Pass([op EXCEPT !.left = @ - 1])
           \/ val' \in {val, sent} /\ Fails
        /\ UNCHANGED <<map, epoch, importing, migrating, task, last, engine>>

EndDrain ==
    /\ op.pc = "drain" /\ (op.left = 0 \/ SlotsNeedingDrain = {})
    /\ Pass(Idle)
    /\ UNCHANGED <<redis, last, engine>>

\* SETSLOT NODE on master n.  The source refuses a slot whose keys it still
\* holds; the destination bumps its epoch as it takes an importing slot.
Flipped(n, S) ==
    /\ map' = [p \in Masters |-> [s \in Slots |-> IF p = n /\ s \in S THEN "dst" ELSE map[p][s]]]
    /\ importing' = IF n = "dst" THEN importing \ S ELSE importing
    /\ migrating' = IF n = "src" THEN migrating \ S ELSE migrating
    /\ epoch' = IF n = "dst" /\ S \cap importing # {}
                THEN [epoch EXCEPT !["dst"] = TopEpoch + 1] ELSE epoch

SourceOnly(n) ==                                                  \* mutant
    /\ op.pc = "flip" /\ n = "src"
    /\ Flipped(n, Slots) /\ Pass(Idle) /\ UNCHANGED <<val, task, last, engine>>

\* reachableMasterAddrs ranges over a map: the masters are told in any order.
SetSlotsNode(n) ==
    LET free == {s \in Slots : n # "src" \/ ~Claims(n, s) \/ KeysIn(n, s) = {}}
    IN  /\ op.pc = "flip" /\ n \in op.told
        /\ \/ /\ Flipped(n, free)
              /\ Pass(IF free # Slots \/ op.told = {n} THEN Idle ELSE [op EXCEPT !.told = @ \ {n}])
           \/ \E S \in Prefixes : brittle /\ Flipped(n, free \cap S) /\ Fails
        /\ UNCHANGED <<val, task, last, engine>>

\* Native migration: a pass waits while a task is in flight, else it imports;
\* the import may start though its reply is lost, and a destination that owns
\* the range by now refuses it.
MigrationImport ==
    /\ op.pc = "import"
    /\ \/ task' = "running" /\ (\A s \in Slots : ~Claims("dst", s)) /\ (Pass(Idle) \/ Fails)
       \/ UNCHANGED task /\ Pass(Idle) /\ \E s \in Slots : Claims("dst", s)
       \/ UNCHANGED task /\ Fails
    /\ UNCHANGED <<map, epoch, importing, migrating, val, last, engine>>

\* The task ends: the range and its keys change hands at once, or it fails.
MigrationEnds ==
    /\ task = "running"
    /\ \/ /\ task' = "none" /\ UNCHANGED errors
          /\ map' = [n \in Masters |-> [s \in Slots |-> IF n = "other" THEN map[n][s] ELSE "dst"]]
          /\ epoch' = [epoch EXCEPT !["dst"] = TopEpoch + 1]
          /\ val' = [n \in Masters |-> [k \in Keys |-> IF n = "dst" THEN val["src"][k] ELSE 0]]
       \/ /\ errors > 0 /\ errors' = errors - 1 /\ task' = "failed"
          /\ UNCHANGED <<map, epoch, val>>
    /\ UNCHANGED <<importing, migrating, last, op, engine>>

----------------------------------------------------------------------------

Init ==
    /\ map = [n \in Masters |-> [s \in Slots |-> "src"]]
    /\ epoch = [n \in Masters |-> IF n = "src" THEN 1 ELSE IF n = "other" THEN 2 ELSE 0]
    /\ importing = {} /\ migrating = {}
    /\ last \in [Keys -> {0, 1}]
    /\ val = [n \in Masters |-> [k \in Keys |-> IF n = "src" THEN last[k] ELSE 0]]
    /\ op = Idle /\ asm \in BOOLEAN /\ brittle \in BOOLEAN /\ task = "none" /\ errors = MaxErrors

Operator ==
    \/ Plan \/ SetSlotsImporting \/ SetSlotsMigrating \/ CountKeys
    \/ \E k \in Keys : MigrateKeys(k)
    \/ EndDrain \/ \E n \in Masters : SetSlotsNode(n)
    \/ MigrationImport

Next ==
    \/ Operator \/ MigrationEnds
    \/ \E k \in Keys : Write(k)
    \/ \E n, m \in Masters : Gossip(n, m)

Spec == Init /\ [][Next]_vars

\* The reconcile loop runs again after every pass, Redis ends its tasks, and
\* gossip reaches every node.
FairSpec ==
    /\ Spec /\ WF_vars(Operator) /\ WF_vars(MigrationEnds)
    /\ \A n, m \in Masters : WF_vars(Gossip(n, m))

----------------------------------------------------------------------------

\* Every variable keeps its type, and a pass moves no more keys than it may.
TypeOK ==
    /\ map \in [Masters -> [Slots -> {"src", "dst"}]]
    /\ epoch \in [Masters -> Nat]
    /\ importing \subseteq Slots /\ migrating \subseteq Slots
    /\ val \in [Masters -> [Keys -> Nat]] /\ last \in [Keys -> Nat]
    /\ op \in [pc : {"plan", "importing", "migrating", "count", "drain", "flip", "import"},
               told : SUBSET Masters, left : Nat]
    /\ asm \in BOOLEAN /\ brittle \in BOOLEAN /\ task \in {"none", "running", "failed"} /\ errors \in Nat

\* No two masters execute commands on the same key, though the flip reaches
\* them one by one.
OneServer == \A n, m \in Masters, k \in Keys : Serves(n, k) /\ Serves(m, k) => n = m

\* A slot is marked MIGRATING on its owner only while the destination takes
\* what is asked of it, in any pass and after any failure: reshardViaDance
\* marks the destination first.
AskIsAccepted == \A s \in migrating : Claims("src", s) => s \in importing \/ Claims("dst", s)

\* The destination ends up owning the range in every node's slot map, however
\* the passes before failed: the markers on the nodes resume the move.
MoveResumes == <>[](\A n \in Masters, s \in Slots : map[n][s] = "dst")

\* It does as long as no SETSLOT NODE fails.
MoveCompletes == ~brittle => MoveResumes

\* Where k is: on the node that serves it, on the destination while none does.
Home(k) == IF Claims("src", SlotOf[k]) /\ ~Asked("src", k) THEN "src" ELSE "dst"

\* The refinement mapping: a key's value is the one at its home.
Store == INSTANCE KeyStore WITH store <- [k \in Keys |-> val[Home(k)][k]], acked <- last

\* The nodes together implement one store of keys: MIGRATE, its failures, the
\* ASK redirections between its batches and the flip of the owner lose no
\* acknowledged write and bring back no older one.
StoreSpec == Store!Spec

----------------------------------------------------------------------------
(* The inductive invariant.                                                *)

\* What the pass has established at each of its steps.
Progress ==
    /\ op.pc = "importing" => \A s \in Slots : Claims("src", s) \/ Claims("dst", s)
    /\ op.pc \in {"migrating", "count", "drain"} =>
          \A s \in Slots : Claims("src", s) /\ ~Claims("dst", s) /\ s \in importing
    /\ op.pc \in {"count", "drain"} => \A s \in Slots : s \in migrating

\* Ownership may change hands: the source has no key, and takes no new one.
FlipIsSafe ==
    op.pc = "flip" =>
        /\ \A s \in Slots : /\ Claims("src", s) => s \in migrating
                            /\ s \in importing \/ Claims("dst", s)
        /\ \A k \in Keys : val["src"][k] = 0

\* The source has nothing left of what the destination claims or it gave up.
Drained ==
    /\ \A s \in Slots : Claims("dst", s) /\ Claims("src", s) => s \in migrating
    /\ \A k \in Keys : Claims("dst", SlotOf[k]) \/ ~Claims("src", SlotOf[k]) => val["src"][k] = 0

\* The claim of the destination is the newer one.
NewerClaim == \A s \in Slots : Claims("dst", s) => epoch["src"] < epoch["dst"]

\* A copy on the destination, left by a MIGRATE that failed half way, exists
\* only while its slot migrates.
NoStaleCopy ==
    \A k \in Keys : Claims("src", SlotOf[k]) /\ SlotOf[k] \notin migrating => val["dst"][k] = 0

\* The native path and the dance exclude each other.
OnePath ==
    /\ asm => /\ importing = {} /\ migrating = {} /\ op.pc \in {"plan", "import"}
              /\ \A s \in Slots : Claims("dst", s) <=> ~Claims("src", s)
    /\ ~asm => task = "none" /\ op.pc # "import"
    /\ task = "running" => \A s \in Slots : Claims("src", s)

\* The version at a key's home is the last one acknowledged.
Latest == \A k \in Keys : val[Home(k)][k] = last[k]

\* What every step of a pass, of its failures, of the clients and of gossip
\* preserves, from which OneServer and StoreSpec follow.
MoveInv == /\ TypeOK /\ Progress /\ FlipIsSafe /\ Drained /\ NewerClaim
           /\ NoStaleCopy /\ OnePath /\ AskIsAccepted /\ Latest
=============================================================================
