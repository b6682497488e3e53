----------------------------- MODULE MCSlotMove -----------------------------
(* Two slots; slot 1 has two keys, so that it may need two passes to drain. *)
EXTENDS SlotMove

TwoSlots   == {1, 2}
ThreeKeys  == {"a", "b", "c"}
KeySlots   == [k \in ThreeKeys |-> IF k = "c" THEN 2 ELSE 1]
=============================================================================
