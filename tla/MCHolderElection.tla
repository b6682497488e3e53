-------------------------- MODULE MCHolderElection -------------------------
(***************************************************************************)
(* Every slice of up to three holders in every order, in two families: all *)
(* pairs of four replication ids and the empty one, and all pairs of three *)
(* offsets and two key counts.                                             *)
(***************************************************************************)
EXTENDS HolderElection

SlicesOf(ids, offsets, keys) ==
    LET H == [probed : {TRUE}, reachable : {TRUE}, ip : 1 .. 3, offset : offsets, keys : keys,
              replid : ids, replid2 : ids]
    IN  {s \in UNION {[1 .. n -> H] : n \in 1 .. 3} :
            \A a, b \in DOMAIN s : s[a].ip = s[b].ip => a = b}

FourIds     == 0 .. 4
Lineages    == SlicesOf(FourIds, {0}, {1})
Progress    == SlicesOf({1}, 0 .. 2, {1, 2})
ThreeSlices == Lineages \cup Progress
============================================================================
