-------------------------- MODULE MCSentinelNames --------------------------
(* Two pods and three Sentinels; each scenario has its own initial data and *)
(* its own small budget of edits, writes and faults.                        *)
EXTENDS SentinelNames

Departed == [p \in {"r0", "r1"} |-> IF p = "r0" THEN "ghost0" ELSE "ghost1"]

Quiet == [edits |-> 0, writes |-> 0, evictions |-> 0, sentinels |-> 0, captures |-> 0,
          probes |-> 0, errors |-> 0, auth |-> TRUE, data |-> "own"]

Renames ==
    {[Quiet EXCEPT !.edits = 2, !.data = "none"], [Quiet EXCEPT !.edits = 1, !.errors = 1]}
    \cup {[Quiet EXCEPT !.edits = 1, ![f] = 1, !.data = "none"] : f \in {"evictions", "sentinels"}}
Captures ==
    {[Quiet EXCEPT !.captures = 2, !.probes = 2, !.auth = a, !.data = d] :
        a \in BOOLEAN, d \in {"none", "own"}}
    \cup {[Quiet EXCEPT !.captures = 1, !.writes = 1, !.data = "none"],
          [Quiet EXCEPT !.captures = 1, !.edits = 1]}
RenamesAndCaptures == Renames \cup Captures
=============================================================================
