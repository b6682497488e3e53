---------------------------- MODULE MCSentinel ----------------------------
(* A fresh instance and a formed one, with small budgets of faults. *)
EXTENDS Sentinel

NoFaults ==
    [crashes |-> 0, losses |-> 0, deletes |-> 0, sentinels |-> 0,
     timeouts |-> 0, probes |-> 0, refusals |-> 0, errors |-> 0]
Faults == DOMAIN NoFaults

Started3 == [p \in Pods |-> [Blank("up") EXCEPT !.of = IF p = "r0" THEN None ELSE "r0", !.data = TRUE]]
Settled3 ==
    [s \in Sentinels |-> [Bare EXCEPT !.master = "r0", !.known = Pods \ {"r0"}, !.seen = TRUE]]

New(b)    == [redis |-> [p \in Pods |-> Blank("gone")], sentinel |-> [s \in Sentinels |-> Bare],
              bootstrap |-> TRUE, budget |-> b]
Formed(b) == [redis |-> Started3, sentinel |-> Settled3, bootstrap |-> FALSE, budget |-> b]

\* A fault of a Redis pod together with one of another kind, the loss of
\* every Sentinel.
One(f)    == [NoFaults EXCEPT ![f] = 1]
Two(f, g) == [NoFaults EXCEPT ![f] = 1, ![g] = 1]
Budgets ==
    {One(f) : f \in Faults}
    \cup {Two(f, g) : f \in {"losses", "deletes"},
                      g \in {"sentinels", "timeouts", "probes", "refusals", "errors"}}
    \cup {Two("crashes", g) : g \in {"timeouts", "refusals", "errors"}}
    \cup {[NoFaults EXCEPT !.sentinels = 3, ![f] = 1] : f \in {"refusals", "errors"}}
    \cup {[Two("losses", "sentinels") EXCEPT !.errors = 1]}

\* Every Sentinel, the master and a replica were replaced together.
Bereft(b) ==
    [redis |-> [p \in Pods |-> IF p # "r1" THEN Blank("down")
                               ELSE [Blank("up") EXCEPT !.of = Ghost, !.data = TRUE]],
     sentinel |-> [s \in Sentinels |-> Bare], bootstrap |-> FALSE, budget |-> b]

OneByOne ==
    {New(One(f)) : f \in Faults} \cup {Formed(b) : b \in Budgets}
    \cup {Bereft(One(f)) : f \in {"crashes", "refusals", "errors"}}
=============================================================================
