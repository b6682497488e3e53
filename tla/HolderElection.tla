--------------------------- MODULE HolderElection --------------------------
(***************************************************************************)
(* BestDataHolder and holdersDiverged as the code computes them: three     *)
(* loops over the slice of data holders, the last two over a union-find    *)
(* forest with path compression.  The slice comes from a Go map, so its    *)
(* order is arbitrary.  The results are compared with the definitions that *)
(* FailoverPlan.tla, and through it the failover protocol, uses.           *)
(***************************************************************************)
EXTENDS FailoverPlan, Sequences

CONSTANTS
    Ids,         \* replication ids; 0 is the empty or all-zero id
    Slices       \* the slices of data holders to look at

\* A reachable node with data.  The nodes of a gather have different addresses.
IsHolder(h) ==
    /\ h.probed /\ h.reachable /\ {h.replid, h.replid2} \subseteq Ids
    /\ h.ip \in Nat /\ h.offset \in Nat /\ h.keys \in Nat \ {0}

ASSUME IdsAssumption    == IsFiniteSet(Ids) /\ Ids \subseteq Nat
ASSUME SlicesAssumption ==
    \A s \in Slices : /\ s \in Seq({s[k] : k \in DOMAIN s}) /\ s # <<>>
                      /\ \A k \in DOMAIN s : IsHolder(s[k])
                      /\ \A k, l \in DOMAIN s : s[k].ip = s[l].ip => k = l

VARIABLES
    holders,     \* the slice
    loop,        \* the loop that runs: "best", "connect", "count" or "done"
    i,           \* its index
    best,        \* index of the best holder so far
    parent,      \* the forest; an id the map lacks has parent 0
    comps        \* the components counted; -k for a k-th holder without ids
vars == <<holders, loop, i, best, parent, comps>>

Init ==
    /\ holders \in Slices
    /\ loop = "best" /\ i = 1 /\ best = 1
    /\ parent = [x \in Ids \ {0} |-> 0]
    /\ comps = {}

----------------------------------------------------------------------------
(* The loop over offsets, key counts and addresses.                        *)

KeysFirst(h, b) ==                                                 \* mutant
    h.keys > b.keys \/ (h.keys = b.keys /\ h.ip < b.ip)
Better(h, b) ==
    \/ h.offset > b.offset
    \/ h.offset = b.offset /\ h.keys > b.keys
    \/ h.offset = b.offset /\ h.keys = b.keys /\ h.ip < b.ip

\* After the last element comes the next loop.
Advance(next) ==
    IF i < Len(holders) THEN i' = i + 1 /\ UNCHANGED loop ELSE i' = 1 /\ loop' = next

Compare ==
    /\ loop = "best"
    /\ best' = IF Better(holders[i], holders[best]) THEN i ELSE best
    /\ Advance("connect")
    /\ UNCHANGED <<holders, parent, comps>>

----------------------------------------------------------------------------
(* The forest.                                                             *)

\* The ids on the way from x up to its root: the least set with x that its
\* parents do not lead out of.
Path(f, x) ==
    {y \in DOMAIN f : \A S \in SUBSET DOMAIN f : x \in S /\ (\A z \in S : f[z] \in S) => y \in S}

\* find: an unknown id becomes a root; every id on the way is hung below the root.
Known(f, x) == IF f[x] = 0 THEN [f EXCEPT ![x] = x] ELSE f
Root(f, x)  == CHOOSE r \in Path(Known(f, x), x) : Known(f, x)[r] = r
Find(f, x)  == [y \in DOMAIN f |-> IF y \in Path(Known(f, x), x) THEN Root(f, x) ELSE f[y]]

Union(f, a, b) == LET g == Find(Find(f, a), b) IN [g EXCEPT ![Root(g, a)] = Root(g, b)]

CurrentIdOnly(f, h) == IF h.replid # 0 THEN Find(f, h.replid) ELSE f \* mutant
Connected(f, h) ==
    IF h.replid # 0 /\ h.replid2 # 0 THEN Union(f, h.replid, h.replid2)
    ELSE IF h.replid # 0 THEN Find(f, h.replid)
    ELSE IF h.replid2 # 0 THEN Find(f, h.replid2)
    ELSE f

Connect ==
    /\ loop = "connect"
    /\ parent' = Connected(parent, holders[i])
    /\ Advance("count")
    /\ UNCHANGED <<holders, best, comps>>

Count ==
    /\ loop = "count"
    /\ LET h == holders[i]
           x == IF h.replid # 0 THEN h.replid ELSE h.replid2
       IN  IF x # 0 THEN parent' = Find(parent, x) /\ comps' = comps \cup {Root(parent, x)}
                    ELSE comps' = comps \cup {-i} /\ UNCHANGED parent
    /\ Advance("done")
    /\ UNCHANGED <<holders, best>>

Done == loop = "done" /\ UNCHANGED vars

Next == Compare \/ Connect \/ Count \/ Done
Spec == Init /\ [][Next]_vars

----------------------------------------------------------------------------
(* Properties.                                                             *)

\* holdersDiverged says yes exactly when the holders split into two groups that
\* share no replication id: never for a promotion chain, whose ids connect
\* through a third holder only, always for independent histories.
DivergedExactly ==
    loop = "done" => (Cardinality(comps) > 1 <=> holdersDiverged(holders))

\* Whatever the order of the slice, BestDataHolder returns the same holder: one
\* of highest offset and then most keys, the one with the smallest address.
BestIsBest ==
    loop # "best" =>
        /\ best \in BestDataHolders(holders)
        /\ \A b \in BestDataHolders(holders) : holders[best].ip =< holders[b].ip
============================================================================
