----------------------- MODULE HolderElection_proofs -----------------------
(***************************************************************************)
(* BestDataHolder returns the best holder, and holdersDiverged counts the  *)
(* lineages, of every slice of holders with any replication ids.           *)
(*                                                                         *)
(* The forest is described by the sets of ids it cannot tell apart: a set  *)
(* is saturated when no parent leads into or out of it.  Path compression  *)
(* changes the forest and none of its saturated sets; a union leaves those *)
(* that have both ids or neither.  So the saturated sets after the connect *)
(* loop are the ones every holder is wholly inside or wholly outside of,   *)
(* and two ids have one root exactly when no such set parts them.          *)
(***************************************************************************)
EXTENDS HolderElection, FiniteSetTheorems, TLAPS

RealIds     == Ids \ {0}
KnownIds(f) == {x \in RealIds : f[x] # 0}
Closed(f, S) == \A z \in S : f[z] \in S

\* Parents are known, and no way up runs in a circle: what the way up never
\* leaves has a root in it.
Forest(f) ==
    /\ f \in [RealIds -> Ids \cup {0}]
    /\ Closed(f, KnownIds(f))
    /\ \A S \in SUBSET KnownIds(f) : S # {} /\ Closed(f, S) => \E r \in S : f[r] = r

Saturated(f, T) == \A y \in KnownIds(f) : y \in T <=> f[y] \in T

----------------------------------------------------------------------------
(* The way up.                                                             *)

LEMMA PathFacts ==
    ASSUME NEW f, Forest(f), NEW x \in KnownIds(f)
    PROVE  /\ x \in Path(f, x)
           /\ Path(f, x) \subseteq KnownIds(f)
           /\ Closed(f, Path(f, x))
           /\ \A S \in SUBSET RealIds : x \in S /\ Closed(f, S) => Path(f, x) \subseteq S
<1>1. DOMAIN f = RealIds /\ x \in RealIds /\ KnownIds(f) \in SUBSET RealIds /\ Closed(f, KnownIds(f))
  BY DEF Forest, KnownIds
<1>2. Path(f, x) = {y \in RealIds : \A S \in SUBSET RealIds : x \in S /\ Closed(f, S) => y \in S}
  BY <1>1 DEF Path, Closed
<1> HIDE DEF KnownIds
<1>3. x \in Path(f, x)
  BY <1>1, <1>2
<1>4. \A S \in SUBSET RealIds : x \in S /\ Closed(f, S) => Path(f, x) \subseteq S
  BY <1>2
<1>5. Path(f, x) \subseteq KnownIds(f)
  BY <1>1, <1>4
<1>6. ASSUME NEW z \in Path(f, x)
      PROVE  f[z] \in Path(f, x)
  <2>1. f[z] \in RealIds
    BY <1>1, <1>5 DEF Closed
  <2>2. ASSUME NEW S \in SUBSET RealIds, x \in S, Closed(f, S)
        PROVE  f[z] \in S
    BY <1>4, <2>2 DEF Closed
  <2> QED BY <1>2, <2>1, <2>2
<1> QED BY <1>3, <1>4, <1>5, <1>6 DEF Closed

\* The way up from an id stays inside every saturated set the id is in, and
\* outside of every one it is not in.
LEMMA PathIsTogether ==
    ASSUME NEW f, Forest(f), NEW x \in KnownIds(f), NEW T \in SUBSET RealIds, Saturated(f, T),
           NEW y \in Path(f, x)
    PROVE  x \in T <=> y \in T
<1> DEFINE S == {z \in KnownIds(f) : z \in T <=> x \in T}
<1>1. S \in SUBSET RealIds /\ x \in S
  BY DEF KnownIds
<1>2. Closed(f, KnownIds(f))
  BY DEF Forest
<1>3. ASSUME NEW z \in S PROVE f[z] \in S
  BY <1>2 DEF Closed, Saturated
<1>4. Closed(f, S)
  BY <1>3 DEF Closed
<1> HIDE DEF S
<1>5. Path(f, x) \subseteq S
  BY <1>1, <1>4, PathFacts
<1> QED BY <1>5 DEF S

\* The ids below a root form a saturated set, which has no other root.
LEMMA BelowIsSaturated ==
    ASSUME NEW f, Forest(f), NEW r \in KnownIds(f), f[r] = r
    PROVE  \E T \in SUBSET RealIds :
             /\ Saturated(f, T) /\ r \in T
             /\ \A s \in T : f[s] = s => s = r
<1> DEFINE T == {z \in KnownIds(f) : r \in Path(f, z)}
<1>1. T \in SUBSET RealIds
  BY DEF KnownIds
<1>2. r \in T
  BY PathFacts
<1>3. ASSUME NEW s \in T, f[s] = s PROVE s = r
  <2>1. {s} \in SUBSET RealIds /\ Closed(f, {s})
    BY <1>1, <1>3 DEF Closed
  <2>2. Path(f, s) \subseteq {s}
    BY <2>1, PathFacts
  <2> QED BY <2>2
<1>4. ASSUME NEW y \in KnownIds(f) PROVE y \in T <=> f[y] \in T
  <2>1. f[y] \in KnownIds(f)
    BY DEF Forest, Closed
  <2>2. /\ y \in Path(f, y) /\ Closed(f, Path(f, y)) /\ Path(f, y) \in SUBSET RealIds
        /\ \A S \in SUBSET RealIds : y \in S /\ Closed(f, S) => Path(f, y) \subseteq S
    BY PathFacts DEF KnownIds
  <2>3. /\ f[y] \in Path(f, f[y]) /\ Closed(f, Path(f, f[y])) /\ Path(f, f[y]) \in SUBSET RealIds
        /\ \A S \in SUBSET RealIds : f[y] \in S /\ Closed(f, S) => Path(f, f[y]) \subseteq S
    BY <2>1, PathFacts DEF KnownIds
  <2>4. Path(f, f[y]) \subseteq Path(f, y)
    BY <2>2, <2>3 DEF Closed
  <2>5. Path(f, y) \subseteq {y} \cup Path(f, f[y])
    <3> DEFINE U == {y} \cup Path(f, f[y])
    <3>1. U \in SUBSET RealIds /\ y \in U
      BY <2>3 DEF KnownIds
    <3>2. Closed(f, U)
      BY <2>3 DEF Closed
    <3> HIDE DEF U
    <3>3. Path(f, y) \subseteq U
      BY <2>2, <3>1, <3>2
    <3> QED BY <3>3 DEF U
  <2>6. ASSUME r \in Path(f, y) PROVE r \in Path(f, f[y])
    <3>1. CASE r = y
      BY <2>3, <3>1
    <3>2. CASE r # y
      BY <2>5, <2>6, <3>2
    <3> QED BY <3>1, <3>2
  <2> QED BY <2>1, <2>4, <2>6
<1>5. Saturated(f, T)
  BY <1>4 DEF Saturated
<1> QED BY <1>1, <1>2, <1>3, <1>5

----------------------------------------------------------------------------
(* find and union.                                                         *)

LEMMA KnownKeeps ==
    ASSUME NEW f, Forest(f), NEW x \in RealIds
    PROVE  /\ Forest(Known(f, x)) /\ x \in KnownIds(Known(f, x))
           /\ \A y \in RealIds : y # x => Known(f, x)[y] = f[y]
           /\ \A y \in RealIds : f[y] = y => Known(f, x)[y] = y
           /\ \A T \in SUBSET RealIds : Saturated(Known(f, x), T) <=> Saturated(f, T)
<1> DEFINE g == Known(f, x)
<1>0. f \in [RealIds -> Ids \cup {0}] /\ x \in Ids /\ x # 0 /\ 0 \notin RealIds
  BY DEF Forest, RealIds
<1>1. CASE f[x] # 0
  <2>1. g = f
    BY <1>1 DEF Known
  <2> QED BY <1>0, <1>1, <2>1 DEF KnownIds
<1>2. CASE f[x] = 0
  <2>1. /\ g \in [RealIds -> Ids \cup {0}] /\ g[x] = x
        /\ \A y \in RealIds : y # x => g[y] = f[y]
    BY <1>0, <1>2 DEF Known
  <2> HIDE DEF g
  <2>2. KnownIds(g) = KnownIds(f) \cup {x} /\ x \notin KnownIds(f)
    BY <1>0, <1>2, <2>1 DEF KnownIds
  <2>3. \A z \in KnownIds(f) : g[z] = f[z] /\ f[z] \in KnownIds(f)
    BY <2>1, <2>2 DEF Forest, Closed, KnownIds
  <2>4. Closed(g, KnownIds(g))
    BY <2>1, <2>2, <2>3 DEF Closed
  <2>5. ASSUME NEW S \in SUBSET KnownIds(g), S # {}, Closed(g, S)
        PROVE  \E r \in S : g[r] = r
    <3>1. CASE x \in S
      BY <2>1, <3>1
    <3>2. CASE x \notin S
      <4>1. S \in SUBSET KnownIds(f) /\ Closed(f, S)
        BY <2>2, <2>3, <2>5, <3>2 DEF Closed
      <4>2. PICK r \in S : f[r] = r
        BY <2>5, <4>1 DEF Forest
      <4> QED BY <2>3, <4>1, <4>2
    <3> QED BY <3>1, <3>2
  <2>6. ASSUME NEW T \in SUBSET RealIds PROVE Saturated(g, T) <=> Saturated(f, T)
    BY <2>1, <2>2, <2>3 DEF Saturated
  <2>7. \A y \in RealIds : f[y] = y => g[y] = y
    BY <2>1
  <2>8. Forest(g)
    BY <2>1, <2>4, <2>5 DEF Forest
  <2>9. g = Known(f, x)
    BY DEF g
  <2> QED BY <2>1, <2>2, <2>6, <2>7, <2>8, <2>9
<1> QED BY <1>1, <1>2

LEMMA RootFacts ==
    ASSUME NEW f, Forest(f), NEW x \in RealIds
    PROVE  /\ Root(f, x) \in Path(Known(f, x), x) /\ Root(f, x) \in RealIds
           /\ Known(f, x)[Root(f, x)] = Root(f, x)
           /\ \A T \in SUBSET RealIds : Saturated(f, T) => (x \in T <=> Root(f, x) \in T)
<1> DEFINE g == Known(f, x)
<1>1. Forest(g) /\ x \in KnownIds(g) /\ \A T \in SUBSET RealIds : Saturated(g, T) <=> Saturated(f, T)
  BY KnownKeeps
<1>2. Root(f, x) = CHOOSE r \in Path(g, x) : g[r] = r
  BY DEF Root
<1> HIDE DEF g
<1>3. Path(g, x) \in SUBSET KnownIds(g) /\ Path(g, x) # {} /\ Closed(g, Path(g, x))
  BY <1>1, PathFacts
<1>4. \E r \in Path(g, x) : g[r] = r
  BY <1>1, <1>3 DEF Forest
<1>5. Root(f, x) \in Path(g, x) /\ g[Root(f, x)] = Root(f, x)
  BY <1>2, <1>4
<1>6. Root(f, x) \in RealIds
  BY <1>3, <1>5 DEF KnownIds
<1>7. ASSUME NEW T \in SUBSET RealIds, Saturated(f, T) PROVE x \in T <=> Root(f, x) \in T
  BY <1>1, <1>5, <1>7, PathIsTogether
<1> QED BY <1>5, <1>6, <1>7 DEF g

\* find hangs the way up below the root: the forest stays one, its roots stay
\* roots, and its saturated sets are the same.
LEMMA FindKeeps ==
    ASSUME NEW f, Forest(f), NEW x \in RealIds
    PROVE  /\ Forest(Find(f, x)) /\ x \in KnownIds(Find(f, x))
           /\ KnownIds(f) \subseteq KnownIds(Find(f, x))
           /\ Find(f, x)[Root(f, x)] = Root(f, x)
           /\ \A y \in RealIds : f[y] = y => Find(f, x)[y] = y
           /\ \A T \in SUBSET RealIds : Saturated(Find(f, x), T) <=> Saturated(f, T)
<1> DEFINE g == Known(f, x)
           h == Find(f, x)
           r == Root(f, x)
           P == Path(g, x)
<1>1. /\ Forest(g) /\ x \in KnownIds(g) /\ \A y \in RealIds : y # x => g[y] = f[y]
      /\ \A y \in RealIds : f[y] = y => g[y] = y
      /\ \A T \in SUBSET RealIds : Saturated(g, T) <=> Saturated(f, T)
  BY KnownKeeps
<1>2. r \in P /\ r \in RealIds /\ g[r] = r
  BY RootFacts
<1>3. x \in P /\ P \subseteq KnownIds(g) /\ Closed(g, P)
  BY <1>1, PathFacts
<1>4. DOMAIN f = RealIds /\ f \in [RealIds -> Ids \cup {0}] /\ g \in [RealIds -> Ids \cup {0}]
  BY <1>1 DEF Forest
<1>5. h = [y \in RealIds |-> IF y \in P THEN r ELSE f[y]]
  BY <1>4 DEF Find
<1>6. ASSUME NEW T \in SUBSET RealIds, Saturated(g, T), NEW y \in P PROVE y \in T <=> r \in T
  BY <1>1, <1>2, <1>6, PathIsTogether
<1> HIDE DEF g, h, r, P
<1>7. /\ \A y \in P : h[y] = r
      /\ \A y \in RealIds \ P : h[y] = g[y]
      /\ h \in [RealIds -> Ids \cup {0}]
  BY <1>1, <1>2, <1>3, <1>4, <1>5 DEF RealIds, KnownIds
<1>8. KnownIds(h) = KnownIds(g)
  BY <1>2, <1>3, <1>7 DEF KnownIds, RealIds
<1>9. \A y \in KnownIds(g) : g[y] \in KnownIds(g)
  BY <1>1 DEF Forest, Closed
<1>10. Closed(h, KnownIds(h))
  BY <1>2, <1>3, <1>7, <1>8, <1>9 DEF Closed, KnownIds
<1>11. ASSUME NEW S \in SUBSET KnownIds(h), S # {}, Closed(h, S)
       PROVE  \E s \in S : h[s] = s
  <2>1. CASE \E y \in S : y \in P
    BY <1>2, <1>7, <1>11, <2>1 DEF Closed
  <2>2. CASE \A y \in S : y \notin P
    <3>1. \A y \in S : y \in RealIds \ P /\ h[y] = g[y]
      BY <1>7, <2>2 DEF KnownIds
    <3>2. Closed(g, S) /\ S \in SUBSET KnownIds(g)
      BY <1>8, <1>11, <3>1 DEF Closed
    <3>3. PICK s \in S : g[s] = s
      BY <1>1, <1>11, <3>2 DEF Forest
    <3> QED BY <3>1, <3>3
  <2> QED BY <2>1, <2>2
<1>12. Forest(h)
  BY <1>7, <1>10, <1>11 DEF Forest
<1>13. ASSUME NEW T \in SUBSET RealIds, Saturated(g, T) PROVE Saturated(h, T)
  <2>1. ASSUME NEW y \in KnownIds(h), y \in P PROVE y \in T <=> h[y] \in T
    BY <1>6, <1>7, <1>13, <2>1
  <2>2. ASSUME NEW y \in KnownIds(h), y \notin P PROVE y \in T <=> h[y] \in T
    BY <1>7, <1>8, <1>13, <2>2 DEF Saturated, KnownIds
  <2> QED BY <2>1, <2>2 DEF Saturated
<1>14. ASSUME NEW T \in SUBSET RealIds, Saturated(h, T) PROVE Saturated(g, T)
  <2>1. \A y \in P : y \in T <=> r \in T
    BY <1>3, <1>7, <1>8, <1>14 DEF Saturated
  <2>2. ASSUME NEW y \in KnownIds(g), y \in P PROVE y \in T <=> g[y] \in T
    BY <1>3, <2>1, <2>2 DEF Closed
  <2>3. ASSUME NEW y \in KnownIds(g), y \notin P PROVE y \in T <=> g[y] \in T
    BY <1>7, <1>8, <1>14, <2>3 DEF Saturated, KnownIds
  <2> QED BY <2>2, <2>3 DEF Saturated
<1>15. ASSUME NEW y \in RealIds, f[y] = y PROVE h[y] = y
  <2>1. g[y] = y
    BY <1>1, <1>15
  <2>2. CASE y \notin P
    BY <1>7, <2>1, <2>2
  <2>3. CASE y \in P
    \* the only root on the way up
    <3>1. y \in KnownIds(g)
      BY <1>3, <2>3
    <3>2. PICK T \in SUBSET RealIds : Saturated(g, T) /\ y \in T /\ \A s \in T : g[s] = s => s = y
      BY <1>1, <2>1, <3>1, BelowIsSaturated
    <3>3. r \in T
      BY <1>6, <2>3, <3>2
    <3> QED BY <1>2, <1>7, <2>3, <3>2, <3>3
  <2> QED BY <2>2, <2>3
<1>16. KnownIds(f) \subseteq KnownIds(g)
  BY <1>1 DEF KnownIds
<1>17. h = Find(f, x) /\ r = Root(f, x)
  BY DEF h, r
<1>18. h[r] = r
  BY <1>2, <1>7
<1>19. ASSUME NEW T \in SUBSET RealIds PROVE Saturated(h, T) <=> Saturated(f, T)
  BY <1>1, <1>13, <1>14
<1>20. x \in KnownIds(h)
  BY <1>1, <1>8
<1>21. KnownIds(f) \subseteq KnownIds(h)
  BY <1>8, <1>16
<1> QED BY <1>12, <1>15, <1>17, <1>18, <1>19, <1>20, <1>21

\* union joins two ids: the sets that remain saturated have both or neither.
LEMMA UnionKeeps ==
    ASSUME NEW f, Forest(f), NEW a \in RealIds, NEW b \in RealIds
    PROVE  /\ Forest(Union(f, a, b))
           /\ \A T \in SUBSET RealIds :
                 Saturated(Union(f, a, b), T) <=> Saturated(f, T) /\ (a \in T <=> b \in T)
<1> DEFINE g  == Find(Find(f, a), b)
           ra == Root(g, a)
           rb == Root(g, b)
           u  == Union(f, a, b)
<1>1. /\ Forest(g) /\ a \in KnownIds(g) /\ b \in KnownIds(g)
      /\ \A T \in SUBSET RealIds : Saturated(g, T) <=> Saturated(f, T)
  <2>1. /\ Forest(Find(f, a)) /\ a \in KnownIds(Find(f, a))
        /\ \A T \in SUBSET RealIds : Saturated(Find(f, a), T) <=> Saturated(f, T)
    BY FindKeeps
  <2> HIDE DEF g
  <2>2. /\ Forest(g) /\ b \in KnownIds(g) /\ KnownIds(Find(f, a)) \subseteq KnownIds(g)
        /\ \A T \in SUBSET RealIds : Saturated(g, T) <=> Saturated(Find(f, a), T)
    BY <2>1, FindKeeps DEF g
  <2> QED BY <2>1, <2>2
<1>2. u = [g EXCEPT ![ra] = rb]
  BY DEF Union
<1> HIDE DEF g, u
<1>3. Known(g, a) = g /\ Known(g, b) = g
  BY <1>1 DEF Known, KnownIds
<1>4. /\ ra \in RealIds /\ g[ra] = ra /\ rb \in RealIds /\ g[rb] = rb
      /\ \A T \in SUBSET RealIds : Saturated(g, T) => (a \in T <=> ra \in T) /\ (b \in T <=> rb \in T)
  BY <1>1, <1>3, RootFacts
<1> HIDE DEF ra, rb
<1>5. g \in [RealIds -> Ids \cup {0}]
  BY <1>1 DEF Forest
<1>6. /\ u \in [RealIds -> Ids \cup {0}] /\ u[ra] = rb
      /\ \A y \in RealIds : y # ra => u[y] = g[y]
  BY <1>2, <1>4, <1>5 DEF RealIds
<1>7. KnownIds(u) = KnownIds(g) /\ ra \in KnownIds(g) /\ rb \in KnownIds(g)
  BY <1>4, <1>6 DEF KnownIds, RealIds
<1>8. u[rb] = rb
  BY <1>4, <1>6
<1>9. Closed(u, KnownIds(u))
  <2>1. \A y \in KnownIds(g) : y \in RealIds /\ g[y] \in KnownIds(g)
    BY <1>1 DEF Forest, Closed, KnownIds
  <2>2. ASSUME NEW y \in KnownIds(g) PROVE u[y] \in KnownIds(g)
    BY <1>6, <1>7, <2>1
  <2> QED BY <1>7, <2>2 DEF Closed
<1>10. ASSUME NEW S \in SUBSET KnownIds(u), S # {}, Closed(u, S)
       PROVE  \E s \in S : u[s] = s
  <2>1. CASE ra \in S
    BY <1>6, <1>8, <1>10, <2>1 DEF Closed
  <2>2. CASE ra \notin S
    <3>1. \A y \in S : y \in RealIds /\ u[y] = g[y]
      BY <1>6, <2>2 DEF KnownIds
    <3>2. Closed(g, S) /\ S \in SUBSET KnownIds(g)
      BY <1>7, <1>10, <3>1 DEF Closed
    <3>3. PICK s \in S : g[s] = s
      BY <1>1, <1>10, <3>2 DEF Forest
    <3> QED BY <3>1, <3>3
  <2> QED BY <2>1, <2>2
<1>11. ASSUME NEW T \in SUBSET RealIds
       PROVE  Saturated(u, T) <=> Saturated(g, T) /\ (ra \in T <=> rb \in T)
  <2>1. \A y \in KnownIds(g) : y \in RealIds
    BY DEF KnownIds
  <2>2. ASSUME Saturated(u, T) PROVE Saturated(g, T) /\ (ra \in T <=> rb \in T)
    BY <1>4, <1>6, <1>7, <2>1, <2>2 DEF Saturated
  <2>3. ASSUME Saturated(g, T), ra \in T <=> rb \in T PROVE Saturated(u, T)
    BY <1>6, <1>7, <2>1, <2>3 DEF Saturated
  <2> QED BY <2>2, <2>3
<1>12. ASSUME NEW T \in SUBSET RealIds
       PROVE  Saturated(u, T) <=> Saturated(f, T) /\ (a \in T <=> b \in T)
  <2>1. Saturated(g, T) => (a \in T <=> ra \in T) /\ (b \in T <=> rb \in T)
    BY <1>4
  <2> QED BY <1>1, <1>11, <2>1
<1>13. Forest(u)
  BY <1>6, <1>9, <1>10 DEF Forest
<1> QED BY <1>12, <1>13 DEF u

----------------------------------------------------------------------------
(* The invariant of the three loops.                                       *)

Indices         == DOMAIN holders
Seen(l, later)  == IF loop = l THEN {k \in Indices : k < i}
                   ELSE IF loop \in later THEN Indices ELSE {}
Compared        == Seen("best", {"connect", "count", "done"})
Linked          == Seen("connect", {"count", "done"})
Counted         == Seen("count", {"done"})

\* A holder's ids are of one lineage.
Respects(h, T) == h.replid # 0 /\ h.replid2 # 0 => (h.replid \in T <=> h.replid2 \in T)
MainId(h)      == IF h.replid # 0 THEN h.replid ELSE h.replid2

\* c is what the count loop adds for the k-th holder: the root of its id, or a
\* component of its own.
Stands(f, c, k) ==
    IF MainId(holders[k]) = 0 THEN c = -k
    ELSE /\ c \in RealIds /\ f[c] = c
         /\ \A T \in SUBSET RealIds : Saturated(f, T) => (c \in T <=> MainId(holders[k]) \in T)

TypeOK ==
    /\ holders \in Slices /\ loop \in {"best", "connect", "count", "done"}
    /\ i \in Indices /\ best \in Indices
    /\ comps \subseteq RealIds \cup {-k : k \in Indices}
BestSoFar == \A j \in Compared : ~Better(holders[j], holders[best])
Joined    ==
    /\ Forest(parent)
    /\ \A T \in SUBSET RealIds : Saturated(parent, T) <=> \A k \in Linked : Respects(holders[k], T)
Counting  ==
    /\ \A k \in Counted : \E c \in comps : Stands(parent, c, k)
    /\ \A c \in comps : \E k \in Counted : Stands(parent, c, k)
ElectionInv == TypeOK /\ BestSoFar /\ Joined /\ Counting

LEMMA SliceFacts ==
    ASSUME TypeOK
    PROVE  /\ Indices = 1 .. Len(holders) /\ Len(holders) \in Nat
           /\ \A k \in Indices : IsHolder(holders[k])
           /\ \A k, l \in Indices : holders[k].ip = holders[l].ip => k = l
<1>1. /\ holders \in Seq({holders[k] : k \in DOMAIN holders})
      /\ \A k \in DOMAIN holders : IsHolder(holders[k])
      /\ \A k, l \in DOMAIN holders : holders[k].ip = holders[l].ip => k = l
  BY SlicesAssumption DEF TypeOK
<1> QED BY <1>1 DEF Indices

\* A step of a loop moves on to the next index, or to the next loop.
LEMMA AdvanceFacts ==
    ASSUME TypeOK, UNCHANGED holders
    PROVE  /\ loop = "best" /\ Advance("connect") =>
                Compared' = Compared \cup {i} /\ Linked' = Linked /\ Counted' = Counted
           /\ loop = "connect" /\ Advance("count") =>
                Compared' = Compared /\ Linked' = Linked \cup {i} /\ Counted' = Counted
           /\ loop = "count" /\ Advance("done") =>
                Compared' = Compared /\ Linked' = Linked /\ Counted' = Counted \cup {i}
           /\ \A next : Advance(next) => Indices' = Indices /\ i' \in Indices /\ loop' \in {loop, next}
<1>1. Indices = 1 .. Len(holders) /\ Len(holders) \in Nat /\ i \in Indices
  BY SliceFacts DEF TypeOK
<1>2. Indices' = Indices
  BY DEF Indices
<1>3. ASSUME NEW next, Advance(next) PROVE i' \in Indices /\ loop' \in {loop, next}
  BY <1>1, <1>3 DEF Advance
<1>4. ASSUME NEW next, Advance(next), loop' = loop, next # loop
      PROVE  i' = i + 1 /\ {k \in Indices : k < i'} = {k \in Indices : k < i} \cup {i}
  <2>1. i' = i + 1
    BY <1>4 DEF Advance
  <2> QED BY <1>1, <2>1
<1>5. ASSUME NEW next, Advance(next), loop' # loop
      PROVE  i' = 1 /\ Indices = {k \in Indices : k < i} \cup {i} /\ {k \in Indices : k < i'} = {}
  <2>1. i' = 1 /\ i = Len(holders)
    BY <1>1, <1>5 DEF Advance
  <2> QED BY <1>1, <2>1
<1> HIDE DEF Indices
<1>6. ASSUME loop = "best", Advance("connect")
      PROVE  Compared' = Compared \cup {i} /\ Linked' = Linked /\ Counted' = Counted
  <2>1. CASE loop' = loop
    BY <1>2, <1>4, <1>6, <2>1 DEF Compared, Linked, Counted, Seen
  <2>2. CASE loop' # loop
    BY <1>2, <1>3, <1>5, <1>6, <2>2 DEF Compared, Linked, Counted, Seen
  <2> QED BY <2>1, <2>2
<1>7. ASSUME loop = "connect", Advance("count")
      PROVE  Compared' = Compared /\ Linked' = Linked \cup {i} /\ Counted' = Counted
  <2>1. CASE loop' = loop
    BY <1>2, <1>4, <1>7, <2>1 DEF Compared, Linked, Counted, Seen
  <2>2. CASE loop' # loop
    BY <1>2, <1>3, <1>5, <1>7, <2>2 DEF Compared, Linked, Counted, Seen
  <2> QED BY <2>1, <2>2
<1>8. ASSUME loop = "count", Advance("done")
      PROVE  Compared' = Compared /\ Linked' = Linked /\ Counted' = Counted \cup {i}
  <2>1. CASE loop' = loop
    BY <1>2, <1>4, <1>8, <2>1 DEF Compared, Linked, Counted, Seen
  <2>2. CASE loop' # loop
    BY <1>2, <1>3, <1>5, <1>8, <2>2 DEF Compared, Linked, Counted, Seen
  <2> QED BY <2>1, <2>2
<1> QED BY <1>2, <1>3, <1>6, <1>7, <1>8

LEMMA IdFacts ==
    ASSUME NEW h, IsHolder(h)
    PROVE  /\ h.replid \in RealIds \cup {0} /\ h.replid2 \in RealIds \cup {0}
           /\ MainId(h) \in RealIds \cup {0}
           /\ h.ip \in Nat /\ h.offset \in Nat /\ h.keys \in Nat \ {0}
BY DEF IsHolder, MainId, RealIds

LEMMA ConnectedKeeps ==
    ASSUME NEW f, Forest(f), NEW h, IsHolder(h)
    PROVE  /\ Forest(Connected(f, h))
           /\ \A T \in SUBSET RealIds : Saturated(Connected(f, h), T) <=> Saturated(f, T) /\ Respects(h, T)
<1>0. /\ h.replid # 0 => h.replid \in RealIds
      /\ h.replid2 # 0 => h.replid2 \in RealIds
  BY IdFacts
<1>1. CASE h.replid # 0 /\ h.replid2 # 0
  <2>1. Connected(f, h) = Union(f, h.replid, h.replid2)
    BY <1>1 DEF Connected
  <2> QED BY <1>0, <1>1, <2>1, UnionKeeps DEF Respects
<1>2. CASE h.replid # 0 /\ h.replid2 = 0
  <2>1. Connected(f, h) = Find(f, h.replid)
    BY <1>2 DEF Connected
  <2> QED BY <1>0, <1>2, <2>1, FindKeeps DEF Respects
<1>3. CASE h.replid = 0 /\ h.replid2 # 0
  <2>1. Connected(f, h) = Find(f, h.replid2)
    BY <1>3 DEF Connected
  <2> QED BY <1>0, <1>3, <2>1, FindKeeps DEF Respects
<1>4. CASE h.replid = 0 /\ h.replid2 = 0
  <2>1. Connected(f, h) = f
    BY <1>4 DEF Connected
  <2> QED BY <1>4, <2>1 DEF Respects
<1> QED BY <1>1, <1>2, <1>3, <1>4

----------------------------------------------------------------------------
(* The invariant is inductive.                                             *)

LEMMA InitElection == Init => ElectionInv
<1> SUFFICES ASSUME Init PROVE ElectionInv
  OBVIOUS
<1>1. TypeOK
  <2>1. /\ holders \in Seq({holders[k] : k \in DOMAIN holders}) /\ holders # <<>>
    BY SlicesAssumption DEF Init
  <2>2. 1 \in DOMAIN holders
    BY <2>1
  <2> QED BY <2>2 DEF Init, TypeOK, Indices
<1>2. Compared = {} /\ Linked = {} /\ Counted = {}
  BY <1>1, SliceFacts DEF Init, Compared, Linked, Counted, Seen
<1>3. BestSoFar
  BY <1>2 DEF BestSoFar
<1>4. Joined
  <2>1. parent = [x \in RealIds |-> 0]
    BY DEF Init, RealIds
  <2>2. KnownIds(parent) = {}
    BY <2>1 DEF KnownIds
  <2>3. Forest(parent)
    BY <2>1, <2>2 DEF Forest, Closed
  <2>4. \A T \in SUBSET RealIds : Saturated(parent, T)
    BY <2>2 DEF Saturated
  <2> QED BY <1>2, <2>3, <2>4 DEF Joined
<1>5. Counting
  BY <1>2 DEF Init, Counting
<1> QED BY <1>1, <1>3, <1>4, <1>5 DEF ElectionInv

\* Better is a strict order of holders, and holders with different addresses
\* are never tied.
LEMMA BetterFacts ==
    ASSUME NEW a, IsHolder(a), NEW b, IsHolder(b), NEW c, IsHolder(c)
    PROVE  /\ ~Better(a, a)
           /\ ~Better(a, b) /\ Better(c, b) => ~Better(a, c)
BY IdFacts DEF Better

LEMMA CompareKeeps ==
    ASSUME ElectionInv, Compare
    PROVE  ElectionInv'
<1>0. TypeOK /\ loop = "best" /\ Advance("connect") /\ UNCHANGED <<holders, parent, comps>>
  BY DEF ElectionInv, Compare
<1>1. /\ Compared' = Compared \cup {i} /\ Linked' = Linked /\ Counted' = Counted
      /\ Indices' = Indices /\ i' \in Indices /\ loop' \in {"best", "connect"}
  BY <1>0, AdvanceFacts
<1>2. best' \in {best, i} /\ best' = IF Better(holders[i], holders[best]) THEN i ELSE best
  BY DEF Compare
<1>3. i \in Indices /\ best \in Indices /\ best' \in Indices
  BY <1>0, <1>2 DEF TypeOK
<1>4. TypeOK'
  BY <1>0, <1>1, <1>3 DEF TypeOK
<1>5. \A k \in Indices : IsHolder(holders[k])
  BY <1>0, SliceFacts
<1>6. Compared \subseteq Indices
  BY DEF Compared, Seen
<1>7. ASSUME NEW j \in Compared' PROVE ~Better(holders[j], holders[best'])
  <2>1. CASE Better(holders[i], holders[best])
    <3>1. best' = i
      BY <1>2, <2>1
    <3>2. CASE j = i
      BY <1>3, <1>5, <3>1, <3>2, BetterFacts
    <3>3. CASE j \in Compared
      <4>1. ~Better(holders[j], holders[best])
        BY <3>3 DEF ElectionInv, BestSoFar
      <4> QED BY <1>3, <1>5, <1>6, <2>1, <3>1, <3>3, <4>1, BetterFacts
    <3> QED BY <1>1, <3>2, <3>3
  <2>2. CASE ~Better(holders[i], holders[best])
    BY <1>1, <1>2, <2>2 DEF ElectionInv, BestSoFar
  <2> QED BY <2>1, <2>2
<1>8. BestSoFar'
  BY <1>0, <1>7 DEF BestSoFar
<1>9. Joined'
  BY <1>0, <1>1 DEF ElectionInv, Joined
<1>10. Counting'
  BY <1>0, <1>1 DEF ElectionInv, Counting, Stands
<1> QED BY <1>4, <1>8, <1>9, <1>10 DEF ElectionInv

LEMMA ConnectKeeps ==
    ASSUME ElectionInv, Connect
    PROVE  ElectionInv'
<1>0. TypeOK /\ loop = "connect" /\ Advance("count") /\ UNCHANGED <<holders, best, comps>>
  BY DEF ElectionInv, Connect
<1>1. /\ Compared' = Compared /\ Linked' = Linked \cup {i} /\ Counted' = Counted
      /\ Indices' = Indices /\ i' \in Indices /\ loop' \in {"connect", "count"}
  BY <1>0, AdvanceFacts
<1>2. TypeOK'
  BY <1>0, <1>1 DEF TypeOK
<1>3. BestSoFar'
  BY <1>0, <1>1 DEF ElectionInv, BestSoFar
<1>4. IsHolder(holders[i]) /\ parent' = Connected(parent, holders[i])
  BY <1>0, SliceFacts DEF Connect, TypeOK
<1>5. /\ Forest(parent)
      /\ \A T \in SUBSET RealIds : Saturated(parent, T) <=> \A k \in Linked : Respects(holders[k], T)
  BY DEF ElectionInv, Joined
<1>6. /\ Forest(parent')
      /\ \A T \in SUBSET RealIds : Saturated(parent', T) <=> Saturated(parent, T) /\ Respects(holders[i], T)
  BY <1>4, <1>5, ConnectedKeeps
<1>7. ASSUME NEW T \in SUBSET RealIds
      PROVE  Saturated(parent', T) <=> \A k \in Linked' : Respects(holders'[k], T)
  BY <1>0, <1>1, <1>5, <1>6
<1>8. Joined'
  BY <1>6, <1>7 DEF Joined
<1>9. Counting'
  <2>1. Counted = {} /\ Counted' = {}
    BY <1>0, <1>1 DEF Counted, Seen
  <2> QED BY <1>0, <2>1 DEF ElectionInv, Counting
<1> QED BY <1>2, <1>3, <1>8, <1>9 DEF ElectionInv

\* What stands for a holder still does after another find.
LEMMA StandsOn ==
    ASSUME NEW f, NEW g, NEW c, NEW k, Stands(f, c, k),
           \A y \in RealIds : f[y] = y => g[y] = y,
           \A T \in SUBSET RealIds : Saturated(g, T) <=> Saturated(f, T)
    PROVE  Stands(g, c, k)
BY DEF Stands

LEMMA CountKeeps ==
    ASSUME ElectionInv, Count
    PROVE  ElectionInv'
<1>0. TypeOK /\ loop = "count" /\ Advance("done") /\ UNCHANGED <<holders, best>>
  BY DEF ElectionInv, Count
<1>1. /\ Compared' = Compared /\ Linked' = Linked /\ Counted' = Counted \cup {i}
      /\ Indices' = Indices /\ i' \in Indices /\ loop' \in {"count", "done"}
  BY <1>0, AdvanceFacts
<1>2. BestSoFar'
  BY <1>0, <1>1 DEF ElectionInv, BestSoFar
<1> DEFINE x == MainId(holders[i])
<1>3. i \in Indices /\ x \in RealIds \cup {0}
  BY <1>0, SliceFacts, IdFacts DEF TypeOK
<1>4. /\ x # 0 => parent' = Find(parent, x) /\ comps' = comps \cup {Root(parent, x)}
      /\ x = 0 => parent' = parent /\ comps' = comps \cup {-i}
  BY DEF Count, MainId
<1> HIDE DEF x
<1>5. /\ Forest(parent)
      /\ \A T \in SUBSET RealIds : Saturated(parent, T) <=> \A k \in Linked : Respects(holders[k], T)
  BY DEF ElectionInv, Joined
<1>6. /\ Forest(parent')
      /\ \A y \in RealIds : parent[y] = y => parent'[y] = y
      /\ \A T \in SUBSET RealIds : Saturated(parent', T) <=> Saturated(parent, T)
  <2>1. CASE x = 0
    BY <1>4, <1>5, <2>1
  <2>2. CASE x # 0
    BY <1>3, <1>4, <1>5, <2>2, FindKeeps
  <2> QED BY <2>1, <2>2
<1>7. Joined'
  BY <1>0, <1>1, <1>5, <1>6 DEF Joined
<1>8. PICK d \in RealIds \cup {-i} : comps' = comps \cup {d} /\ Stands(parent', d, i)
  <2>1. CASE x = 0
    <3>1. Stands(parent', -i, i)
      BY <2>1 DEF Stands, x
    <3> QED BY <1>4, <2>1, <3>1
  <2>2. CASE x # 0
    <3>1. Root(parent, x) \in RealIds /\ parent'[Root(parent, x)] = Root(parent, x)
      BY <1>3, <1>4, <1>5, <2>2, RootFacts, FindKeeps
    <3>2. \A T \in SUBSET RealIds : Saturated(parent, T) => (x \in T <=> Root(parent, x) \in T)
      BY <1>3, <1>5, <2>2, RootFacts
    <3>3. Stands(parent', Root(parent, x), i)
      BY <1>6, <2>2, <3>1, <3>2 DEF Stands, x
    <3> QED BY <1>4, <2>2, <3>1, <3>3
  <2> QED BY <2>1, <2>2
<1>9. TypeOK'
  <2>1. comps' \subseteq RealIds \cup {-k : k \in Indices}
    BY <1>0, <1>3, <1>8 DEF TypeOK
  <2> QED BY <1>0, <1>1, <2>1 DEF TypeOK
<1>10. ASSUME NEW c, NEW k, Stands(parent, c, k) PROVE Stands(parent', c, k)
  BY <1>6, <1>10, StandsOn
<1>11. ASSUME NEW k \in Counted' PROVE \E c \in comps' : Stands(parent', c, k)
  <2>1. CASE k = i
    BY <1>8, <2>1
  <2>2. CASE k \in Counted
    <3>1. PICK c \in comps : Stands(parent, c, k)
      BY <2>2 DEF ElectionInv, Counting
    <3> QED BY <1>8, <1>10, <3>1
  <2> QED BY <1>1, <2>1, <2>2
<1>12. ASSUME NEW c \in comps' PROVE \E k \in Counted' : Stands(parent', c, k)
  <2>1. CASE c = d
    BY <1>1, <1>8, <2>1
  <2>2. CASE c \in comps
    <3>1. PICK k \in Counted : Stands(parent, c, k)
      BY <2>2 DEF ElectionInv, Counting
    <3> QED BY <1>1, <1>10, <3>1
  <2> QED BY <1>8, <2>1, <2>2
<1>13. Counting'
  <2>1. \A c, k : Stands(parent', c, k) = Stands(parent, c, k)'
    BY <1>0 DEF Stands
  <2> QED BY <1>11, <1>12, <2>1 DEF Counting
<1> QED BY <1>2, <1>7, <1>9, <1>13 DEF ElectionInv

----------------------------------------------------------------------------
(* Theorems.                                                               *)

\* The invariant of the loops of BestDataHolder and holdersDiverged, for every
\* slice of data holders in every order.
THEOREM ElectionInvariant == Spec => []ElectionInv
<1>1. ElectionInv /\ [Next]_vars => ElectionInv'
  <2>1. ASSUME ElectionInv, UNCHANGED vars PROVE ElectionInv'
    BY <2>1 DEF vars, ElectionInv, TypeOK, BestSoFar, Joined, Counting, Indices, Compared, Linked,
       Counted, Seen, Stands
  <2> QED BY <2>1, CompareKeeps, ConnectKeeps, CountKeeps DEF Next, Done
<1> QED BY <1>1, InitElection, PTL DEF Spec

\* BestDataHolder returns a holder of highest offset and then most keys, and of
\* those the one with the smallest address, for every slice.
THEOREM BestIsBestAlways == Spec => []BestIsBest
<1>1. ElectionInv => BestIsBest
  <2> SUFFICES ASSUME ElectionInv, loop # "best"
               PROVE  /\ best \in BestDataHolders(holders)
                      /\ \A b \in BestDataHolders(holders) : holders[best].ip =< holders[b].ip
    BY DEF BestIsBest
  <2>1. TypeOK /\ best \in Indices /\ Compared = Indices
    BY DEF ElectionInv, TypeOK, Compared, Seen
  <2>2. \A k \in Indices : IsHolder(holders[k])
    BY <2>1, SliceFacts
  <2>3. \A k \in Indices : /\ holders[k].probed /\ holders[k].reachable
                           /\ holders[k].ip \in Nat /\ holders[k].offset \in Nat
                           /\ holders[k].keys \in Nat /\ holders[k].keys > 0
    BY <2>2 DEF IsHolder
  <2>4. DataHolders(holders) = Indices
    BY <2>3 DEF DataHolders, Indices
  <2>5. \A j \in Indices : ~Better(holders[j], holders[best])
    BY <2>1 DEF ElectionInv, BestSoFar
  <2>6. best \in BestDataHolders(holders)
    BY <2>1, <2>3, <2>4, <2>5 DEF BestDataHolders, Better
  <2>7. ASSUME NEW b \in BestDataHolders(holders) PROVE holders[best].ip =< holders[b].ip
    <3>1. /\ b \in Indices
          /\ \/ holders[best].offset < holders[b].offset
             \/ holders[best].offset = holders[b].offset /\ holders[best].keys =< holders[b].keys
      BY <2>1, <2>4 DEF BestDataHolders
    <3> QED BY <2>1, <2>3, <2>5, <3>1 DEF Better
  <2> QED BY <2>6, <2>7
<1> QED BY <1>1, ElectionInvariant, PTL

\* Two components: two holders that a saturated set parts.
LEMMA TwoComponents ==
    ASSUME ElectionInv, loop = "done", NEW c \in comps, NEW d \in comps, c # d
    PROVE  holdersDiverged(holders)
<1>1. TypeOK /\ Counted = Indices /\ Linked = Indices
  BY DEF ElectionInv, TypeOK, Counted, Linked, Seen
<1>2. /\ \A k \in Indices : IsHolder(holders[k])
      /\ Indices \subseteq Nat
  BY <1>1, SliceFacts
<1>3. DataHolders(holders) = Indices
  BY <1>2 DEF DataHolders, Indices, IsHolder
<1>4. PICK k \in Indices : Stands(parent, c, k)
  BY <1>1 DEF ElectionInv, Counting
<1>5. PICK l \in Indices : Stands(parent, d, l)
  BY <1>1 DEF ElectionInv, Counting
<1>6. \A m \in Indices : Replids(holders[m]) = {} <=> MainId(holders[m]) = 0
  BY DEF Replids, MainId
<1>7. ASSUME NEW m \in Indices, NEW n \in Indices, n # m, MainId(holders[m]) = 0
      PROVE  holdersDiverged(holders)
  <2>1. {m} \in SUBSET DataHolders(holders) /\ {m} # {} /\ {m} # DataHolders(holders)
    BY <1>3, <1>7
  <2>2. \A b \in DataHolders(holders) \ {m} : Replids(holders[m]) \cap Replids(holders[b]) = {}
    BY <1>6, <1>7
  <2> QED BY <2>1, <2>2 DEF holdersDiverged
<1>8. CASE MainId(holders[k]) = 0 \/ MainId(holders[l]) = 0
  <2>1. k # l
    BY <1>4, <1>5, <1>8 DEF Stands
  <2> QED BY <1>7, <1>8, <2>1
<1>9. CASE MainId(holders[k]) # 0 /\ MainId(holders[l]) # 0
  <2>1. /\ c \in RealIds /\ parent[c] = c
        /\ \A T \in SUBSET RealIds : Saturated(parent, T) => (c \in T <=> MainId(holders[k]) \in T)
    BY <1>4, <1>9 DEF Stands
  <2>2. /\ d \in RealIds /\ parent[d] = d
        /\ \A T \in SUBSET RealIds : Saturated(parent, T) => (d \in T <=> MainId(holders[l]) \in T)
    BY <1>5, <1>9 DEF Stands
  <2>3. Forest(parent) /\ c \in KnownIds(parent)
    BY <2>1 DEF ElectionInv, Joined, KnownIds, RealIds
  <2>4. PICK T \in SUBSET RealIds : Saturated(parent, T) /\ c \in T /\ \A s \in T : parent[s] = s => s = c
    BY <2>1, <2>3, BelowIsSaturated
  <2>5. MainId(holders[k]) \in T /\ MainId(holders[l]) \notin T
    BY <2>1, <2>2, <2>4
  <2>6. \A m \in Indices : Respects(holders[m], T)
    BY <1>1, <2>4 DEF ElectionInv, Joined
  <2>7. ASSUME NEW m \in Indices
        PROVE  \A z \in Replids(holders[m]) : z \in T <=> MainId(holders[m]) \in T
    BY <2>6 DEF Respects, Replids, MainId
  <2> DEFINE S == {m \in Indices : MainId(holders[m]) \in T}
  <2>8. S \in SUBSET DataHolders(holders) /\ S # {} /\ S # DataHolders(holders)
    BY <1>3, <2>5
  <2>9. ASSUME NEW a \in S, NEW b \in DataHolders(holders) \ S
        PROVE  Replids(holders[a]) \cap Replids(holders[b]) = {}
    BY <1>3, <2>7
  <2> QED BY <2>8, <2>9 DEF holdersDiverged
<1> QED BY <1>8, <1>9

\* Two groups without a common id: a holder of each has a component of its own.
LEMMA TwoGroups ==
    ASSUME ElectionInv, loop = "done", holdersDiverged(holders)
    PROVE  \E c, d \in comps : c # d
<1>1. TypeOK /\ Counted = Indices /\ Linked = Indices
  BY DEF ElectionInv, TypeOK, Counted, Linked, Seen
<1>2. /\ \A k \in Indices : IsHolder(holders[k])
      /\ Indices = 1 .. Len(holders) /\ Len(holders) \in Nat
  BY <1>1, SliceFacts
<1>3. DataHolders(holders) = Indices
  BY <1>2 DEF DataHolders, Indices, IsHolder
<1>4. PICK S \in SUBSET Indices : /\ S # {} /\ S # Indices
                                  /\ \A a \in S, b \in Indices \ S :
                                        Replids(holders[a]) \cap Replids(holders[b]) = {}
  BY <1>3 DEF holdersDiverged
<1>5. PICK a \in S : TRUE
  BY <1>4
<1>6. PICK b \in Indices \ S : TRUE
  BY <1>4
<1>7. PICK c \in comps : Stands(parent, c, a)
  BY <1>1, <1>4 DEF ElectionInv, Counting
<1>8. PICK d \in comps : Stands(parent, d, b)
  BY <1>1 DEF ElectionInv, Counting
<1>9. SUFFICES ASSUME c = d PROVE FALSE
  OBVIOUS
<1>10. \A n \in RealIds : n \in Nat /\ n # 0
  BY IdsAssumption DEF RealIds
<1>11. CASE MainId(holders[a]) = 0 \/ MainId(holders[b]) = 0
  <2>1. a \in Nat /\ a > 0 /\ b \in Nat /\ b > 0 /\ a # b
    BY <1>2, <1>4
  <2> QED BY <1>7, <1>8, <1>9, <1>10, <1>11, <2>1 DEF Stands
<1>12. CASE MainId(holders[a]) # 0 /\ MainId(holders[b]) # 0
  <2> DEFINE T == UNION {Replids(holders[k]) : k \in S}
  <2>1. \A k \in Indices : /\ Replids(holders[k]) \subseteq RealIds
                           /\ MainId(holders[k]) # 0 => MainId(holders[k]) \in Replids(holders[k])
    BY <1>2, IdFacts DEF Replids, MainId, RealIds
  <2>2. T \in SUBSET RealIds
    BY <1>4, <2>1
  <2>3. ASSUME NEW k \in Indices PROVE Respects(holders[k], T)
    <3>1. CASE k \in S
      BY <3>1 DEF Respects, Replids
    <3>2. CASE k \notin S
      <4>1. \A z \in Replids(holders[k]) : z \notin T
        BY <1>4, <3>2
      <4> QED BY <4>1 DEF Respects, Replids
    <3> QED BY <3>1, <3>2
  <2>4. MainId(holders[a]) \in T /\ MainId(holders[b]) \notin T
    BY <1>4, <1>5, <1>6, <1>12, <2>1
  <2> HIDE DEF T
  <2>5. Saturated(parent, T)
    BY <1>1, <2>2, <2>3 DEF ElectionInv, Joined
  <2> QED BY <1>7, <1>8, <1>9, <1>12, <2>2, <2>4, <2>5 DEF Stands
<1> QED BY <1>11, <1>12

\* holdersDiverged answers exactly whether the holders split into two groups
\* that share no replication id, for every slice and any number of ids: the
\* union-find with path compression neither joins two lineages nor misses a
\* promotion chain.
THEOREM DivergedExactlyAlways == Spec => []DivergedExactly
<1>1. ElectionInv => DivergedExactly
  <2> SUFFICES ASSUME ElectionInv, loop = "done"
               PROVE  Cardinality(comps) > 1 <=> holdersDiverged(holders)
    BY DEF DivergedExactly
  <2>1. IsFiniteSet(comps)
    <3>1. TypeOK /\ IsFiniteSet(Ids)
      BY IdsAssumption DEF ElectionInv
    <3>2. IsFiniteSet(RealIds)
      BY <3>1, FS_Subset DEF RealIds
    <3>3. Indices = 1 .. Len(holders) /\ Len(holders) \in Nat
      BY <3>1, SliceFacts
    <3>4. IsFiniteSet({-k : k \in Indices})
      <4>1. IsFiniteSet((-Len(holders)) .. 0) /\ -Len(holders) \in Int
        BY <3>3, FS_Interval
      <4>2. {-k : k \in Indices} \subseteq (-Len(holders)) .. 0
        BY <3>3
      <4> QED BY <4>1, <4>2, FS_Subset
    <3>5. IsFiniteSet(RealIds \cup {-k : k \in Indices})
      BY <3>2, <3>4, FS_Union
    <3> QED BY <3>1, <3>5, FS_Subset DEF TypeOK
  <2>2. Cardinality(comps) > 1 <=> \E c, d \in comps : c # d
    <3>1. CASE comps = {}
      BY <3>1, FS_EmptySet
    <3>2. CASE comps # {}
      <4>1. PICK c \in comps : TRUE
        BY <3>2
      <4>2. /\ IsFiniteSet(comps \ {c}) /\ Cardinality(comps \ {c}) = Cardinality(comps) - 1
            /\ Cardinality(comps) \in Nat /\ Cardinality(comps \ {c}) \in Nat
        BY <2>1, FS_RemoveElement, FS_CardinalityType
      <4>3. Cardinality(comps \ {c}) = 0 <=> comps \ {c} = {}
        BY <4>2, FS_EmptySet
      <4> QED BY <4>1, <4>2, <4>3
    <3> QED BY <3>1, <3>2
  <2> QED BY <2>2, TwoComponents, TwoGroups
<1> QED BY <1>1, ElectionInvariant, PTL
============================================================================
