-------------------------- MODULE ClusterMigration --------------------------
(***************************************************************************)
(* The in-place migration of a cluster kept by one StatefulSet to one      *)
(* StatefulSet per shard: migrateLegacyCluster and PlanClusterMigration.   *)
(* The new pods join the mesh, replicate the owner of their range, take it *)
(* over by a coordinated failover, and the old pods go.  The repair loop   *)
(* is suspended meanwhile.                                                 *)
(*                                                                         *)
(* <<"new", k, m>> is pod {name}-shard-k-m and <<"old", k, m>> the m-th    *)
(* legacy pod that served shard k when the migration began.  Ranges move   *)
(* as a whole, so shard k stands for its range.                            *)
(*                                                                         *)
(* pod[p]    "absent", "down" (its Redis is), or "up"                      *)
(* mesh[p]   the mesh p's node belongs to, Main or one named by a pod      *)
(* knows[p]  gossip has told p of its whole mesh                           *)
(* master[p] the node p replicates, NoPod if p is a master, Ghost if that  *)
(*           node's pod was replaced                                       *)
(* data[p]   the data of p's range: "none", a "copy" whose link is down,   *)
(*           or "live"                                                     *)
(* owner[k]  the node that owns range k                                    *)
(* sts       the StatefulSets there are, of "old" and "new"                *)
(* held      the hold annotation                                           *)
(* op        the pass: its phase, and its commands <<pod, target>>         *)
(* budget    how many crashes, losses, failed probes, failed commands and  *)
(*           holds may still happen, and how many pods have failed         *)
(*                                                                         *)
(* Elections assume that most masters are up, which a cluster of three     *)
(* shards or more has with one of them down.                               *)
(***************************************************************************)
EXTENDS Integers, FiniteSets

CONSTANTS NShards, RPS, Budgets

ASSUME MigrationConstants ==
    /\ NShards \in Nat \ {0} /\ RPS \in Nat
    /\ Budgets \subseteq [{"crashes", "losses", "probes", "errors", "holds", "faults"} -> Nat]

VARIABLES pod, mesh, knows, master, data, owner, sts, held, op, budget

nodes == <<pod, mesh, knows, master, data, owner>>
vars  == <<pod, mesh, knows, master, data, owner, sts, held, op, budget>>

Shards == 0 .. NShards - 1
Old    == {"old"} \X Shards \X (0 .. RPS)
New    == {"new"} \X Shards \X (0 .. RPS)
Pods   == Old \cup New
NewMaster(k) == <<"new", k, 0>>
ShardOf(p)   == p[2]

NoPod == <<"none", 0, 0>>
Ghost == <<"ghost", 0, 0>>
Main  == <<"main", 0, 0>>
Forgotten == <<"forgotten", 0, 0>>

Spend(what) == budget[what] > 0 /\ budget' = [budget EXCEPT ![what] = @ - 1]
Fault(what) == budget[what] > 0 /\ budget' = [budget EXCEPT ![what] = @ - 1, !.faults = @ + 1]

----------------------------------------------------------------------------
(* The plan.  R is the set of pods whose probes were answered, c the mesh  *)
(* restrictToLegacyMesh found.                                             *)

\* The new pods left in the ground truth.
Met(R, c) == {p \in New \cap R : mesh[p] = c}

\* ownerOfRange reads the slots a node claims, so only of nodes that answered.
ownerOfRange(R, c, k) ==
    IF owner[k] \in (Old \cap R) \cup Met(R, c) THEN owner[k] ELSE NoPod

IsLinkUpReplicaOf(p, o) == o # NoPod /\ master[p] = o /\ data[p] = "live"

MastersOnly(R, c, p) ==                                            \* mutant
    \/ p[3] > 0
    \/ owner[ShardOf(p)] = p
    \/ IsLinkUpReplicaOf(p, ownerOfRange(R, c, ShardOf(p)))

Settled(R, c, p) ==
    \/ owner[ShardOf(p)] = p
    \/ IsLinkUpReplicaOf(p, ownerOfRange(R, c, ShardOf(p)))

\* The attaches: not again where one is under way, not before the pod knows
\* the owner.
planReplicates(R, c) ==
    {a \in New \X Pods :
        /\ a[2] = ownerOfRange(R, c, ShardOf(a[1]))
        /\ ~Settled(R, c, a[1]) /\ master[a[1]] # a[2]
        /\ knows[a[1]] /\ mesh[a[1]] = mesh[a[2]]}

\* The lowest shard that its first pod does not own.  An owner in sight
\* answered its probe, so no failover is forced.
nextFailover ==
    LET unmoved == {k \in Shards : owner[k] # NewMaster(k)}
    IN  {<<NewMaster(k), owner[k]>> : k \in {k \in unmoved : \A j \in unmoved : k =< j}}

KnownOnly(R, c) ==                                                 \* mutant
    {p \in New \ Met(R, c) : pod[p] # "absent" /\ knows[p]}

\* The new pods outside the mesh: a MEET for each that has an address.
missingNewPodMeets(R, c) == {p \in New \ Met(R, c) : pod[p] # "absent"}

Idle == [phase |-> "Gather", acts |-> {}]

\* The least advanced phase that still has work, and only its commands.
PlanClusterMigration(R, c, seed) ==
    LET missing   == New \ Met(R, c)
        meets     == missingNewPodMeets(R, c)
        unsettled == {p \in New : ~Settled(R, c, p)}
    IN  CASE meets # {}     -> [phase |-> "Meet", acts |-> meets \X {seed}]
          [] missing # {} /\ meets = {} -> [phase |-> "Standup", acts |-> {}]
          [] missing = {} /\ unsettled # {} ->
                [phase |-> "Replicate", acts |-> planReplicates(R, c)]
          [] missing = {} /\ unsettled = {} /\ nextFailover # {} ->
                [phase |-> "Failover", acts |-> nextFailover]
          [] OTHER -> [phase |-> "Decommission", acts |-> {}]

\* LegacyMigrationReady and LegacyShapePreserved, asked while no new pod exists.
EntryGates(R) ==
    /\ \A p \in Old : pod[p] = "up"
    /\ \A k \in Shards : owner[k] \in Old \cap R

----------------------------------------------------------------------------
(* The driver: one pass gathers and plans, then acts on the plan.          *)

\* Which partition with a legacy node comes first, and which legacy pod, is
\* the order of a Go map and of a cached list.  A forgotten legacy node still
\* knows the mesh, so a partition found from it may be the whole.
Gather(c, seed) ==
    /\ op = Idle /\ "old" \in sts /\ ~held
    /\ \E blind \in {{}} \cup {{p} : p \in Pods} :
       LET R     == {p \in Pods \ blind : pod[p] = "up"}
           found == {mesh[p] : p \in R \cap Old}
       IN  /\ \/ blind = {} /\ UNCHANGED budget
              \/ (\E p \in blind : pod[p] = "up") /\ Spend("probes")
           /\ seed \in R
           /\ c \in found \/ (c = Main /\ Forgotten \in found)
           /\ (\A p \in New : pod[p] = "absent") => EntryGates(R)
           /\ op' = PlanClusterMigration(R, c, seed)
    /\ UNCHANGED <<nodes, sts, held>>

\* Of the commands of a pass one may fail; it is logged, and the others run.
Sent(ok) ==
    \/ ok = op.acts /\ UNCHANGED budget
    \/ (\E a \in op.acts : ok = op.acts \ {a}) /\ Spend("errors")

Standup ==
    /\ op.phase = "Standup" /\ op' = Idle
    /\ sts' = sts \cup {"new"}
    /\ UNCHANGED <<nodes, held, budget>>

\* executeMigrationMeets: the pods that answer join the seed's mesh.
Meet ==
    /\ op.phase = "Meet" /\ op' = Idle
    /\ \E ok \in SUBSET op.acts :
       LET met    == {a \in ok : pod[a[1]] = "up" /\ a[2] # Ghost /\ pod[a[2]] = "up"}
           meshes == {mesh[a[1]] : a \in met} \cup {mesh[a[2]] : a \in met}
           name   == IF meshes \cap {Main, Forgotten} # {} THEN Main ELSE CHOOSE c \in meshes : TRUE
       IN  /\ Sent(ok)
           /\ mesh' = [p \in Pods |-> IF mesh[p] \in meshes THEN name ELSE mesh[p]]
           /\ knows' = [p \in Pods |-> knows[p] /\ mesh'[p] = mesh[p]]
    /\ UNCHANGED <<pod, master, data, owner, sts, held>>

\* CLUSTER REPLICATE of the owner the plan saw, which Redis refuses of a node
\* that is a replica by now.
Replicate ==
    /\ op.phase = "Replicate" /\ op' = Idle
    /\ \E ok \in SUBSET op.acts :
       LET taken == {a \in ok : /\ pod[a[1]] = "up" /\ owner[ShardOf(a[1])] # a[1]
                                /\ a[2] = Ghost \/ master[a[2]] = NoPod}
       IN  /\ Sent(ok)
           /\ master' = [p \in Pods |-> IF \E a \in taken : a[1] = p
                                        THEN (CHOOSE a \in taken : a[1] = p)[2] ELSE master[p]]
           /\ data' = [p \in Pods |-> IF \E a \in taken : a[1] = p THEN "none" ELSE data[p]]
    /\ UNCHANGED <<pod, mesh, knows, owner, sts, held>>

\* p takes its range over: the others of the shard follow it, and resume from
\* the replication stream they share.
TakesOver(p) ==
    LET k   == ShardOf(p)
        old == owner[k]
        Follows(q) == q # p /\ ShardOf(q) = k /\ (master[q] = old \/ q = old)
    IN  /\ owner' = [owner EXCEPT ![k] = p]
        /\ master' = [q \in Pods |-> IF q = p THEN NoPod ELSE IF Follows(q) THEN p ELSE master[q]]
        /\ data' = [q \in Pods |-> IF q = p THEN "live"
                                   ELSE IF Follows(q) /\ data[q] = "live" THEN "copy" ELSE data[q]]

\* A coordinated CLUSTER FAILOVER takes both sides; Redis refuses or gives up
\* otherwise.
Failover ==
    /\ op.phase = "Failover" /\ op' = Idle
    /\ \E ok \in SUBSET op.acts :
       /\ Sent(ok)
       /\ IF \E a \in ok : pod[a[1]] = "up" /\ IsLinkUpReplicaOf(a[1], owner[ShardOf(a[1])])
          THEN \E a \in ok : TakesOver(a[1])
          ELSE UNCHANGED <<master, data, owner>>
    /\ UNCHANGED <<pod, mesh, knows, sts, held>>

\* The legacy nodes are forgotten by all that answer, then their StatefulSet
\* is deleted, which may fail.
Decommission ==
    /\ op.phase = "Decommission" /\ op' = Idle
    /\ mesh' = [p \in Pods |-> IF p \in Old /\ mesh[p] = Main THEN Forgotten ELSE mesh[p]]
    /\ \/ sts' = sts \ {"old"} /\ UNCHANGED budget
       \/ Spend("errors") /\ UNCHANGED sts
    /\ UNCHANGED <<pod, knows, master, data, owner, held>>

Meshes == Pods \cup {Main, Forgotten}

\* No legacy StatefulSet is left: the pass is the steady-state one.
Resume == op = Idle /\ "old" \notin sts /\ UNCHANGED vars

Act == Standup \/ Meet \/ Replicate \/ Failover \/ Decommission

Operator == Act \/ \E c \in Meshes, seed \in Old : Gather(c, seed)

\* The user sets the hold annotation, and removes it.
Hold ==
    /\ ~held /\ Spend("holds") /\ held' = TRUE
    /\ UNCHANGED <<nodes, sts, op>>

Release ==
    /\ held /\ held' = FALSE
    /\ UNCHANGED <<nodes, sts, op, budget>>

----------------------------------------------------------------------------
(* Kubernetes and Redis.                                                   *)

\* A StatefulSet's pod starts with a node that knows nobody.
StartPod(p) ==
    /\ pod[p] = "absent" /\ p[1] \in sts
    /\ pod' = [pod EXCEPT ![p] = "up"]
    /\ UNCHANGED <<mesh, knows, master, data, owner, sts, held, op, budget>>

Unlinked(p) ==
    [q \in Pods |-> IF q = p THEN "none"
                    ELSE IF master[q] = p /\ data[q] = "live" THEN "copy" ELSE data[q]]

\* The pod goes with its node's identity; what still names the node names a
\* ghost, and commands to the pod's address fail.
Removed(p) ==
    /\ pod' = [pod EXCEPT ![p] = "absent"] /\ data' = Unlinked(p)
    /\ mesh' = [mesh EXCEPT ![p] = p] /\ knows' = [knows EXCEPT ![p] = FALSE]
    /\ owner' = [k \in Shards |-> IF owner[k] = p THEN Ghost ELSE owner[k]]
    /\ master' = [q \in Pods |-> IF q = p THEN NoPod ELSE IF master[q] = p THEN Ghost ELSE master[q]]
    /\ op' = [op EXCEPT !.acts = {<<a[1], IF a[2] = p THEN Ghost ELSE a[2]>> :
                                    a \in {a \in op.acts : a[1] # p}}]
    /\ UNCHANGED <<sts, held>>

\* Its StatefulSet is gone.
Terminate(p) == pod[p] # "absent" /\ p[1] \notin sts /\ Removed(p) /\ UNCHANGED budget

\* Evicted.
Lose(p) == pod[p] # "absent" /\ p[1] \in sts /\ Removed(p) /\ Fault("losses")

\* A Redis process dies with its data and keeps its identity.
Crash(p) ==
    /\ pod[p] = "up" /\ Fault("crashes")
    /\ pod' = [pod EXCEPT ![p] = "down"] /\ data' = Unlinked(p)
    /\ UNCHANGED <<mesh, knows, master, owner, sts, held, op>>

\* It comes back; the owner of a range waits while a replica could take over.
Restart(p) ==
    /\ pod[p] = "down"
    /\ \A q \in Pods : ~(master[q] = p /\ pod[q] = "up" /\ data[q] # "none")
    /\ pod' = [pod EXCEPT ![p] = "up"]
    /\ UNCHANGED <<mesh, knows, master, data, owner, sts, held, op, budget>>

\* The masters vote for a replica of an owner that is gone.
Elected(p) ==
    /\ pod[p] = "up" /\ data[p] # "none" /\ mesh[p] = Main
    /\ master[p] = owner[ShardOf(p)]
    /\ master[p] \in Pods => pod[master[p]] = "down"
    /\ TakesOver(p)
    /\ UNCHANGED <<pod, mesh, knows, sts, held, op, budget>>

Gossip(p) ==
    /\ pod[p] = "up" /\ ~knows[p] /\ mesh[p] # p
    /\ knows' = [knows EXCEPT ![p] = TRUE]
    /\ UNCHANGED <<pod, mesh, master, data, owner, sts, held, op, budget>>

Sync(p) ==
    /\ pod[p] = "up" /\ data[p] # "live" /\ master[p] \in Pods
    /\ pod[master[p]] = "up" /\ data[master[p]] = "live"
    /\ data' = [data EXCEPT ![p] = "live"]
    /\ UNCHANGED <<pod, mesh, knows, master, owner, sts, held, op, budget>>

----------------------------------------------------------------------------

Init ==
    /\ pod = [p \in Pods |-> IF p \in Old THEN "up" ELSE "absent"]
    /\ mesh = [p \in Pods |-> IF p \in Old THEN Main ELSE p]
    /\ knows = [p \in Pods |-> p \in Old]
    /\ master = [p \in Pods |-> IF p \in Old /\ p[3] > 0 THEN <<"old", p[2], 0>> ELSE NoPod]
    /\ data = [p \in Pods |-> IF p \in Old THEN "live" ELSE "none"]
    /\ owner = [k \in Shards |-> <<"old", k, 0>>]
    /\ sts = {"old"} /\ held = FALSE /\ op = Idle /\ budget \in Budgets

Environment(p) ==
    StartPod(p) \/ Terminate(p) \/ Restart(p) \/ Elected(p) \/ Gossip(p) \/ Sync(p)

Next ==
    \/ Operator \/ Resume \/ Hold \/ Release
    \/ \E p \in Pods : Environment(p) \/ Crash(p) \/ Lose(p)

Spec == Init /\ [][Next]_vars

GatherMain == \E seed \in Old : /\ pod[seed] = "up" /\ mesh[seed] \in {Main, Forgotten}
                                /\ Gather(Main, seed)

\* Every pass ends and is followed by another; Kubernetes and Redis do their
\* part for every pod; the hold is lifted.  The order of Go's maps keeps no
\* choice of mesh and seed out for ever.
FairSpec ==
    /\ Spec
    /\ WF_vars(Act) /\ SF_vars(GatherMain) /\ WF_vars(Release)
    /\ \A p \in Pods : WF_vars(Environment(p))

----------------------------------------------------------------------------

Copies(k) == {p \in Pods : ShardOf(p) = k /\ pod[p] = "up" /\ data[p] # "none"}

\* The migration never uses redundancy up: at every moment, the deletion of
\* the legacy pods included, each range has the copies the layout promises
\* (one per replica and the owner's), less one for each pod that failed.
CopiesSurvive == \A k \in Shards : Cardinality(Copies(k)) + budget.faults >= 1 + RPS

\* The migration ends: the legacy StatefulSet and its pods go, whatever pod
\* failed on the way, and every range has an owner among the new pods.
MigrationCompletes ==
    <>[](/\ sts = {"new"} /\ \A p \in Old : pod[p] = "absent"
         /\ \A k \in Shards : owner[k] \in New)
=============================================================================
