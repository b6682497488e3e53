--------------------------- MODULE Cluster_proofs ---------------------------
(***************************************************************************)
(* Theorems about cluster mode for any number of shards, replicas and      *)
(* slots and any budget of faults: GenerateSlotRanges is a partition of    *)
(* the slots, a planned move leaves its source a range, and whom the       *)
(* commands of a pass reach.                                               *)
(*                                                                         *)
(* A pass issues FORGET and TAKEOVER from a ground truth that is old by    *)
(* then.  What makes this safe is that a node ID is never used again: a    *)
(* node that was dead when the pass gathered is dead when the command      *)
(* arrives, whatever was restarted in between.                             *)
(***************************************************************************)
EXTENDS Cluster, FiniteSetTheorems, TLAPS

----------------------------------------------------------------------------
(* Slot ranges.                                                            *)

\* Division with remainder.
LEMMA DivMod == ASSUME NEW a \in Nat, NEW b \in Nat, b > 0
                PROVE  a = b * (a \div b) + (a % b)
  OBVIOUS

\* The quotient and the remainder of the division among the shards.
LEMMA Division ==
    /\ NSlots \div NShards \in Nat \ {0}
    /\ NSlots % NShards \in 0..(NShards - 1)
    /\ NSlots = NShards * (NSlots \div NShards) + (NSlots % NShards)
<1>1. NSlots \div NShards \in Nat /\ NSlots % NShards \in 0..(NShards - 1)
  BY ClusterConstants
<1>2. NSlots = NShards * (NSlots \div NShards) + (NSlots % NShards)
  <2>1. NSlots \in Nat /\ NShards \in Nat /\ NShards > 0
    BY ClusterConstants
  <2> QED BY <2>1, DivMod
<1>3. NSlots \div NShards # 0
  BY <1>1, <1>2, ClusterConstants
<1> QED BY <1>1, <1>2, <1>3

\* Multiplication is monotone, by at least one factor a step.
LEMMA Steps == ASSUME NEW q \in Nat, NEW j \in Nat, NEW k \in Nat, j < k
               PROVE  j * q + q =< k * q
<1>1. (k - j - 1) * q >= 0
  OBVIOUS
<1>2. k * q = j * q + q + (k - j - 1) * q
  OBVIOUS
<1> QED BY <1>1, <1>2

\* The ranges follow one another: nothing between two of them, none empty.
LEMMA RangesFollow ==
    /\ RangeStart(0) = 0 /\ RangeStart(NShards) = NSlots
    /\ \A k \in Shards : /\ RangeStart(k) \in Nat /\ RangeSize(k) \in Nat \ {0}
                         /\ RangeStart(k + 1) = RangeStart(k) + RangeSize(k)
<1> DEFINE q == NSlots \div NShards
           r == NSlots % NShards
<1>1. /\ q \in Nat \ {0} /\ r \in 0..(NShards - 1) /\ NSlots = NShards * q + r
      /\ NShards \in Nat \ {0}
  BY Division, ClusterConstants
<1>2. /\ \A k \in 0..NShards : RangeStart(k) = k * q + (IF k < r THEN k ELSE r)
      /\ \A k \in Shards : RangeSize(k) = q + (IF k < r THEN 1 ELSE 0)
  BY DEF RangeStart, RangeSize
<1> HIDE DEF q, r
<1>3. RangeStart(0) = 0 /\ RangeStart(NShards) = NSlots
  BY <1>1, <1>2
<1>4. ASSUME NEW k \in Shards
      PROVE  /\ RangeStart(k) \in Nat /\ RangeSize(k) \in Nat \ {0}
             /\ RangeStart(k + 1) = RangeStart(k) + RangeSize(k)
  <2>1. k \in Nat /\ k \in 0..NShards /\ k + 1 \in 0..NShards
    BY <1>1 DEF Shards
  <2>2. k * q \in Nat /\ (k + 1) * q = k * q + q
    BY <1>1, <2>1
  <2>3. /\ RangeStart(k) = k * q + (IF k < r THEN k ELSE r)
        /\ RangeStart(k + 1) = k * q + q + (IF k + 1 < r THEN k + 1 ELSE r)
        /\ RangeSize(k) = q + (IF k < r THEN 1 ELSE 0)
    BY <1>2, <2>1, <2>2
  <2> QED BY <1>1, <2>1, <2>2, <2>3
<1> QED BY <1>3, <1>4

\* A lower shard's range ends before a higher one's starts.
LEMMA RangesOrdered ==
    ASSUME NEW j \in Shards, NEW k \in 0..NShards, j < k
    PROVE  RangeStart(j) + RangeSize(j) =< RangeStart(k)
<1> DEFINE q == NSlots \div NShards
           r == NSlots % NShards
<1>1. q \in Nat /\ r \in Nat /\ j \in Nat /\ k \in Nat
  BY Division, ClusterConstants DEF Shards
<1>2. /\ RangeStart(k) = k * q + (IF k < r THEN k ELSE r)
      /\ RangeStart(j) = j * q + (IF j < r THEN j ELSE r)
      /\ RangeSize(j) = q + (IF j < r THEN 1 ELSE 0)
  BY DEF RangeStart, RangeSize
<1> HIDE DEF q, r
<1>3. j * q + q =< k * q /\ j * q \in Nat /\ k * q \in Nat
  BY <1>1, Steps
<1> QED BY <1>1, <1>2, <1>3

\* The shard whose range has slot s, computed as the division suggests: the
\* first r ranges have q + 1 slots, the others q.
RangeOf(s) ==
    LET q == NSlots \div NShards
        r == NSlots % NShards
    IN  IF s < r * (q + 1) THEN s \div (q + 1) ELSE r + (s - r * (q + 1)) \div q

\* A slot lies in the range of that shard.
LEMMA RangesCover ==
    ASSUME NEW s \in Slots
    PROVE  RangeOf(s) \in Shards /\ s \in ExpandSlotRange(GenerateSlotRanges[RangeOf(s)])
<1> DEFINE q == NSlots \div NShards
           r == NSlots % NShards
           t == s - r * (q + 1)
           k == RangeOf(s)
<1>1. /\ q \in Nat \ {0} /\ r \in 0..(NShards - 1) /\ NSlots = NShards * q + r
      /\ NShards \in Nat \ {0} /\ s \in Nat /\ s < NSlots
  BY Division, ClusterConstants DEF Slots
<1>2. k = IF s < r * (q + 1) THEN s \div (q + 1) ELSE r + t \div q
  BY DEF RangeOf
<1>3. \A i \in Shards : i \in Nat /\ RangeStart(i) = i * q + (IF i < r THEN i ELSE r)
                        /\ RangeSize(i) = q + (IF i < r THEN 1 ELSE 0)
  BY ClusterConstants DEF RangeStart, RangeSize, Shards
<1>4. t = s - (r * q + r) /\ r * q \in Nat /\ q + 1 \in Nat
  BY <1>1
<1> HIDE DEF q, r, t, k
<1>5. k \in Shards /\ RangeStart(k) =< s /\ s < RangeStart(k) + RangeSize(k)
  <2>1. CASE s < r * (q + 1)
    <3>1. /\ k \in Nat /\ s % (q + 1) \in 0..q
          /\ s = (q + 1) * k + (s % (q + 1))
      <4>1. k = s \div (q + 1) /\ q + 1 \in Nat /\ q + 1 > 0
        BY <1>1, <1>2, <2>1
      <4>2. s \div (q + 1) \in Nat /\ s % (q + 1) \in 0..q
        BY <1>1
      <4>3. s = (q + 1) * (s \div (q + 1)) + (s % (q + 1))
        BY <1>1, <4>1, DivMod
      <4> QED BY <4>1, <4>2, <4>3
    <3>2. (q + 1) * k = k * q + k /\ k * q \in Nat
      BY <1>1, <3>1
    <3>3. k < r
      <4>1. SUFFICES ASSUME r =< k PROVE FALSE
        BY <1>1, <3>1
      <4>2. (q + 1) * k = r * (q + 1) + (k - r) * (q + 1) /\ (k - r) * (q + 1) >= 0
        BY <1>1, <3>1, <4>1
      <4> QED BY <1>1, <2>1, <3>1, <4>2
    <3>4. k \in Shards
      BY <1>1, <3>1, <3>3 DEF Shards
    <3> QED BY <1>1, <1>3, <3>1, <3>2, <3>3, <3>4
  <2>2. CASE ~(s < r * (q + 1))
    <3> DEFINE d == t \div q
    <3>1. t \in Nat
      BY <1>1, <1>4, <2>2 DEF t
    <3>2. /\ d \in Nat /\ t % q \in 0..(q - 1)
          /\ t = q * d + (t % q)
      BY <1>1, <3>1, DivMod
    <3>3. k = r + d
      BY <1>2, <2>2
    <3> HIDE DEF d
    <3>4. k * q = r * q + q * d /\ q * d \in Nat
      BY <1>1, <3>2, <3>3
    <3>5. k < NShards
      <4>1. SUFFICES ASSUME NShards =< k PROVE FALSE
        BY <1>1, <3>2, <3>3
      <4>2. k * q = NShards * q + (k - NShards) * q /\ (k - NShards) * q >= 0
        BY <1>1, <3>2, <3>3, <4>1
      <4>3. s >= k * q + r
        BY <1>1, <1>4, <3>2, <3>4
      <4>4. NShards * q \in Nat /\ (k - NShards) * q \in Nat
        BY <1>1, <3>2, <3>3, <4>1
      <4>5. s >= NShards * q + r
        BY <1>1, <4>2, <4>3, <4>4
      <4> QED BY <1>1, <4>5
    <3>6. k \in Shards /\ ~(k < r)
      BY <1>1, <3>2, <3>3, <3>5 DEF Shards
    <3> QED BY <1>1, <1>3, <1>4, <3>2, <3>4, <3>6
  <2> QED BY <2>1, <2>2
<1>6. /\ RangeStart(k) \in Nat /\ RangeSize(k) \in Nat
      /\ GenerateSlotRanges[k] = <<RangeStart(k), RangeStart(k) + RangeSize(k) - 1>>
  BY <1>5, RangesFollow DEF GenerateSlotRanges
<1>7. s \in RangeStart(k)..(RangeStart(k) + RangeSize(k) - 1)
  BY <1>1, <1>5, <1>6
<1> QED BY <1>5, <1>6, <1>7 DEF ExpandSlotRange, k

\* Two shards share no slot.
LEMMA RangesDisjoint ==
    ASSUME NEW j \in Shards, NEW k \in Shards, NEW s,
           s \in ExpandSlotRange(GenerateSlotRanges[j]), s \in ExpandSlotRange(GenerateSlotRanges[k])
    PROVE  j = k
<1>1. \A i \in {j, k} : /\ RangeStart(i) \in Nat /\ RangeSize(i) \in Nat
                        /\ s \in RangeStart(i)..(RangeStart(i) + RangeSize(i) - 1)
  BY RangesFollow DEF GenerateSlotRanges, ExpandSlotRange
<1>2. j \in 0..NShards /\ k \in 0..NShards
  BY ClusterConstants DEF Shards
<1>3. ~(j < k)
  BY <1>1, <1>2, RangesOrdered
<1>4. ~(k < j)
  BY <1>1, <1>2, RangesOrdered
<1> QED BY <1>2, <1>3, <1>4

\* GenerateSlotRanges is a partition: every slot belongs to exactly one shard,
\* every shard has a slot, none has a slot that does not exist.
SlotRangesPartition ==
    /\ \A s \in Slots : \E k \in Shards :
          /\ s \in ExpandSlotRange(GenerateSlotRanges[k])
          /\ \A j \in Shards : s \in ExpandSlotRange(GenerateSlotRanges[j]) => j = k
    /\ \A k \in Shards : /\ ExpandSlotRange(GenerateSlotRanges[k]) # {}
                         /\ ExpandSlotRange(GenerateSlotRanges[k]) \subseteq Slots

\* For any number of shards and slots, the closed form of the loop over the
\* shards, with the remainder on the first ones, hands out every slot once.
THEOREM RangesPartition == SlotRangesPartition
<1>1. ASSUME NEW s \in Slots
      PROVE  \E k \in Shards :
                /\ s \in ExpandSlotRange(GenerateSlotRanges[k])
                /\ \A j \in Shards : s \in ExpandSlotRange(GenerateSlotRanges[j]) => j = k
  <2>1. /\ RangeOf(s) \in Shards
        /\ s \in ExpandSlotRange(GenerateSlotRanges[RangeOf(s)])
    BY RangesCover
  <2>2. \A j \in Shards : s \in ExpandSlotRange(GenerateSlotRanges[j]) => j = RangeOf(s)
    BY <2>1, RangesDisjoint
  <2> QED BY <2>1, <2>2
<1>2. ASSUME NEW k \in Shards
      PROVE  /\ ExpandSlotRange(GenerateSlotRanges[k]) # {}
             /\ ExpandSlotRange(GenerateSlotRanges[k]) \subseteq Slots
  <2>1. /\ RangeStart(k) \in Nat /\ RangeSize(k) \in Nat \ {0}
        /\ ExpandSlotRange(GenerateSlotRanges[k]) = RangeStart(k)..(RangeStart(k) + RangeSize(k) - 1)
    BY RangesFollow DEF GenerateSlotRanges, ExpandSlotRange
  <2>2. k \in Nat /\ k < NShards /\ NShards \in 0..NShards /\ NSlots \in Nat
    BY ClusterConstants DEF Shards
  <2>3. RangeStart(k) + RangeSize(k) =< NSlots
    BY <2>2, RangesOrdered, RangesFollow
  <2>4. RangeStart(k) \in ExpandSlotRange(GenerateSlotRanges[k])
    BY <2>1
  <2> QED BY <2>1, <2>2, <2>3, <2>4 DEF Slots
<1> QED BY <1>1, <1>2 DEF SlotRangesPartition

\* Two shards have different ranges, so ShardOf names the shard of a range.
LEMMA ShardOfRange ==
    ASSUME NEW k \in Shards
    PROVE  ShardOf(GenerateSlotRanges[k]) = k
<1>1. ASSUME NEW j \in Shards, GenerateSlotRanges[j] = GenerateSlotRanges[k] PROVE j = k
  <2>1. PICK s : s \in ExpandSlotRange(GenerateSlotRanges[k])
    BY RangesPartition DEF SlotRangesPartition
  <2> QED BY <1>1, <2>1, RangesDisjoint
<1> QED BY <1>1 DEF ShardOf
----------------------------------------------------------------------------
(* The plan of a reshard.                                                  *)

\* At most one pod is the first by name.
LEMMA OneFirst ==
    ASSUME NEW S, S \subseteq Pods, NEW p \in FirstByName(S), NEW q \in FirstByName(S)
    PROVE  p = q
<1>1. p \in S /\ q \in S /\ p \in Pods /\ q \in Pods
  BY DEF FirstByName
<1>2. p # q => NameBefore(p, q) /\ NameBefore(q, p)
  BY <1>1 DEF FirstByName
<1>3. p[1] \in Int /\ p[2] \in Int /\ q[1] \in Int /\ q[2] \in Int
  BY <1>1, ClusterConstants DEF Pods, ClusterPodRefs, Shards, Ordinals
<1>4. ~(NameBefore(p, q) /\ NameBefore(q, p))
  BY <1>3 DEF NameBefore
<1> QED BY <1>2, <1>4

\* What PlanReshard says of a ground truth: the range that moves is one its
\* source owns beside a lower one, it goes to a master without slots, and
\* the plan names one range and one destination.
ReshardPlan(gt) ==
    \A m \in PlanReshard(gt) :
        /\ m.shard \in Shards /\ m.source \in Reachable(gt) /\ m.dest \in Reachable(gt)
        /\ GenerateSlotRanges[m.shard] \in gt.nodes[m.source].runs
        /\ \E j \in Shards : j < m.shard /\ GenerateSlotRanges[j] \in gt.nodes[m.source].runs
        /\ m.dest # m.source /\ gt.nodes[m.dest].role = "master" /\ gt.nodes[m.dest].runs = {}
        /\ \A n \in PlanReshard(gt) : n.shard = m.shard /\ n.dest = m.dest

\* Whatever the nodes claim, two of them the same range included, a move
\* never takes a master's only range and never gives one to an owner.
THEOREM ReshardLeavesARange ==
    ASSUME NEW gt, Nodes(gt) \subseteq Pods
    PROVE  ReshardPlan(gt)
<1> DEFINE spare == GetEmptyMasters(gt) \cap Reachable(gt)
           owned(p) == {ShardOf(r) : r \in gt.nodes[p].runs}
<1>1. ASSUME NEW m \in PlanReshard(gt)
      PROVE  /\ \A p \in Reachable(gt) : IsOwner(gt, p) => \A r \in gt.nodes[p].runs : Aligned(r)
             /\ \E n \in Surplus(gt) : /\ n.shard = m.shard /\ n.source = m.source
                                       /\ \A o \in Surplus(gt) : n.shard =< o.shard
             /\ m.dest \in FirstByName(spare)
  <2>1. ~\E p \in Reachable(gt) : IsOwner(gt, p) /\ \E r \in gt.nodes[p].runs : ~Aligned(r)
    BY DEF PlanReshard
  <2>2. PICK n \in {n \in Surplus(gt) : \A o \in Surplus(gt) : n.shard =< o.shard},
             d \in FirstByName(spare) :
                m = [shard |-> n.shard, source |-> n.source, dest |-> d]
    BY <2>1 DEF PlanReshard
  <2> QED BY <2>1, <2>2
<1>2. ASSUME NEW n \in Surplus(gt)
      PROVE  /\ n.shard \in Shards /\ n.source \in Reachable(gt) /\ IsOwner(gt, n.source)
             /\ n.shard \in owned(n.source) /\ \E j \in owned(n.source) : j < n.shard
  BY DEF Surplus
<1>3. ASSUME NEW p \in Reachable(gt), \A r \in gt.nodes[p].runs : Aligned(r), NEW k \in owned(p)
      PROVE  k \in Shards /\ GenerateSlotRanges[k] \in gt.nodes[p].runs
  <2>1. PICK r \in gt.nodes[p].runs : k = ShardOf(r)
    OBVIOUS
  <2>2. PICK j \in Shards : GenerateSlotRanges[j] = r
    BY <1>3, <2>1 DEF Aligned
  <2> QED BY <2>1, <2>2, ShardOfRange
<1> HIDE DEF owned
<1>4. ASSUME NEW m \in PlanReshard(gt)
      PROVE  /\ m.shard \in Shards /\ m.source \in Reachable(gt)
             /\ GenerateSlotRanges[m.shard] \in gt.nodes[m.source].runs
             /\ \E j \in Shards : j < m.shard /\ GenerateSlotRanges[j] \in gt.nodes[m.source].runs
  <2>1. PICK n \in Surplus(gt) : n.shard = m.shard /\ n.source = m.source
    BY <1>1
  <2>2. /\ m.shard \in Shards /\ m.source \in Reachable(gt) /\ IsOwner(gt, m.source)
        /\ m.shard \in owned(m.source) /\ \E j \in owned(m.source) : j < m.shard
    BY <1>2, <2>1
  <2>3. \A r \in gt.nodes[m.source].runs : Aligned(r)
    BY <1>1, <2>2
  <2> QED BY <1>3, <2>2, <2>3
<1>5. ASSUME NEW m \in PlanReshard(gt)
      PROVE  /\ m.dest \in Reachable(gt) /\ gt.nodes[m.dest].role = "master"
             /\ gt.nodes[m.dest].runs = {} /\ m.dest # m.source
  <2>1. m.dest \in spare
    BY <1>1 DEF FirstByName
  <2> QED BY <1>4, <2>1 DEF GetEmptyMasters
<1>6. ASSUME NEW m \in PlanReshard(gt), NEW n \in PlanReshard(gt)
      PROVE  n.shard = m.shard /\ n.dest = m.dest
  <2>1. m.shard =< n.shard /\ n.shard =< m.shard
    BY <1>1
  <2>2. m.shard \in Int /\ n.shard \in Int
    BY <1>4, ClusterConstants DEF Shards
  <2>3. spare \subseteq Pods
    BY DEF GetEmptyMasters
  <2>4. n.dest = m.dest
    BY <1>1, <2>3, OneFirst
  <2> QED BY <2>1, <2>2, <2>4
<1> QED BY <1>4, <1>5, <1>6 DEF ReshardPlan
----------------------------------------------------------------------------
(* Node IDs.                                                               *)

\* No probe of a gather is lost; no readiness probe fails without a restart.
NoLostProbes == \A sc \in Scenarios : sc.budget.probes = 0
NoFlaps ==
    \A sc \in Scenarios : /\ sc.budget.flaps = 0
                          /\ \A p \in Pods : sc.node[p].proc = "up" => sc.node[p].ready

Fields == {"proc", "ready", "restarted", "ip", "start", "role", "master", "view", "smap", "ep", "data"}
IsNode(n) == n = [f \in Fields |-> n[f]] /\ n.start \in Nat

\* Some process has or had this ID.
Known(id) == Issued(node, id)

\* A node hears only of IDs that processes had, its own among them; what does
\* not run holds no data and is not ready.
NodesInv ==
    /\ node = [p \in Pods |-> node[p]]
    /\ \A p \in Pods :
          /\ IsNode(node[p])
          /\ \A id \in IdsIn(node[p]) : Known(id)
          /\ Up(p) => Id(p) \in node[p].view
          /\ ~Up(p) => node[p].data = {} /\ ~node[p].ready
          /\ NoFlaps /\ Up(p) => node[p].ready

BudgetInv ==
    /\ budget \in Budgets
    /\ NoLostProbes => budget.probes = 0
    /\ NoFlaps => budget.flaps = 0

\* The pods whose probe in the gather got no answer.
Silent(gt) == Nodes(gt) \ Reachable(gt)

GroundIDs(gt) == AllNodeIDs(gt) \cup {gt.nodes[p].master : p \in Nodes(gt)}

\* What a ground truth still says, however old it is: an ID in it that no
\* answering pod had is dead, or its pod was silent though it ran.
GroundInv(gt) ==
    /\ Nodes(gt) \subseteq Pods
    /\ \A id \in GroundIDs(gt) :
          /\ Known(id)
          /\ Alive(id) /\ id \notin LiveIDs(gt) => PodOf(id) \in Silent(gt) /\ ~NoLostProbes

\* The commands still to issue are the ones the ground truth asks for.
PassInv(o) ==
    /\ o = [f \in {"pc", "gt", "todo", "acted"} |-> o[f]]
    /\ o.pc = "forget" => o.todo \subseteq ghostsToRemove(o.gt)
    /\ o.pc \in {"takeover", "force"} => o.todo \subseteq Stranded(o.gt)
    /\ o.pc = "reshard" => o.todo \subseteq PlanReshard(o.gt)

\* A pass decides on what it has just gathered: nothing happens in between.
Deciding(o) == o.pc \in {"plan", "report"}
Current == Deciding(op) /\ NoLostProbes => op.gt = Gathered({})

ClusterInv == NodesInv /\ BudgetInv /\ GroundInv(op.gt) /\ PassInv(op) /\ Current

\* FORGET, which reaches every node, never names a node that runs, unless its
\* pod did not answer the probe of this very pass.
ForgetSparesTheLiving ==
    op.pc = "forget" =>
        \A id \in op.todo : Alive(id) => PodOf(id) \in Silent(op.gt) /\ ~NoLostProbes

\* A forced promotion deposes no live master, unless its pod did not answer
\* the probe, or the replica has followed another master since.
TakeoverSparesTheLiving ==
    [][\A p \in Pods :
          /\ Takeover(p) /\ node' # node
          /\ node[p].master = op.gt.nodes[p].master /\ Alive(node[p].master)
          => PodOf(node[p].master) \in Silent(op.gt) /\ ~NoLostProbes]_vars

\* A pod that planClusterWipeRecovery would delete holds no data.
RecycledAreEmpty == \A p \in Recyclable : node[p].data = {}

\* When the status says Running, every pod runs, no node lists one that does
\* not, and a node whose map has every slot on a live owner was found.
RunningIsServed ==
    Deciding(op) /\ PhaseFor(op.gt) = "Running" =>
        /\ \A p \in Pods : Up(p) /\ \A id \in node[p].view : Alive(id)
        /\ \E p \in Pods : \A s \in Slots : Alive(node[p].smap[s].id)
\* The ID of a process names its pod and tells its processes apart.
LEMMA IdParts ==
    ASSUME NEW p \in Pods, NEW k
    PROVE  PodOf(IdOf(p, k)) = p /\ IdOf(p, k) # NoId /\ IdOf(p, k)[3] = k
  BY DEF PodOf, IdOf, NoId, Pods, ClusterPodRefs

\* The ID k of pod p is alive while p runs its k-th process.
LEMMA AliveParts ==
    ASSUME NEW p \in Pods, NEW k
    PROVE  Alive(IdOf(p, k)) <=> Up(p) /\ node[p].start = k
<1>1. Alive(IdOf(p, k)) <=> Up(p) /\ IdOf(p, node[p].start) = IdOf(p, k)
  BY IdParts DEF Alive, Id
<1> QED BY <1>1, IdParts

\* A process knows of itself.
LEMMA OwnKnown == ASSUME NodesInv, NEW p \in Pods PROVE Known(Id(p))
  BY DEF Known, Issued, Id, NodesInv, IsNode, Pods

\* What a step may make of the node of p: the same process goes on or stops,
\* or another one starts where none runs.
Kept(p, n) ==
    /\ IsNode(n)
    /\ \/ n.start = node[p].start /\ (n.proc = "up" => Up(p))
       \/ n.start = node[p].start + 1 /\ ~Up(p)
    /\ \A id \in IdsIn(n) : Known(id) \/ id = IdOf(p, n.start)
    /\ n.proc = "up" => IdOf(p, n.start) \in n.view
    /\ n.proc # "up" => n.data = {} /\ ~n.ready
    /\ NoFlaps /\ n.proc = "up" => n.ready

\* No step reuses an ID.
Steady == node' = [p \in Pods |-> node'[p]] /\ \A p \in Pods : Kept(p, node'[p])

\* A node that is left alone.
LEMMA SameKept == ASSUME NodesInv, NEW p \in Pods PROVE Kept(p, node[p])
  BY DEF NodesInv, Kept, Up, Id

LEMMA SameSteady == ASSUME NodesInv, UNCHANGED node PROVE Steady
<1>1. node' = [p \in Pods |-> node'[p]]
  BY DEF NodesInv
<1> QED BY <1>1, SameKept DEF Steady

\* One node changes.
LEMMA OneSteady ==
    ASSUME NodesInv, NEW p \in Pods,
           \E n : node' = [node EXCEPT ![p] = n] /\ Kept(p, n)
    PROVE  Steady
<1>1. PICK n : node' = [node EXCEPT ![p] = n] /\ Kept(p, n)
  OBVIOUS
<1>2. node' = [q \in Pods |-> IF q = p THEN n ELSE node[q]]
  BY <1>1 DEF NodesInv
<1>3. ASSUME NEW q \in Pods PROVE Kept(q, node'[q])
  <2>1. node'[q] = IF q = p THEN n ELSE node[q]
    BY <1>2
  <2> QED BY <1>1, <2>1, SameKept
<1> QED BY <1>2, <1>3 DEF Steady

\* Every node changes.
LEMMA AllSteady ==
    ASSUME \E f : node' = [p \in Pods |-> f[p]] /\ \A p \in Pods : Kept(p, f[p])
    PROVE  Steady
<1>1. PICK f : node' = [p \in Pods |-> f[p]] /\ \A p \in Pods : Kept(p, f[p])
  OBVIOUS
<1>2. \A p \in Pods : node'[p] = f[p]
  BY <1>1
<1> QED BY <1>1, <1>2 DEF Steady

\* An ID that was given stays given, and a dead one stays dead.
LEMMA DeadStaysDead ==
    ASSUME NodesInv, Steady, NEW id, Known(id)
    PROVE  Known(id)' /\ (Alive(id)' => Alive(id))
<1>1. CASE id = NoId
  BY <1>1 DEF Known, Issued, Alive
<1>2. CASE id # NoId
  <2>1. PICK p \in Pods : \E k \in 0..node[p].start : id = IdOf(p, k)
    BY <1>2 DEF Known, Issued, Pods
  <2>2. PICK k \in 0..node[p].start : id = IdOf(p, k)
    BY <2>1
  <2>3. node[p].start \in Nat /\ node'[p].start \in Nat
    BY DEF NodesInv, Steady, Kept, IsNode
  <2>4. \/ node'[p].start = node[p].start /\ (Up(p)' => Up(p))
        \/ node'[p].start = node[p].start + 1 /\ ~Up(p)
    BY DEF Steady, Kept, Up
  <2>5. k \in 0..node'[p].start
    BY <2>2, <2>3, <2>4
  <2>6. Known(id)'
    BY <2>2, <2>5 DEF Known, Issued, Pods
  <2>7. (Alive(id) <=> Up(p) /\ node[p].start = k) /\ (Alive(id)' <=> Up(p)' /\ node'[p].start = k)
    <3>1. Alive(id) <=> Up(p) /\ node[p].start = k
      BY <2>2, AliveParts
    <3>2. Alive(id)' <=> Up(p)' /\ IdOf(p, node'[p].start) = id
      BY <2>2, IdParts DEF Alive, Id
    <3> QED BY <2>2, <3>1, <3>2, IdParts
  <2> QED BY <2>2, <2>3, <2>4, <2>6, <2>7
<1> QED BY <1>1, <1>2

\* So the invariant of the nodes is preserved, ...
LEMMA NodesKept == ASSUME NodesInv, Steady PROVE NodesInv'
<1>1. ASSUME NEW p \in Pods, NEW id \in IdsIn(node'[p]) PROVE Known(id)'
  <2>1. CASE Known(id)
    BY <2>1, DeadStaysDead
  <2>2. CASE id = IdOf(p, node'[p].start)
    <3>1. node'[p].start \in Nat
      BY DEF Steady, Kept, IsNode
    <3> QED BY <2>2, <3>1 DEF Known, Issued, Pods
  <2> QED BY <2>1, <2>2 DEF Steady, Kept
<1>2. ASSUME NEW p \in Pods
      PROVE  /\ IsNode(node'[p])
             /\ Up(p)' => Id(p)' \in node'[p].view
             /\ ~Up(p)' => node'[p].data = {} /\ ~node'[p].ready
             /\ NoFlaps /\ Up(p)' => node'[p].ready
  BY DEF Steady, Kept, Up, Id
<1>3. node' = [p \in Pods |-> node'[p]]
  BY DEF Steady
<1> QED BY <1>1, <1>2, <1>3 DEF NodesInv

\* ... and what a ground truth says stays true.
LEMMA GroundKept ==
    ASSUME NodesInv, Steady, NEW gt, GroundInv(gt)
    PROVE  GroundInv(gt)'
<1>1. ASSUME NEW id \in GroundIDs(gt)
      PROVE  /\ Known(id)'
             /\ Alive(id)' /\ id \notin LiveIDs(gt) => PodOf(id) \in Silent(gt) /\ ~NoLostProbes
  BY DeadStaysDead DEF GroundInv
<1> QED BY <1>1 DEF GroundInv
----------------------------------------------------------------------------
(* What each command and each fault makes of a node.                       *)

\* A process goes on and hears of nothing but IDs that processes had.
LEMMA EditKept ==
    ASSUME NodesInv, NEW p \in Pods, NEW n, n = [f \in Fields |-> n[f]],
           n.proc = node[p].proc, n.start = node[p].start, n.ready = node[p].ready,
           \A id \in IdsIn(n) : Known(id),
           Up(p) => Id(p) \in n.view, ~Up(p) => n.data = {}
    PROVE  Kept(p, n)
  BY DEF NodesInv, Kept, IsNode, Up, Id

LEMMA TakenOverKept ==
    ASSUME NodesInv, NEW p \in Pods, Up(p)
    PROVE  Kept(p, TakenOver(p))
<1> DEFINE n == TakenOver(p)
<1>1. /\ n = [f \in Fields |-> n[f]] /\ n.proc = node[p].proc /\ n.start = node[p].start
      /\ n.ready = node[p].ready /\ n.view = node[p].view /\ n.master = NoId
      /\ \A s \in Slots : n.smap[s].id = Id(p) \/ n.smap[s].id = node[p].smap[s].id
  BY DEF NodesInv, IsNode, Fields, TakenOver
<1>2. Known(Id(p)) /\ Known(NoId) /\ \A id \in IdsIn(node[p]) : Known(id)
  BY OwnKnown DEF NodesInv, Known, Issued
<1>3. \A id \in IdsIn(n) : Known(id)
  BY <1>1, <1>2 DEF IdsIn
<1>4. Id(p) \in n.view
  BY <1>1 DEF NodesInv
<1> QED BY <1>1, <1>3, <1>4, EditKept

LEMMA SlotsAddedKept ==
    ASSUME NodesInv, NEW p \in Pods, NEW S
    PROVE  Kept(p, SlotsAdded(p, S))
<1> DEFINE n == SlotsAdded(p, S)
<1>1. /\ n = [f \in Fields |-> n[f]] /\ n.proc = node[p].proc /\ n.start = node[p].start
      /\ n.ready = node[p].ready /\ n.view = node[p].view /\ n.master = node[p].master
      /\ n.data = node[p].data
      /\ \A s \in Slots : n.smap[s].id = Id(p) \/ n.smap[s].id = node[p].smap[s].id
  BY DEF NodesInv, IsNode, Fields, SlotsAdded
<1>2. Known(Id(p)) /\ \A id \in IdsIn(node[p]) : Known(id)
  BY OwnKnown DEF NodesInv
<1>3. \A id \in IdsIn(n) : Known(id)
  BY <1>1, <1>2 DEF IdsIn
<1>4. (Up(p) => Id(p) \in n.view) /\ (~Up(p) => n.data = {})
  BY <1>1 DEF NodesInv
<1> QED BY <1>1, <1>3, <1>4, EditKept

\* CLUSTER REPLICATE names a node of the view.
LEMMA ReplicatingKept ==
    ASSUME NodesInv, NEW p \in Pods, NEW id, CanReplicate(p, id)
    PROVE  Kept(p, Replicating(p, id))
<1> DEFINE n == Replicating(p, id)
<1>1. /\ n = [f \in Fields |-> n[f]] /\ n.proc = node[p].proc /\ n.start = node[p].start
      /\ n.ready = node[p].ready /\ n.view = node[p].view /\ n.master = id
      /\ n.smap = node[p].smap
  BY DEF NodesInv, IsNode, Fields, Replicating
<1>2. /\ id \in node[p].view /\ Up(p) /\ Id(p) \in node[p].view
      /\ \A i \in IdsIn(node[p]) : Known(i)
  BY DEF CanReplicate, NodesInv
<1>3. \A i \in IdsIn(n) : Known(i)
  BY <1>1, <1>2 DEF IdsIn
<1> QED BY <1>1, <1>2, <1>3, EditKept

LEMMA StoppedKept ==
    ASSUME NodesInv, NEW p \in Pods, NEW proc \in {"yield", "gone"}
    PROVE  Kept(p, Stopped(node[p], proc))
<1> DEFINE n == Stopped(node[p], proc)
<1>1. /\ n = [f \in Fields |-> n[f]] /\ n.proc = proc /\ n.start = node[p].start
      /\ n.view = {} /\ n.master = NoId /\ n.data = {} /\ n.ready = FALSE
      /\ \A s \in Slots : n.smap[s].id = NoId
  BY DEF NodesInv, IsNode, Fields, Stopped, Free
<1>2. \A id \in IdsIn(n) : id = NoId
  BY <1>1 DEF IdsIn
<1> QED BY <1>1, <1>2 DEF Kept, IsNode, NodesInv, Known, Issued

LEMMA StartedKept ==
    ASSUME NodesInv, NEW p \in Pods, ~Up(p), NEW ip, NEW restarted
    PROVE  Kept(p, Started(p, ip, node[p].start + 1, restarted))
<1> DEFINE n == Started(p, ip, node[p].start + 1, restarted)
<1>1. /\ n = [f \in Fields |-> n[f]] /\ n.proc = "up" /\ n.start = node[p].start + 1
      /\ n.view = {IdOf(p, n.start)} /\ n.master = NoId /\ n.ready = TRUE
      /\ \A s \in Slots : n.smap[s].id = NoId
  BY DEF Fields, Started, Free
<1>2. \A id \in IdsIn(n) : id = NoId \/ id = IdOf(p, n.start)
  BY <1>1 DEF IdsIn
<1> QED BY <1>1, <1>2 DEF Kept, IsNode, NodesInv, Known, Issued
\* Gossip spreads the IDs of the nodes heard of and the claims of live ones.
LEMMA MergedKept ==
    ASSUME NodesInv, NEW p \in Pods, Up(p)
    PROVE  Kept(p, Merged(p))
<1> DEFINE M == Mesh(p)
           m == MergedMap(p, M)
           w == Heir(p, m)
           n == [node[p] EXCEPT !.view = @ \cup {Id(q) : q \in M}, !.smap = m]
<1>1. M \subseteq Pods
  BY DEF Mesh
<1>2. \A q \in M : Known(Id(q))
  BY <1>1, OwnKnown
<1>3. (\A id \in IdsIn(node[p]) : Known(id)) /\ Id(p) \in node[p].view
  BY DEF NodesInv
<1>4. ASSUME NEW s \in Slots PROVE Known(m[s].id)
  <2> DEFINE old == node[p].smap[s]
             new == {[id |-> Id(q), ep |-> node[q].ep] : q \in Best(Claims(M, s))}
             won == {c \in new : Alive(old.id) \/ old.ep < c.ep \/ old.id = NoId}
  <2>1. m[s] = IF won # {} THEN CHOOSE c \in won : TRUE ELSE old
    BY DEF MergedMap
  <2>2. Best(Claims(M, s)) \subseteq M
    BY DEF Best, Claims
  <2>3. \A c \in won : Known(c.id)
    BY <1>2, <2>2
  <2>4. Known(old.id)
    BY <1>3 DEF IdsIn
  <2> HIDE DEF won, old, m
  <2> QED BY <2>1, <2>3, <2>4
<1>5. /\ n = [f \in Fields |-> n[f]] /\ n.proc = node[p].proc /\ n.start = node[p].start
      /\ n.ready = node[p].ready /\ n.view = node[p].view \cup {Id(q) : q \in M}
      /\ n.master = node[p].master /\ n.smap = m
  BY DEF NodesInv, IsNode, Fields
<1> HIDE DEF n, m, M
<1>6. CASE w = {}
  <2>1. Merged(p) = n
    BY <1>6 DEF Merged, n, m, M
  <2>2. \A id \in IdsIn(n) : Known(id)
    BY <1>2, <1>3, <1>4, <1>5 DEF IdsIn
  <2>3. Id(p) \in n.view
    BY <1>3, <1>5
  <2> QED BY <1>5, <2>1, <2>2, <2>3, EditKept
<1>7. CASE w # {}
  <2> DEFINE h == CHOOSE id \in w : TRUE
             n2 == [n EXCEPT !.role = "replica", !.master = h]
  <2>1. Merged(p) = n2
    BY <1>7 DEF Merged, n, m, M
  <2>2. Known(h)
    <3>1. h \in w
      BY <1>7
    <3>2. \A id \in w : \E s \in Slots : id = m[s].id
      BY DEF Heir
    <3> QED BY <1>4, <3>1, <3>2
  <2> HIDE DEF h
  <2>3. /\ n2 = [f \in Fields |-> n2[f]] /\ n2.proc = node[p].proc /\ n2.start = node[p].start
        /\ n2.ready = node[p].ready /\ n2.view = n.view /\ n2.master = h /\ n2.smap = m
    BY <1>5 DEF Fields
  <2>4. (\A id \in n.view : Known(id)) /\ Id(p) \in n.view
    BY <1>2, <1>3, <1>5 DEF IdsIn
  <2> HIDE DEF n2
  <2>5. \A id \in IdsIn(n2) : Known(id)
    BY <1>4, <2>2, <2>3, <2>4 DEF IdsIn
  <2> QED BY <2>1, <2>3, <2>4, <2>5, EditKept
<1> QED BY <1>6, <1>7

\* CLUSTER MEET between nodes that run.
LEMMA MetSteady ==
    ASSUME NodesInv, NEW seed \in Pods, NEW T, T \subseteq Pods, node' = Met(seed, T)
    PROVE  Steady
<1>1. ASSUME NEW p \in Pods, NEW S, S \subseteq Pods
      PROVE  Kept(p, [node[p] EXCEPT !.view = @ \cup {Id(q) : q \in S}])
  <2> DEFINE n == [node[p] EXCEPT !.view = @ \cup {Id(q) : q \in S}]
  <2>1. /\ n = [f \in Fields |-> n[f]] /\ n.proc = node[p].proc /\ n.start = node[p].start
        /\ n.ready = node[p].ready /\ n.view = node[p].view \cup {Id(q) : q \in S}
        /\ n.master = node[p].master /\ n.smap = node[p].smap /\ n.data = node[p].data
    BY DEF NodesInv, IsNode, Fields
  <2>2. (\A id \in IdsIn(node[p]) : Known(id)) /\ (\A q \in S : Known(Id(q)))
    BY <1>1, OwnKnown DEF NodesInv
  <2>3. \A id \in IdsIn(n) : Known(id)
    BY <2>1, <2>2 DEF IdsIn
  <2>4. (Up(p) => Id(p) \in n.view) /\ (~Up(p) => n.data = {})
    BY <2>1 DEF NodesInv
  <2> HIDE DEF n
  <2>5. Kept(p, n)
    BY <2>1, <2>3, <2>4, EditKept
  <2> QED BY <2>5 DEF n
<1>2. ASSUME NEW p \in Pods PROVE Kept(p, node'[p])
  <2>1. CASE p = seed
    <3>1. node'[p] = [node[p] EXCEPT !.view = @ \cup {Id(q) : q \in T}]
      BY <2>1 DEF Met
    <3> QED BY <1>1, <3>1
  <2>2. CASE p # seed /\ p \in T
    <3>1. node'[p] = [node[p] EXCEPT !.view = @ \cup {Id(q) : q \in {seed}}]
      BY <2>2 DEF Met
    <3> QED BY <1>1, <3>1
  <2>3. CASE p # seed /\ p \notin T
    BY <2>3, SameKept DEF Met
  <2> QED BY <2>1, <2>2, <2>3
<1>3. node' = [p \in Pods |-> node'[p]]
  BY DEF Met
<1> QED BY <1>2, <1>3 DEF Steady

LEMMA ForgotKept ==
    ASSUME NodesInv, NEW p \in Pods, NEW G, Id(p) \notin G
    PROVE  Kept(p, Forgot(p, G))
<1> DEFINE n == Forgot(p, G)
<1>1. /\ n = [f \in Fields |-> n[f]] /\ n.proc = node[p].proc /\ n.start = node[p].start
      /\ n.ready = node[p].ready /\ n.view \subseteq node[p].view
      /\ (Id(p) \in node[p].view => Id(p) \in n.view)
      /\ n.master = node[p].master /\ n.data = node[p].data
      /\ \A s \in Slots : n.smap[s].id = NoId \/ n.smap[s].id = node[p].smap[s].id
  BY DEF NodesInv, IsNode, Fields, Forgot, Free
<1>2. Known(NoId) /\ \A id \in IdsIn(node[p]) : Known(id)
  BY DEF NodesInv, Known, Issued
<1>3. \A id \in IdsIn(n) : Known(id)
  BY <1>1, <1>2 DEF IdsIn
<1>4. (Up(p) => Id(p) \in n.view) /\ (~Up(p) => n.data = {})
  BY <1>1 DEF NodesInv
<1> QED BY <1>1, <1>3, <1>4, EditKept
\* SETSLOT NODE gives the slots to a node that runs; the keys go along.
LEMMA FlippedSteady ==
    ASSUME NodesInv, NEW m, m.dest \in Pods, Up(m.dest), NEW S, NEW moved,
           node' = Flipped(m, S, moved)
    PROVE  Steady
<1> DEFINE claim    == [id |-> Id(m.dest), ep |-> MaxEpoch + 1]
           remap(n) == [n EXCEPT !.smap = [s \in Slots |-> IF s \in S THEN claim ELSE @[s]]]
<1>1. Known(Id(m.dest))
  BY OwnKnown
<1>2. ASSUME NEW p \in Pods
      PROVE  LET n == node'[p]
             IN  /\ n = [f \in Fields |-> n[f]] /\ n.proc = node[p].proc
                 /\ n.start = node[p].start /\ n.ready = node[p].ready
                 /\ n.view = node[p].view /\ n.master = node[p].master
                 /\ \A s \in Slots : n.smap[s].id = Id(m.dest) \/ n.smap[s].id = node[p].smap[s].id
                 /\ p = m.dest \/ n.data \subseteq node[p].data
  <2>0. node[p] = [f \in Fields |-> node[p][f]]
    BY DEF NodesInv, IsNode
  <2> DEFINE r == remap(node[p])
  <2>r. /\ r = [f \in Fields |-> r[f]] /\ r.proc = node[p].proc
        /\ r.start = node[p].start /\ r.ready = node[p].ready
        /\ r.view = node[p].view /\ r.master = node[p].master /\ r.data = node[p].data
        /\ \A s \in Slots : r.smap[s].id = Id(m.dest) \/ r.smap[s].id = node[p].smap[s].id
    BY <2>0 DEF Fields
  <2>1. CASE p = m.dest
    <3>1. node'[p] = [r EXCEPT !.ep = claim.ep, !.data = @ \cup moved]
      BY <2>1 DEF Flipped
    <3> HIDE DEF r, claim
    <3>2. /\ node'[p] = [f \in Fields |-> node'[p][f]] /\ node'[p].proc = r.proc
          /\ node'[p].start = r.start /\ node'[p].ready = r.ready
          /\ node'[p].view = r.view /\ node'[p].master = r.master /\ node'[p].smap = r.smap
      BY <2>r, <3>1 DEF Fields
    <3> QED BY <2>1, <2>r, <3>2
  <2>2. CASE p # m.dest /\ p = m.source
    <3>1. node'[p] = [r EXCEPT !.data = @ \ S]
      BY <2>2 DEF Flipped
    <3> HIDE DEF r
    <3> QED BY <2>r, <3>1 DEF Fields
  <2>3. CASE p # m.dest /\ p # m.source
    <3>1. node'[p] = node[p] \/ node'[p] = [node[p] EXCEPT !.data = @ \ S]
      BY <2>3 DEF Flipped
    <3> QED BY <2>0, <3>1 DEF Fields
  <2> QED BY <2>1, <2>2, <2>3
<1>3. ASSUME NEW p \in Pods PROVE Kept(p, node'[p])
  <2>1. \A id \in IdsIn(node[p]) : Known(id)
    BY DEF NodesInv
  <2>2. \A id \in IdsIn(node'[p]) : Known(id)
    <3>1. /\ node'[p].view = node[p].view /\ node'[p].master = node[p].master
          /\ \A s \in Slots : \/ node'[p].smap[s].id = Id(m.dest)
                              \/ node'[p].smap[s].id = node[p].smap[s].id
      BY <1>2
    <3>2. \A s \in Slots : Known(node'[p].smap[s].id)
      BY <1>1, <2>1, <3>1 DEF IdsIn
    <3> QED BY <2>1, <3>1, <3>2 DEF IdsIn
  <2>3. (~Up(p) => node'[p].data = {}) /\ (Up(p) => Id(p) \in node'[p].view)
    <3>1. /\ node'[p].view = node[p].view
          /\ p = m.dest \/ node'[p].data \subseteq node[p].data
      BY <1>2
    <3>2. (~Up(p) => node[p].data = {}) /\ (Up(p) => Id(p) \in node[p].view)
      BY DEF NodesInv
    <3> QED BY <3>1, <3>2
  <2> QED BY <1>2, <2>2, <2>3, EditKept
<1>4. node' = [p \in Pods |-> node'[p]]
  BY DEF Flipped
<1> QED BY <1>3, <1>4 DEF Steady

\* The data of a running node changes.
LEMMA DataSteady ==
    ASSUME NodesInv, NEW p \in Pods, Up(p), NEW d, node' = [node EXCEPT ![p].data = d]
    PROVE  Steady
<1> DEFINE n == [node[p] EXCEPT !.data = d]
<1>1. /\ n = [f \in Fields |-> n[f]] /\ n.proc = node[p].proc /\ n.start = node[p].start
      /\ n.ready = node[p].ready /\ n.view = node[p].view /\ n.master = node[p].master
      /\ n.smap = node[p].smap
  BY DEF NodesInv, IsNode, Fields
<1>2. (\A id \in IdsIn(n) : Known(id)) /\ Id(p) \in n.view
  <2>1. (\A id \in IdsIn(node[p]) : Known(id)) /\ Id(p) \in node[p].view
    BY DEF NodesInv
  <2> HIDE DEF n
  <2> QED BY <1>1, <2>1 DEF IdsIn
<1>3. node' = [node EXCEPT ![p] = n]
  OBVIOUS
<1> HIDE DEF n
<1>4. Kept(p, n)
  BY <1>1, <1>2, EditKept
<1> QED BY <1>3, <1>4, OneSteady

\* The readiness of a running node changes.
LEMMA ReadySteady ==
    ASSUME NodesInv, NEW p \in Pods, Up(p), NEW b, node' = [node EXCEPT ![p].ready = b],
           NoFlaps => b
    PROVE  Steady
<1> DEFINE n == [node[p] EXCEPT !.ready = b]
<1>1. /\ n = [f \in Fields |-> n[f]] /\ n.proc = node[p].proc /\ n.start = node[p].start
      /\ n.ready = b /\ n.view = node[p].view /\ n.master = node[p].master
      /\ n.smap = node[p].smap
  BY DEF NodesInv, IsNode, Fields
<1>2. (\A id \in IdsIn(n) : Known(id)) /\ Id(p) \in n.view
  <2>1. (\A id \in IdsIn(node[p]) : Known(id)) /\ Id(p) \in node[p].view
    BY DEF NodesInv
  <2> HIDE DEF n
  <2> QED BY <1>1, <2>1 DEF IdsIn
<1>3. node' = [node EXCEPT ![p] = n]
  OBVIOUS
<1> HIDE DEF n
<1>4. Kept(p, n)
  BY <1>1, <1>2 DEF Kept, IsNode, NodesInv, Up, Id
<1> QED BY <1>3, <1>4, OneSteady
----------------------------------------------------------------------------
(* The ground truth and the course of a pass.                              *)

\* What the gather reads, whichever probes it loses.
LEMMA GatheredGround ==
    ASSUME NodesInv, NEW lost, lost = {} \/ ~NoLostProbes
    PROVE  GroundInv(Gathered(lost))
<1> DEFINE gt == Gathered(lost)
           present == {p \in Pods : node[p].proc # "gone"}
           answers == {p \in present \ lost : Up(p)}
<1>1. /\ Nodes(gt) = present /\ Viewed(gt) = answers
      /\ \A p \in answers : /\ gt.views[p].seen = node[p].view
                            /\ gt.nodes[p].reachable /\ gt.nodes[p].id = Id(p)
      /\ \A p \in present : gt.nodes[p].master \in {node[p].master, NoId}
      /\ \A p \in present : gt.nodes[p].reachable => p \in answers
  BY DEF Gathered, Nodes, Viewed
<1> HIDE DEF gt
<1>2. Reachable(gt) = answers
  BY <1>1 DEF Reachable
<1>3. ASSUME NEW id \in GroundIDs(gt) PROVE Known(id)
  <2>1. \E p \in Pods : id \in node[p].view \cup {node[p].master, NoId}
    BY <1>1 DEF GroundIDs, AllNodeIDs
  <2> QED BY <2>1 DEF NodesInv, IdsIn, Known, Issued
<1>4. ASSUME NEW id, Known(id), Alive(id), id \notin LiveIDs(gt)
      PROVE  PodOf(id) \in Silent(gt) /\ ~NoLostProbes
  <2>1. PICK p \in Pods : \E k \in 0..node[p].start : id = IdOf(p, k)
    BY <1>4 DEF Known, Issued, Pods, Alive
  <2>2. PodOf(id) = p
    BY <2>1, IdParts
  <2>3. Up(p) /\ id = Id(p)
    BY <1>4, <2>2 DEF Alive
  <2>4. p \notin answers
    BY <1>1, <1>2, <1>4, <2>3 DEF LiveIDs
  <2>5. p \in present /\ p \in lost
    BY <2>3, <2>4 DEF Up
  <2> QED BY <1>1, <1>2, <2>2, <2>4, <2>5 DEF Silent
<1>5. GroundInv(gt)
  BY <1>1, <1>3, <1>4 DEF GroundInv
<1> QED BY <1>5 DEF gt

\* Between two passes there is none.
LEMMA NoGround == GroundInv(NoGT)
<1>1. DOMAIN NoGT.nodes = {} /\ DOMAIN NoGT.views = {}
  BY DEF NoGT
<1> QED BY <1>1 DEF GroundInv, GroundIDs, AllNodeIDs, Nodes, Viewed

\* o goes on with the ground truth gt, or ends the pass.
Follows(o, gt) == PassInv(o) /\ o.gt \in {gt, NoGT} /\ ~Deciding(o)

LEMMA IdleFollows == ASSUME NEW gt PROVE Follows(Idle, gt)
  BY DEF Follows, PassInv, Idle, Deciding

LEMMA AtFollows ==
    ASSUME NEW gt, NEW pc, NEW todo, pc \notin {"plan", "report"},
           pc = "forget" => todo \subseteq ghostsToRemove(gt),
           pc \in {"takeover", "force"} => todo \subseteq Stranded(gt),
           pc = "reshard" => todo \subseteq PlanReshard(gt)
    PROVE  Follows(At(pc, gt, todo), gt)
  BY DEF Follows, PassInv, At, Deciding

\* Each step of repairCluster hands the ground truth on to the next.
LEMMA StepsFollow ==
    ASSUME NEW gt
    PROVE  /\ Follows(AfterStep4(gt), gt) /\ Follows(AfterReshard(gt), gt)
           /\ Follows(AfterAddSlots(gt), gt) /\ Follows(AfterGhosts(gt), gt)
           /\ Follows(AfterPartitions(gt), gt)
<1>1. Follows(AfterStep4(gt), gt)
  BY AtFollows DEF AfterStep4
<1>2. Follows(AfterReshard(gt), gt)
  BY <1>1, AtFollows DEF AfterReshard
<1>3. Follows(AfterAddSlots(gt), gt)
  BY <1>2, AtFollows DEF AfterAddSlots
<1>4. Follows(AfterGhosts(gt), gt)
  BY <1>3, AtFollows, IdleFollows DEF AfterGhosts
<1>5. Follows(AfterPartitions(gt), gt)
  BY <1>4, AtFollows DEF AfterPartitions
<1> QED BY <1>1, <1>2, <1>3, <1>4, <1>5

\* The forced promotions are of replicas whose master no answering pod is.
LEMMA RepairFollows ==
    ASSUME NEW gt
    PROVE  Follows(AfterQuorum(gt), gt) /\ Follows(RepairStart(gt), gt)
<1>1. ForcedOrphans(gt) \subseteq Stranded(gt)
  BY DEF ForcedOrphans, Orphans
<1>2. Follows(AfterQuorum(gt), gt)
  BY <1>1, StepsFollow, AtFollows DEF AfterQuorum
<1>3. Follows(RepairStart(gt), gt)
  BY <1>2, AtFollows DEF RepairStart
<1> QED BY <1>2, <1>3

\* A command less to issue.
LEMMA FewerFollows ==
    ASSUME PassInv(op), ~Deciding(op), NEW o, o = [f \in {"pc", "gt", "todo", "acted"} |-> o[f]],
           o.pc = op.pc, o.gt = op.gt, o.todo \subseteq op.todo
    PROVE  Follows(o, op.gt)
  BY DEF Follows, PassInv, Deciding

LEMMA Next1Follows ==
    ASSUME PassInv(op), ~Deciding(op), NEW done, NEW after, Follows(after, op.gt)
    PROVE  Follows(Next1(done, after), op.gt)
<1> DEFINE o == [op EXCEPT !.todo = @ \ {done}]
<1>1. /\ o = [f \in {"pc", "gt", "todo", "acted"} |-> o[f]]
      /\ o.pc = op.pc /\ o.gt = op.gt /\ o.todo \subseteq op.todo
  BY DEF PassInv
<1> HIDE DEF o
<1>2. Follows(o, op.gt)
  BY <1>1, FewerFollows
<1> QED BY <1>2 DEF Next1, o
----------------------------------------------------------------------------
(* The steps.                                                              *)

\* A fault is taken from the budget; there are none of the excluded kinds.
LEMMA SpendKeeps ==
    ASSUME BudgetInv, NEW f \in {"crashes", "losses", "flaps", "errors", "probes"}, Spend(f)
    PROVE  BudgetInv' /\ (f = "probes" => ~NoLostProbes) /\ (f = "flaps" => ~NoFlaps)
<1>1. budget[f] \in Nat /\ budget[f] > 0 /\ budget' = [budget EXCEPT ![f] = budget[f] - 1]
  BY DEF BudgetInv, Budgets, Spend
<1>2. budget[f] - 1 \in Nat
  BY <1>1
<1>3. budget' \in Budgets
  BY <1>1, <1>2 DEF BudgetInv, Budgets
<1>4. (f = "probes" => ~NoLostProbes) /\ (f = "flaps" => ~NoFlaps)
  BY <1>1 DEF BudgetInv
<1>5. (NoLostProbes => budget'.probes = 0) /\ (NoFlaps => budget'.flaps = 0)
  BY <1>1, <1>4 DEF BudgetInv, Budgets
<1> QED BY <1>3, <1>4, <1>5 DEF BudgetInv

\* The invariant survives a step that reuses no ID and goes on with its pass.
Goes == Steady /\ BudgetInv' /\ GroundInv(op'.gt) /\ PassInv(op') /\ Current'

LEMMA GoesKeeps == ASSUME ClusterInv, Goes PROVE ClusterInv'
<1>1. NodesInv /\ Steady
  BY DEF ClusterInv, Goes
<1>2. NodesInv'
  BY <1>1, NodesKept
<1>3. PICK g : g = op'.gt
  OBVIOUS
<1>4. GroundInv(g)
  BY <1>3 DEF Goes
<1>5. GroundInv(g)'
  BY <1>1, <1>4, GroundKept
<1>6. GroundInv(op.gt)'
  BY <1>3, <1>5
<1> QED BY <1>2, <1>6 DEF ClusterInv, Goes

\* A step outside the pass.
LEMMA OutsideGoes ==
    ASSUME ClusterInv, ~Deciding(op), Steady, BudgetInv', UNCHANGED op
    PROVE  Goes
  BY DEF ClusterInv, Goes, Current, Deciding

\* A step of the pass that goes on with its ground truth.
LEMMA PassGoes ==
    ASSUME ClusterInv, Steady, BudgetInv', Follows(op', op.gt)
    PROVE  Goes
<1>1. Current'
  BY DEF Follows, Current, Deciding
<1> QED BY <1>1, NoGround DEF ClusterInv, Goes, Follows

LEMMA SameBudget == ASSUME ClusterInv, UNCHANGED budget PROVE BudgetInv'
  BY DEF ClusterInv, BudgetInv

\* Redis.
LEMMA RedisGoes == ASSUME ClusterInv, ~Deciding(op), Redis PROVE Goes
<1>0. NodesInv /\ UNCHANGED <<op, budget>> /\ BudgetInv'
  BY SameBudget DEF ClusterInv, Redis, Gossip, Elected, Sync, ClientWrite
<1>1. CASE Gossip
  <2> DEFINE f == [p \in Pods |-> IF Up(p) THEN Merged(p) ELSE node[p]]
  <2>1. node' = f /\ f = [p \in Pods |-> f[p]]
    BY <1>1 DEF Gossip
  <2>2. ASSUME NEW p \in Pods PROVE Kept(p, f[p])
    BY <1>0, MergedKept, SameKept
  <2> HIDE DEF f
  <2>3. Steady
    BY <2>1, <2>2, AllSteady
  <2> QED BY <1>0, <2>3, OutsideGoes
<1>2. ASSUME NEW p \in Pods, Elected(p) PROVE Goes
  <2>1. Up(p) /\ node' = [node EXCEPT ![p] = TakenOver(p)]
    BY <1>2 DEF Elected
  <2>2. Steady
    BY <1>0, <2>1, TakenOverKept, OneSteady
  <2> QED BY <1>0, <2>2, OutsideGoes
<1>3. ASSUME NEW p \in Pods, Sync(p) PROVE Goes
  <2>1. PICK d : Up(p) /\ node' = [node EXCEPT ![p].data = d]
    BY <1>3 DEF Sync
  <2>2. Steady
    BY <1>0, <2>1, DataSteady
  <2> QED BY <1>0, <2>2, OutsideGoes
<1>4. ASSUME NEW p \in Pods, NEW s \in Slots, ClientWrite(p, s) PROVE Goes
  <2>1. PICK d : Up(p) /\ node' = [node EXCEPT ![p].data = d]
    <3>1. Up(p) /\ node' = [node EXCEPT ![p].data = node[p].data \cup {s}]
      BY <1>0, <1>4 DEF ClientWrite, NodesInv, IsNode, Fields
    <3> QED BY <3>1
  <2>2. Steady
    BY <1>0, <2>1, DataSteady
  <2> QED BY <1>0, <2>2, OutsideGoes
<1> QED BY <1>1, <1>2, <1>3, <1>4 DEF Redis

\* The StatefulSet controller and the start-up script.
LEMMA KubernetesGoes == ASSUME ClusterInv, ~Deciding(op), Kubernetes PROVE Goes
<1>0. NodesInv /\ UNCHANGED <<op, budget>> /\ BudgetInv'
  BY SameBudget DEF ClusterInv, Kubernetes, Recreate, StartAfterYield, YieldTakeover, ReadyAgain
<1>1. ASSUME NEW p \in Pods, Recreate(p) PROVE Goes
  <2>1. ~Up(p) /\ node' = [node EXCEPT ![p] = Started(p, node[p].ip + 1, node[p].start + 1, FALSE)]
    BY <1>0, <1>1 DEF Recreate, Up, NodesInv
  <2>2. Steady
    BY <1>0, <2>1, StartedKept, OneSteady
  <2> QED BY <1>0, <2>2, OutsideGoes
<1>2. ASSUME NEW p \in Pods, StartAfterYield(p) PROVE Goes
  <2>1. ~Up(p) /\ node' = [node EXCEPT ![p] = Started(p, node[p].ip, node[p].start + 1, TRUE)]
    BY <1>0, <1>2 DEF StartAfterYield, Up, NodesInv
  <2>2. Steady
    BY <1>0, <2>1, StartedKept, OneSteady
  <2> QED BY <1>0, <2>2, OutsideGoes
<1>3. ASSUME NEW p \in Pods, YieldTakeover(p) PROVE Goes
  <2>1. PICK r \in Pods : Up(r) /\ node' = [node EXCEPT ![r] = TakenOver(r)]
    BY <1>3 DEF YieldTakeover, CanTakeOver
  <2>2. Steady
    BY <1>0, <2>1, TakenOverKept, OneSteady
  <2> QED BY <1>0, <2>2, OutsideGoes
<1>4. ASSUME NEW p \in Pods, ReadyAgain(p) PROVE Goes
  <2>1. Up(p) /\ node' = [node EXCEPT ![p].ready = TRUE]
    BY <1>4 DEF ReadyAgain
  <2>2. Steady
    BY <1>0, <2>1, ReadySteady
  <2> QED BY <1>0, <2>2, OutsideGoes
<1> QED BY <1>1, <1>2, <1>3, <1>4 DEF Kubernetes
\* Crashes, lost pods and readiness flaps.
LEMMA FaultsGo == ASSUME ClusterInv, ~Deciding(op), Faults PROVE Goes
<1>0. NodesInv /\ BudgetInv /\ UNCHANGED op
  BY DEF ClusterInv, Faults, Crash, Lose, Flap
<1>1. PICK p \in budget.frail : Crash(p) \/ Lose(p) \/ Flap(p)
  BY DEF Faults
<1>2. p \in Pods
  BY <1>0 DEF BudgetInv, Budgets, Pods
<1>3. CASE Crash(p)
  <2>1. Spend("crashes") /\ node' = [node EXCEPT ![p] = Stopped(node[p], "yield")]
    BY <1>0, <1>2, <1>3 DEF Crash, NodesInv
  <2>2. Steady /\ BudgetInv'
    BY <1>0, <1>2, <2>1, StoppedKept, OneSteady, SpendKeeps
  <2> QED BY <1>0, <2>2, OutsideGoes
<1>4. CASE Lose(p)
  <2>1. Spend("losses") /\ node' = [node EXCEPT ![p] = Stopped(node[p], "gone")]
    BY <1>0, <1>2, <1>4 DEF Lose, NodesInv
  <2>2. Steady /\ BudgetInv'
    BY <1>0, <1>2, <2>1, StoppedKept, OneSteady, SpendKeeps
  <2> QED BY <1>0, <2>2, OutsideGoes
<1>5. CASE Flap(p)
  <2>1. Spend("flaps") /\ Up(p) /\ node' = [node EXCEPT ![p].ready = FALSE]
    BY <1>5 DEF Flap
  <2>2. BudgetInv' /\ ~NoFlaps
    BY <1>0, <2>1, SpendKeeps
  <2>3. Steady
    BY <1>0, <1>2, <2>1, <2>2, ReadySteady
  <2> QED BY <1>0, <2>2, <2>3, OutsideGoes
<1> QED BY <1>1, <1>3, <1>4, <1>5

\* Some pods are deleted.
LEMMA DeletedSteady ==
    ASSUME NodesInv, NEW D,
           node' = [p \in Pods |-> IF p \in D THEN Stopped(node[p], "gone") ELSE node[p]]
    PROVE  Steady
<1> DEFINE f == [p \in Pods |-> IF p \in D THEN Stopped(node[p], "gone") ELSE node[p]]
<1>1. node' = f /\ f = [p \in Pods |-> f[p]]
  OBVIOUS
<1>2. ASSUME NEW p \in Pods PROVE Kept(p, f[p])
  BY StoppedKept, SameKept
<1> HIDE DEF f
<1> QED BY <1>1, <1>2, AllSteady

\* The steps of a pass before its ground truth.
LEMMA WaitingGoes ==
    ASSUME ClusterInv, ~Deciding(op), Tick \/ WaitForPods \/ RecycleFails \/ StartPass
    PROVE  Goes
<1>0. NodesInv /\ BudgetInv
  BY DEF ClusterInv
<1>1. CASE Tick
  <2>1. UNCHANGED <<node, op, budget>>
    BY <1>1 DEF Tick
  <2> QED BY <1>0, <2>1, SameSteady, SameBudget, OutsideGoes
<1>2. CASE WaitForPods
  <2>1. UNCHANGED <<op, budget>>
    BY <1>2 DEF WaitForPods
  <2>2. \/ UNCHANGED node
        \/ node' = [p \in Pods |-> IF p \in Recyclable THEN Stopped(node[p], "gone") ELSE node[p]]
    BY <1>2 DEF WaitForPods
  <2>3. Steady
    BY <1>0, <2>2, SameSteady, DeletedSteady
  <2> QED BY <2>1, <2>3, SameBudget, OutsideGoes
<1>3. CASE RecycleFails
  <2>1. Spend("errors") /\ UNCHANGED op
    BY <1>3 DEF RecycleFails
  <2>2. PICK D : node' = [p \in Pods |-> IF p \in D THEN Stopped(node[p], "gone") ELSE node[p]]
    BY <1>3 DEF RecycleFails
  <2>3. Steady /\ BudgetInv'
    BY <1>0, <2>1, <2>2, DeletedSteady, SpendKeeps
  <2> QED BY <2>1, <2>3, OutsideGoes
<1>4. CASE StartPass
  <2>1. UNCHANGED <<node, budget>> /\ op' = At("gather", NoGT, {})
    BY <1>4 DEF StartPass
  <2>2. Follows(At("gather", NoGT, {}), NoGT)
    BY AtFollows
  <2>3. PassInv(op') /\ op'.gt = NoGT /\ Current'
    BY <2>1, <2>2 DEF Follows, Current, Deciding
  <2> QED BY <1>0, <2>1, <2>3, NoGround, SameSteady, SameBudget DEF Goes
<1> QED BY <1>1, <1>2, <1>3, <1>4

\* A pass that gathers.
LEMMA GatherGoes ==
    ASSUME ClusterInv, Gather \/ GatherForStatus
    PROVE  Goes
<1>0. NodesInv /\ BudgetInv /\ UNCHANGED node
  BY DEF ClusterInv, Gather, GatherForStatus
<1>1. PICK lost :
         /\ \E pc \in {"plan", "report"} : op' = At(pc, Gathered(lost), {})
         /\ BudgetInv' /\ (lost = {} \/ ~NoLostProbes)
  <2>1. CASE Gather
    <3>1. \/ op' = At("plan", Gathered({}), {}) /\ UNCHANGED budget
          \/ Spend("probes") /\ op' = At("plan", Gathered(budget.frail), {})
      BY <2>1 DEF Gather
    <3>2. CASE op' = At("plan", Gathered({}), {}) /\ UNCHANGED budget
      BY <3>2, SameBudget
    <3>3. CASE Spend("probes") /\ op' = At("plan", Gathered(budget.frail), {})
      BY <1>0, <3>3, SpendKeeps
    <3> QED BY <3>1, <3>2, <3>3
  <2>2. CASE GatherForStatus
    <3>1. op' = At("report", Gathered({}), {}) /\ UNCHANGED budget
      BY <2>2 DEF GatherForStatus
    <3> QED BY <3>1, SameBudget
  <2> QED BY <2>1, <2>2
<1>2. GroundInv(Gathered(lost))
  BY <1>0, <1>1, GatheredGround
<1>3. PassInv(op') /\ op'.gt = Gathered(lost)
  <2>1. PICK pc \in {"plan", "report"} : op' = At(pc, Gathered(lost), {})
    BY <1>1
  <2>2. op'.gt = Gathered(lost)
    BY <2>1 DEF At
  <2>3. PassInv(At(pc, Gathered(lost), {}))
    BY DEF PassInv, At
  <2> QED BY <2>1, <2>2, <2>3
<1>4. Gathered({})' = Gathered({})
  BY <1>0 DEF Gathered, Up, Id, Owned, Alive
<1>5. Current'
  BY <1>1, <1>3, <1>4 DEF Current
<1> QED BY <1>0, <1>1, <1>2, <1>3, <1>5, SameSteady DEF Goes

\* The decisions, which issue no command.
LEMMA DecisionGoes ==
    ASSUME ClusterInv, Plan \/ UpdateStatus \/ TrackOrphans
    PROVE  Goes
<1>0. NodesInv /\ BudgetInv /\ UNCHANGED node
  BY DEF ClusterInv, Plan, UpdateStatus, TrackOrphans
<1>1. Follows(op', op.gt) /\ BudgetInv'
  <2>1. CASE Plan
    <3>1. UNCHANGED budget /\ (op' = RepairStart(op.gt) \/ op' = Idle)
      BY <2>1 DEF Plan
    <3> QED BY <3>1, SameBudget, RepairFollows, IdleFollows
  <2>2. CASE UpdateStatus
    <3>1. UNCHANGED budget /\ op' = Idle
      BY <2>2 DEF UpdateStatus
    <3> QED BY <3>1, SameBudget, IdleFollows
  <2>3. CASE TrackOrphans
    <3>1. op' = Idle \/ op' = At("seed", op.gt, {})
      BY <2>3 DEF TrackOrphans
    <3>2. UNCHANGED budget \/ Spend("errors")
      BY <2>3 DEF TrackOrphans
    <3> QED BY <1>0, <3>1, <3>2, SameBudget, SpendKeeps, IdleFollows, AtFollows
  <2> QED BY <2>1, <2>2, <2>3
<1> QED BY <1>0, <1>1, SameSteady, PassGoes
\* The forced promotions.
LEMMA TakeoverGoes ==
    ASSUME ClusterInv, NEW p \in Pods, Takeover(p)
    PROVE  Goes
<1> DEFINE ok    == CanTakeOver(p) /\ Answers(op.gt, p)
           acted == [op EXCEPT !.acted = TRUE, !.todo = @ \ {p}]
           track(b) == [At("track", op.gt, {}) EXCEPT !.acted = b]
           after == IF op.pc = "takeover"
                    THEN IF op.acted THEN Idle ELSE AfterQuorum(op.gt)
                    ELSE track(op.acted)
<1>0. NodesInv /\ BudgetInv /\ PassInv(op) /\ ~Deciding(op)
  BY DEF ClusterInv, Takeover, Deciding
<1>1. ASSUME NEW b PROVE Follows(track(b), op.gt)
  BY DEF Follows, PassInv, At, Deciding
<1>2. Follows(after, op.gt)
  BY <1>1, IdleFollows, RepairFollows
<1>3. Follows(acted, op.gt)
  <2>1. /\ acted = [f \in {"pc", "gt", "todo", "acted"} |-> acted[f]]
        /\ acted.pc = op.pc /\ acted.gt = op.gt /\ acted.todo \subseteq op.todo
    BY <1>0 DEF PassInv
  <2> HIDE DEF acted
  <2> QED BY <1>0, <2>1, FewerFollows
<1>4. \/ /\ ok /\ node' = [node EXCEPT ![p] = TakenOver(p)] /\ UNCHANGED budget
         /\ op' \in {acted, Idle, track(TRUE)}
      \/ op' = Next1(p, after) /\ UNCHANGED node /\ (UNCHANGED budget \/ Spend("errors"))
  BY DEF Takeover
<1> HIDE DEF acted, track, after
<1>5. CASE /\ ok /\ node' = [node EXCEPT ![p] = TakenOver(p)] /\ UNCHANGED budget
           /\ op' \in {acted, Idle, track(TRUE)}
  <2>1. Up(p)
    BY <1>5 DEF CanTakeOver
  <2>2. Steady
    BY <1>0, <1>5, <2>1, TakenOverKept, OneSteady
  <2>3. Follows(op', op.gt)
    BY <1>1, <1>3, <1>5, IdleFollows
  <2> QED BY <1>5, <2>2, <2>3, SameBudget, PassGoes
<1>6. CASE op' = Next1(p, after) /\ UNCHANGED node /\ (UNCHANGED budget \/ Spend("errors"))
  <2>1. Steady /\ BudgetInv'
    BY <1>0, <1>6, SameSteady, SameBudget, SpendKeeps
  <2>2. Follows(op', op.gt)
    BY <1>0, <1>2, <1>6, Next1Follows
  <2> QED BY <2>1, <2>2, PassGoes
<1> QED BY <1>4, <1>5, <1>6

\* MEET and FORGET.
LEMMA MembershipGoes ==
    ASSUME ClusterInv, HealPartitions \/ ForgetGhosts
    PROVE  Goes
<1>0. NodesInv /\ GroundInv(op.gt) /\ op' = Idle /\ BudgetInv'
  BY SameBudget DEF ClusterInv, HealPartitions, ForgetGhosts
<1>1. Steady
  <2>1. CASE HealPartitions
    <3>1. PICK seed, T :
             /\ T \subseteq Nodes(op.gt)
             /\ \/ UNCHANGED node
                \/ /\ AdmissibleWhenConfirmed(AttributeMeetTarget(op.gt, seed))
                   /\ node' = Met(seed, T)
      <4>1. PICK seed : \E T \in SUBSET Nodes(op.gt) :
               node' = IF /\ AdmissibleWhenConfirmed(AttributeMeetTarget(op.gt, seed))
                          /\ confirmPodIP(op.gt, seed) /\ Up(seed)
                       THEN Met(seed, T) ELSE node
        BY <2>1 DEF HealPartitions, MeetTargets
      <4> QED BY <4>1
    <3>2. CASE UNCHANGED node
      BY <1>0, <3>2, SameSteady
    <3>3. CASE /\ AdmissibleWhenConfirmed(AttributeMeetTarget(op.gt, seed))
               /\ node' = Met(seed, T)
      <4>1. seed \in Reachable(op.gt)
        BY <3>3 DEF AdmissibleWhenConfirmed, AttributeMeetTarget
      <4>2. seed \in Pods /\ T \subseteq Pods
        BY <1>0, <3>1, <4>1 DEF GroundInv, Reachable
      <4> QED BY <1>0, <3>3, <4>2, MetSteady
    <3> QED BY <3>1, <3>2, <3>3
  <2>2. CASE ForgetGhosts
    <3> DEFINE f == [p \in Pods |-> IF p \in Reachable(op.gt) /\ Answers(op.gt, p)
                                    THEN Forgot(p, op.todo \ {Id(p)}) ELSE node[p]]
    <3>1. node' = f /\ f = [p \in Pods |-> f[p]]
      BY <2>2 DEF ForgetGhosts
    <3>2. ASSUME NEW p \in Pods PROVE Kept(p, f[p])
      BY <1>0, ForgotKept, SameKept
    <3> HIDE DEF f
    <3> QED BY <3>1, <3>2, AllSteady
  <2> QED BY <2>1, <2>2
<1>2. Follows(op', op.gt)
  BY <1>0, IdleFollows
<1> QED BY <1>0, <1>1, <1>2, PassGoes

\* ADDSLOTS, by the repair or by the bootstrap.
LEMMA AddSlotsGoes ==
    ASSUME ClusterInv, NEW k \in Shards, AssignShard(k) \/ BootstrapSlots(k)
    PROVE  Goes
<1> DEFINE p == shardMasterPodName(k)
           S == ExpandSlotRange(GenerateSlotRanges[k])
<1>0. NodesInv /\ PassInv(op) /\ ~Deciding(op) /\ BudgetInv'
  BY SameBudget DEF ClusterInv, AssignShard, BootstrapSlots, Deciding
<1>1. p \in Pods
  BY ClusterConstants DEF shardMasterPodName, Pods, ClusterPodRefs, Ordinals
<1>2. UNCHANGED node \/ node' = [node EXCEPT ![p] = SlotsAdded(p, S)]
  BY DEF AssignShard, BootstrapSlots
<1>3. Steady
  BY <1>0, <1>1, <1>2, SameSteady, SlotsAddedKept, OneSteady
<1>4. Follows(op', op.gt)
  <2>1. CASE AssignShard(k)
    <3>1. PICK b : \/ op' = [op EXCEPT !.todo = @ \ {k}, !.acted = b]
                   \/ op' = Idle \/ op' = AfterAddSlots(op.gt)
      <4> DEFINE ok == CanAddSlots(p, S) /\ Answers(op.gt, p)
      <4>1. \/ op' = [op EXCEPT !.todo = @ \ {k}, !.acted = @ \/ ok]
            \/ op' = Idle \/ op' = AfterAddSlots(op.gt)
        BY <2>1 DEF AssignShard
      <4>2. [op EXCEPT !.todo = @ \ {k}, !.acted = @ \/ ok]
            = [op EXCEPT !.todo = @ \ {k}, !.acted = op.acted \/ ok]
        BY <1>0 DEF PassInv
      <4> QED BY <4>1, <4>2
    <3>2. CASE op' = [op EXCEPT !.todo = @ \ {k}, !.acted = b]
      <4>1. /\ op' = [f \in {"pc", "gt", "todo", "acted"} |-> op'[f]]
            /\ op'.pc = op.pc /\ op'.gt = op.gt /\ op'.todo \subseteq op.todo
        BY <1>0, <3>2 DEF PassInv
      <4> QED BY <1>0, <4>1, FewerFollows
    <3> QED BY <3>1, <3>2, IdleFollows, StepsFollow
  <2>2. CASE BootstrapSlots(k)
    <3> DEFINE next == IF RPS = 0 THEN At("status", op.gt, {})
                       ELSE At("bootreplicas", op.gt, {p2 \in Pods : p2[2] # 0})
    <3>1. op' = Next1(k, next)
      BY <2>2 DEF BootstrapSlots
    <3>2. Follows(next, op.gt)
      BY AtFollows
    <3> HIDE DEF next
    <3> QED BY <1>0, <3>1, <3>2, Next1Follows
  <2> QED BY <2>1, <2>2
<1> QED BY <1>0, <1>3, <1>4, PassGoes
\* The move of a surplus range.
LEMMA MoveGoes ==
    ASSUME ClusterInv, NEW m, MoveShard(m)
    PROVE  Goes
<1> DEFINE S == ExpandSlotRange(GenerateSlotRanges[m.shard])
<1>0. NodesInv /\ GroundInv(op.gt) /\ PassInv(op) /\ op' = Idle /\ BudgetInv'
  BY SameBudget DEF ClusterInv, MoveShard
<1>1. m \in PlanReshard(op.gt)
  BY <1>0 DEF MoveShard, PassInv
<1>2. m.dest \in Pods
  <2>1. Nodes(op.gt) \subseteq Pods
    BY <1>0 DEF GroundInv
  <2>2. ReshardPlan(op.gt)
    BY <2>1, ReshardLeavesARange
  <2> QED BY <1>1, <2>1, <2>2 DEF ReshardPlan, Reachable
<1>3. \/ UNCHANGED node
      \/ Up(m.dest) /\ node' = Flipped(m, S, S \cap node[m.source].data)
  BY DEF MoveShard, Answers
<1>4. Steady
  BY <1>0, <1>2, <1>3, SameSteady, FlippedSteady
<1>5. Follows(op', op.gt)
  BY <1>0, IdleFollows
<1> QED BY <1>0, <1>4, <1>5, PassGoes

\* REPLICATE, by the repair or by the bootstrap.
LEMMA ReplicateGoes ==
    ASSUME ClusterInv, NEW p \in Pods, Reattach(p) \/ BootstrapReplica(p)
    PROVE  Goes
<1>0. NodesInv /\ PassInv(op) /\ ~Deciding(op) /\ BudgetInv'
  BY SameBudget DEF ClusterInv, Reattach, BootstrapReplica, Deciding
<1>1. \/ UNCHANGED node
      \/ \E id : CanReplicate(p, id) /\ node' = [node EXCEPT ![p] = Replicating(p, id)]
  BY DEF Reattach, BootstrapReplica
<1>2. Steady
  <2>1. CASE UNCHANGED node
    BY <1>0, <2>1, SameSteady
  <2>2. ASSUME NEW id, CanReplicate(p, id), node' = [node EXCEPT ![p] = Replicating(p, id)]
        PROVE  Steady
    BY <1>0, <2>2, ReplicatingKept, OneSteady
  <2> QED BY <1>1, <2>1, <2>2
<1>3. \/ op' = Idle \/ op' = Next1(p, AfterStep4(op.gt)) \/ op' = Next1(p, At("status", op.gt, {}))
  BY DEF Reattach, BootstrapReplica
<1>4. Follows(At("status", op.gt, {}), op.gt)
  BY AtFollows
<1>5. Follows(op', op.gt)
  BY <1>0, <1>3, <1>4, IdleFollows, StepsFollow, Next1Follows
<1> QED BY <1>0, <1>2, <1>5, PassGoes

\* The bootstrap reads every pod again and introduces them to one another.
LEMMA MeetGoes == ASSUME ClusterInv, BootstrapMeet PROVE Goes
<1> DEFINE seed == shardMasterPodName(0)
<1>0. NodesInv /\ BudgetInv'
  BY SameBudget DEF ClusterInv, BootstrapMeet
<1>1. CASE op' = Idle /\ UNCHANGED node
  BY <1>0, <1>1, SameSteady, IdleFollows, PassGoes
<1>2. CASE op' = At("bootslots", Gathered({}), Shards) /\ node' = Met(seed, Pods \ {seed})
  <2>1. seed \in Pods
    BY ClusterConstants DEF shardMasterPodName, Pods, ClusterPodRefs, Ordinals, Shards
  <2>2. Steady
    BY <1>0, <1>2, <2>1, MetSteady
  <2>3. GroundInv(Gathered({}))
    BY <1>0, GatheredGround
  <2>4. op'.gt = Gathered({})
    BY <1>2 DEF At
  <2>5. Follows(At("bootslots", Gathered({}), Shards), Gathered({}))
    BY AtFollows
  <2>6. PassInv(op') /\ Current'
    BY <1>2, <2>5 DEF Follows, Current, Deciding
  <2> QED BY <1>0, <2>2, <2>3, <2>4, <2>6 DEF Goes
<1> QED BY <1>1, <1>2 DEF BootstrapMeet

\* Every step keeps the invariant.
LEMMA NextKeeps == ASSUME ClusterInv, [Next]_vars PROVE ClusterInv'
<1>1. CASE Plan \/ UpdateStatus
  BY <1>1, DecisionGoes, GoesKeeps
<1>2. CASE ~Deciding(op) /\ (Redis \/ Kubernetes \/ Faults \/ Tick)
  BY <1>2, RedisGoes, KubernetesGoes, FaultsGo, WaitingGoes, GoesKeeps
<1>3. CASE ~Deciding(op) /\ Operator
  BY <1>3, WaitingGoes, GatherGoes, DecisionGoes, TakeoverGoes, MembershipGoes, AddSlotsGoes,
     MoveGoes, ReplicateGoes, MeetGoes, GoesKeeps DEF Operator
<1>4. CASE UNCHANGED vars
  <2>1. UNCHANGED <<node, op, budget>>
    BY <1>4 DEF vars
  <2>2. Steady /\ BudgetInv'
    BY <2>1, SameSteady, SameBudget DEF ClusterInv
  <2>3. Gathered({})' = Gathered({})
    BY <2>1 DEF Gathered, Up, Id, Owned, Alive
  <2>4. Goes
    BY <2>1, <2>2, <2>3 DEF Goes, ClusterInv, Current
  <2> QED BY <2>4, GoesKeeps
<1> QED BY <1>1, <1>2, <1>3, <1>4 DEF Next, Deciding

LEMMA InitKeeps == ASSUME Init PROVE ClusterInv
<1>1. PICK sc \in Scenarios : node = sc.node /\ budget = sc.budget
  BY DEF Init
<1>2. node \in [Pods -> NodeStates] /\ budget \in Budgets
  BY <1>1, ScenariosAssumption DEF Pods
<1>3. ASSUME NEW p \in Pods
      PROVE  /\ IsNode(node[p]) /\ \A id \in IdsIn(node[p]) : Known(id)
             /\ Up(p) => Id(p) \in node[p].view
             /\ ~Up(p) => node[p].data = {} /\ ~node[p].ready
             /\ NoFlaps /\ Up(p) => node[p].ready
  <2>1. node[p] \in NodeStates
    BY <1>2
  <2>2. node[p] = [f \in Fields |-> node[p][f]] /\ node[p].start \in Nat
    BY <2>1 DEF NodeStates, Fields
  <2>3. \A id \in IdsIn(node[p]) : Known(id)
    BY <1>1, ScenariosAssumption DEF Known, Pods
  <2>4. /\ Up(p) => Id(p) \in node[p].view
        /\ ~Up(p) => node[p].data = {} /\ ~node[p].ready
        /\ NoFlaps /\ Up(p) => node[p].ready
    BY <1>1, ScenariosAssumption DEF Up, Id, NoFlaps, Pods
  <2> QED BY <2>2, <2>3, <2>4 DEF IsNode
<1>4. NodesInv
  BY <1>2, <1>3 DEF NodesInv
<1>5. BudgetInv
  BY <1>1, <1>2 DEF BudgetInv, NoLostProbes, NoFlaps
<1>6. op = Idle
  BY DEF Init
<1>7. PassInv(op) /\ op.gt = NoGT /\ Current
  BY <1>6 DEF PassInv, Idle, Current, Deciding
<1> QED BY <1>4, <1>5, <1>7, NoGround DEF ClusterInv

\* The inductive invariant.
LEMMA ClusterInvariant == Spec => []ClusterInv
<1>1. Init => ClusterInv
  BY InitKeeps
<1>2. ClusterInv /\ [Next]_vars => ClusterInv'
  BY NextKeeps
<1> QED BY <1>1, <1>2, PTL DEF Spec
----------------------------------------------------------------------------
(* The theorems.                                                           *)

\* Whatever crashes, restarts and moves address while the pass is under way,
\* a FORGET of Step 2 names a node that runs only if the pod of that node did
\* not answer the gather, and never when no probe is lost.
THEOREM ForgetSparesTheLivingAlways == Spec => []ForgetSparesTheLiving
<1>1. ASSUME ClusterInv PROVE ForgetSparesTheLiving
  <2>1. SUFFICES ASSUME op.pc = "forget", NEW id \in op.todo, Alive(id)
                 PROVE  PodOf(id) \in Silent(op.gt) /\ ~NoLostProbes
    BY DEF ForgetSparesTheLiving
  <2>2. id \in ghostsToRemove(op.gt)
    BY <1>1, <2>1 DEF ClusterInv, PassInv
  <2>3. id \in GroundIDs(op.gt) /\ id \notin LiveIDs(op.gt)
    BY <2>2 DEF ghostsToRemove, GhostNodes, GroundIDs
  <2> QED BY <1>1, <2>1, <2>3 DEF ClusterInv, GroundInv
<1> QED BY <1>1, ClusterInvariant, PTL

\* Step 0 and the forced promotions of Step 1, on a stale ground truth.
THEOREM TakeoverSparesTheLivingAlways == Spec => TakeoverSparesTheLiving
<1> DEFINE Spares == \A p \in Pods :
              /\ Takeover(p) /\ node' # node
              /\ node[p].master = op.gt.nodes[p].master /\ Alive(node[p].master)
              => PodOf(node[p].master) \in Silent(op.gt) /\ ~NoLostProbes
<1>1. ASSUME ClusterInv PROVE Spares
  <2>1. SUFFICES ASSUME NEW p \in Pods, Takeover(p),
                        node[p].master = op.gt.nodes[p].master, Alive(node[p].master)
                 PROVE  PodOf(node[p].master) \in Silent(op.gt) /\ ~NoLostProbes
    OBVIOUS
  <2>2. p \in Stranded(op.gt)
    BY <1>1, <2>1 DEF Takeover, ClusterInv, PassInv
  <2>3. node[p].master \in GroundIDs(op.gt) /\ node[p].master \notin LiveIDs(op.gt)
    BY <2>1, <2>2 DEF Stranded, Replicas, GroundIDs
  <2> QED BY <1>1, <2>1, <2>3 DEF ClusterInv, GroundInv
<1>2. ClusterInv /\ [Next]_vars => [Spares]_vars
  BY <1>1
<1> QED BY <1>2, ClusterInvariant, PTL DEF Spec, TakeoverSparesTheLiving

\* The wipe recovery deletes pods that are not ready and were restarted.  If
\* readiness probes do not fail on their own, such a pod is still waiting for
\* its peers and has nothing to lose.
THEOREM RecycledAreEmptyAlways == ASSUME NoFlaps PROVE Spec => []RecycledAreEmpty
<1>1. ASSUME ClusterInv PROVE RecycledAreEmpty
  BY <1>1 DEF ClusterInv, NodesInv, RecycledAreEmpty, Recyclable, recyclable
<1> QED BY <1>1, ClusterInvariant, PTL

\* There are finitely many pods, and finitely many IDs were ever given.
LEMMA FinitePods == IsFiniteSet(Pods)
<1>1. IsFiniteSet(Shards) /\ IsFiniteSet(Ordinals)
  BY ClusterConstants, FS_Interval DEF Shards, Ordinals
<1> QED BY <1>1, FS_Product DEF Pods, ClusterPodRefs

LEMMA FiniteIDs == ASSUME NodesInv, NEW S, \A id \in S : Known(id) PROVE IsFiniteSet(S)
<1> DEFINE had(p) == {IdOf(p, k) : k \in 0..node[p].start}
           all    == {had(p) : p \in Pods}
<1>1. ASSUME NEW p \in Pods PROVE IsFiniteSet(had(p))
  <2> DEFINE f == [k \in 0..node[p].start |-> IdOf(p, k)]
  <2>1. f \in Surjection(0..node[p].start, had(p))
    BY DEF Surjection
  <2>2. IsFiniteSet(0..node[p].start)
    <3>1. 0 \in Int /\ node[p].start \in Int
      BY DEF NodesInv, IsNode
    <3> QED BY <3>1, FS_Interval
  <2> HIDE DEF f, had
  <2> QED BY <2>1, <2>2, FS_Surjection
<1>2. IsFiniteSet(all)
  <2> DEFINE g == [p \in Pods |-> had(p)]
  <2>1. g \in Surjection(Pods, all)
    BY DEF Surjection
  <2> HIDE DEF g, all
  <2> QED BY <2>1, FinitePods, FS_Surjection
<1>3. \A T \in all : IsFiniteSet(T)
  BY <1>1
<1>4. S \subseteq (UNION all) \cup {NoId}
  BY DEF Known, Issued, Pods
<1> HIDE DEF all
<1>5. IsFiniteSet((UNION all) \cup {NoId})
  BY <1>2, <1>3, FS_UNION, FS_AddElement
<1> QED BY <1>4, <1>5, FS_Subset

\* IsHealthy counts IDs and pods, nothing else says that the IDs are those of
\* the pods.  It is enough when every probe is answered: all pods are ready, so
\* they run, each lists itself, and as many IDs as pods leaves no other ID.
THEOREM RunningIsServedAlways == ASSUME NoLostProbes PROVE Spec => []RunningIsServed
<1>1. ASSUME ClusterInv, Deciding(op), PhaseFor(op.gt) = "Running"
      PROVE  /\ \A p \in Pods : Up(p) /\ \A id \in node[p].view : Alive(id)
             /\ \E p \in Pods : \A s \in Slots : Alive(node[p].smap[s].id)
  <2> DEFINE gt   == op.gt
             live == {Id(p) : p \in Pods}
  <2>0. NodesInv /\ gt = Gathered({}) /\ AllReady /\ IsHealthy(gt)
    BY <1>1 DEF ClusterInv, Current, PhaseFor
  <2>1. \A p \in Pods : Up(p) /\ Id(p) \in node[p].view
    BY <2>0 DEF AllReady, NodesInv
  <2>2. /\ Viewed(gt) = Pods
        /\ \A p \in Pods : /\ gt.views[p].seen = node[p].view
                           /\ gt.views[p].ok <=> \A s \in Slots : Alive(node[p].smap[s].id)
    <3> DEFINE present == {p \in Pods : node[p].proc # "gone"}
               answers == {p \in present \ {} : Up(p)}
    <3>1. answers = Pods
      BY <2>1 DEF Up
    <3>2. LET g == Gathered({})
          IN  /\ Viewed(g) = answers
              /\ \A p \in answers :
                    /\ g.views[p].seen = node[p].view
                    /\ g.views[p].ok <=> \A s \in Slots : Alive(node[p].smap[s].id)
      BY DEF Gathered, Viewed
    <3> HIDE DEF answers, gt
    <3> QED BY <2>0, <3>1, <3>2
  <2>3. \E p \in Pods : \A s \in Slots : Alive(node[p].smap[s].id)
    BY <2>0, <2>2 DEF IsHealthy, StateOk
  <2>4. Cardinality(AllNodeIDs(gt)) = Cardinality(Pods)
    BY <2>0 DEF IsHealthy, Pods
  <2> HIDE DEF gt
  <2>s. \A id : id \in AllNodeIDs(gt) <=> \E p \in Pods : id \in node[p].view
    BY <2>2 DEF AllNodeIDs
  <2>5. live \subseteq AllNodeIDs(gt) /\ \A p \in Pods : node[p].view \subseteq AllNodeIDs(gt)
    BY <2>1, <2>s
  <2>6. \A id \in AllNodeIDs(gt) : Known(id)
    BY <2>0, <2>s DEF NodesInv, IdsIn
  <2>7. IsFiniteSet(AllNodeIDs(gt))
    BY <2>0, <2>6, FiniteIDs
  <2>8. Cardinality(live) = Cardinality(Pods)
    <3> DEFINE f == [p \in Pods |-> Id(p)]
    <3>1. \A p, q \in Pods : Id(p) = Id(q) => p = q
      BY IdParts DEF Id
    <3>2. f \in Surjection(Pods, live) /\ f \in Injection(Pods, live)
      BY <3>1 DEF Surjection, Injection, IsInjective
    <3> HIDE DEF f, live
    <3> QED BY <3>2, FinitePods, FS_Surjection
  <2>9. AllNodeIDs(gt) = live
    <3> HIDE DEF live
    <3> QED BY <2>4, <2>5, <2>7, <2>8, FS_Subset
  <2>10. ASSUME NEW p \in Pods PROVE Alive(Id(p))
    BY <2>1, IdParts DEF Alive, Id
  <2> QED BY <2>1, <2>3, <2>5, <2>9, <2>10
<1>2. ClusterInv => RunningIsServed
  BY <1>1 DEF RunningIsServed
<1> QED BY <1>2, ClusterInvariant, PTL
=============================================================================
