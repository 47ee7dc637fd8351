--------------------------- MODULE PlanningProofs ---------------------------
(***************************************************************************)
(* Proofs about the planners: whatever the model answers, wherever a       *)
(* planning is stopped and however often it is repaired and taken up       *)
(* again, its trajectories fit the plan it has, any choice of them can be  *)
(* played in order, what is saved can be resumed, and every step of it     *)
(* makes progress.  The times of segments and slots, the starts of a       *)
(* trajectory and the ends of an arrangement are recursive functions; that *)
(* they are what their equations say, and what follows for every slot, is  *)
(* shown by induction over sets of numbers.                                *)
(***************************************************************************)
EXTENDS Planning, TLAPS, WellFoundedInduction, FiniteSetTheorems

-----------------------------------------------------------------------------
(* The inductive invariant. *)

\* A plan of the shape the agents make, whose segments are in order.
IsArranged(p) == p \in Plans /\ ArrangementIsLegal(p)

\* An arranged plan with a legal story, laid out.
IsAnchored(p) == IsArranged(p) /\ p.groups = PlanningGroups(p) /\ AnchorsAreLegal(p)

\* The trajectories P of the plan p are made for its groups.
IsPoolOf(p, P) ==
  /\ DOMAIN P = GroupIds(p)
  /\ \A id \in GroupIds(p) : \A t \in P[id] :
       /\ TrajectoryFits(GroupWithId(p, id), t)
       /\ \A i \in GroupWithId(p, id).members : t.starts[i] \in Int
       /\ t.made = [i \in GroupWithId(p, id).members |-> p.contents[i]]

\* What a repair or a round that follows one has to go by.
IsReuse(r, f) ==
  /\ r.local > 0
  /\ f.failed # {} /\ f.failed \subseteq GroupIds(r.reuse.slots)
  /\ IsAnchored(r.reuse.slots) /\ IsPoolOf(r.reuse.slots, r.reuse.pool)

\* The replanning state r agrees with how far the round came.
ReplanFits(r, k) ==
  /\ r = [scope |-> r.scope, local |-> r.local, reuse |-> r.reuse, pending |-> r.pending]
  /\ r.local \in Nat /\ r.pending \in BOOLEAN
  /\ r.scope \in {"none", "global", "candidate_local"}
  /\ (r.scope = "candidate_local") = (r.reuse # NoReuse)
  /\ r.scope = "global" => k = 0
  /\ r.scope = "candidate_local" => (r.pending /\ k = 0) \/ (~r.pending /\ k = 2)
  /\ r.pending => r.scope = "candidate_local"

\* A planning of which k agents have done their work in round n.
Whole(k, n, s, P, c, r, f) ==
  /\ k \in 0..4 /\ n \in Nat
  /\ ReplanFits(r, k)
  /\ r.reuse # NoReuse => IsReuse(r, f)
  /\ r.pending => s = r.reuse.slots /\ P = r.reuse.pool
  /\ k >= 1 => IsArranged(s)
  /\ k >= 2 => IsAnchored(s)
  /\ k >= 3 => IsPoolOf(s, P) /\ \A id \in GroupIds(s) : P[id] # {}
  /\ k = 4 => c \in Selections(P)

StateIsWhole == Whole(rank, attempt, slots, pool, path, replan, feedback)

\* What Resume takes up from the checkpoint c.
IsPending(c) == c.stage = "replan_pending" /\ c.scope = "candidate_local"
SavedSlots(c) == IF IsPending(c) THEN c.reuse.slots ELSE c.slots
SavedPool(c) == IF IsPending(c) THEN c.reuse.pool ELSE c.pool
SavedReplan(c) ==
  [scope |-> c.scope, local |-> c.local, reuse |-> c.reuse, pending |-> IsPending(c)]

IsSaved(c) ==
  /\ c.stage \in {"replan_pending", "arrangement", "story", "timeline", "edit"}
  /\ c.stage = "replan_pending" => c.scope # "none"
  /\ c.stage # "edit" => c.path = None
  /\ Whole(StageRank(c.stage), c.attempt, SavedSlots(c), SavedPool(c), c.path,
           SavedReplan(c), c.feedback)

CheckpointIsWhole == checkpoint # None => IsSaved(checkpoint)

IInv == StateIsWhole /\ CheckpointIsWhole

-----------------------------------------------------------------------------
(* Induction over sets of numbers. *)

\* Every set of natural numbers that is not empty has a least element.
LEMMA NatMin ==
  ASSUME NEW T \in SUBSET Nat, T # {}
  PROVE  \E x \in T : \A y \in T : x <= y
<1> DEFINE R == OpToRel(<, Nat)
<1>1. IsWellFoundedOn(R, Nat)
  BY NatLessThanWellFounded
<1>2. \E x \in T : \A y \in T : ~ (<<y, x>> \in R)
  <2> HIDE DEF R
  <2>1. QED
    BY <1>1, WFMin
<1>3. \A x, y \in T : y < x => <<y, x>> \in R
  BY DEF OpToRel
<1>4. \A x, y \in T : ~ (y < x) => x <= y
  OBVIOUS
<1> HIDE DEF R
<1>5. QED
  BY <1>2, <1>3, <1>4

\* A set that holds m, and with every number below n the next one, holds all
\* the numbers from m to n.
LEMMA Ascent ==
  ASSUME NEW m \in Int, NEW n \in Int, NEW S, m <= n => m \in S,
         \A i \in m..(n - 1) : i \in S => i + 1 \in S
  PROVE  m..n \subseteq S
<1> SUFFICES ASSUME NEW k \in m..n, k \notin S
             PROVE  FALSE
  OBVIOUS
<1> DEFINE T == {d \in Nat : m + d <= n /\ m + d \notin S}
<1>1. k - m \in T
  OBVIOUS
<1>2. PICK d \in T : \A e \in T : d <= e
  BY <1>1, NatMin
<1>3. d # 0
  BY <1>2
<1>4. d - 1 \notin T /\ d - 1 \in Nat
  BY <1>2, <1>3
<1>5. m + (d - 1) \in S /\ m + (d - 1) \in m..(n - 1)
  BY <1>2, <1>4
<1>6. (m + (d - 1)) + 1 \in S
  BY <1>5
<1>7. QED
  BY <1>2, <1>6

\* The same downwards.
LEMMA Descent ==
  ASSUME NEW m \in Int, NEW n \in Int, NEW S, m <= n => n \in S,
         \A i \in (m + 1)..n : i \in S => i - 1 \in S
  PROVE  m..n \subseteq S
<1> SUFFICES ASSUME NEW k \in m..n, k \notin S
             PROVE  FALSE
  OBVIOUS
<1> DEFINE T == {d \in Nat : m <= n - d /\ n - d \notin S}
<1>1. n - k \in T
  OBVIOUS
<1>2. PICK d \in T : \A e \in T : d <= e
  BY <1>1, NatMin
<1>3. d # 0
  BY <1>2
<1>4. d - 1 \notin T /\ d - 1 \in Nat
  BY <1>2, <1>3
<1>5. n - (d - 1) \in S /\ n - (d - 1) \in (m + 1)..n
  BY <1>2, <1>4
<1>6. (n - (d - 1)) - 1 \in S
  BY <1>5
<1>7. QED
  BY <1>2, <1>6

\* A value that follows from another one is a value.
LEMMA StepType ==
  ASSUME NEW T, NEW G \in [T \X Int -> T], NEW x \in T, NEW i \in Int
  PROVE  G[<<x, i>>] \in T
<1>1. <<x, i>> \in T \X Int
  OBVIOUS
<1>2. QED
  BY <1>1

\* f has the value c at its first number m, and its last one n, and every other
\* value follows from the one before, or after.
Rises(f, m, n, c, G) == \A i \in m..n : f[i] = IF i = m THEN c ELSE G[<<f[i - 1], i>>]
Falls(f, m, n, c, G) == \A i \in m..n : f[i] = IF i = n THEN c ELSE G[<<f[i + 1], i>>]

\* A function that is defined up to k can be defined for the next number.
LEMMA NextValue ==
  ASSUME NEW m \in Int, NEW k \in Int, m <= k, NEW T, NEW c \in T, NEW G \in [T \X Int -> T],
         NEW f \in [m..k -> T], Rises(f, m, k, c, G)
  PROVE  \E g \in [m..(k + 1) -> T] : Rises(g, m, k + 1, c, G)
<1> DEFINE g == [i \in m..(k + 1) |-> IF i = k + 1 THEN G[<<f[k], k + 1>>] ELSE f[i]]
<1>1. f[k] \in T /\ G[<<f[k], k + 1>>] \in T
  BY StepType
<1>2. \A i \in m..(k + 1) : i # k + 1 => i \in m..k
  OBVIOUS
<1>3. g \in [m..(k + 1) -> T]
  BY <1>1, <1>2
<1>4. ASSUME NEW i \in m..(k + 1)
      PROVE  g[i] = IF i = m THEN c ELSE G[<<g[i - 1], i>>]
  <2>1. CASE i = k + 1
    <3>1. k \in m..(k + 1) /\ k # k + 1 /\ i - 1 = k /\ i # m
      BY <2>1
    <3>2. g[i - 1] = f[k]
      BY <3>1
    <3>3. g[i] = G[<<f[k], k + 1>>]
      BY <2>1
    <3>4. QED
      BY <2>1, <3>1, <3>2, <3>3
  <2>2. CASE i # k + 1
    <3>1. i \in m..k /\ g[i] = f[i]
      BY <1>2, <2>2
    <3>2. i # m => i - 1 \in m..(k + 1) /\ i - 1 # k + 1
      BY <3>1
    <3>3. i # m => g[i - 1] = f[i - 1]
      BY <3>2
    <3>4. QED
      BY <3>1, <3>3 DEF Rises
  <2>3. QED
    BY <2>1, <2>2
<1> HIDE DEF g
<1>5. Rises(g, m, k + 1, c, G)
  BY <1>4 DEF Rises
<1>6. QED
  BY <1>3, <1>5

\* A function is defined by its value at m and by how each value follows from
\* the one before.
LEMMA UpwardRecursion ==
  ASSUME NEW m \in Int, NEW n \in Int, NEW T, NEW c \in T, NEW G \in [T \X Int -> T]
  PROVE  \E f \in [m..n -> T] : Rises(f, m, n, c, G)
<1> DEFINE Def(k) == \E f \in [m..k -> T] : Rises(f, m, k, c, G)
           S == {k \in Int : Def(k)}
<1>1. ASSUME n < m
      PROVE  Def(n)
  <2>1. m..n = {}
    BY <1>1
  <2>2. [i \in m..n |-> c] \in [m..n -> T]
    OBVIOUS
  <2>3. QED
    BY <2>1, <2>2 DEF Rises
<1>2. Def(m)
  <2>1. [i \in m..m |-> c] \in [m..m -> T]
    OBVIOUS
  <2>2. \A i \in m..m : [j \in m..m |-> c][i] = c /\ i = m
    OBVIOUS
  <2>3. QED
    BY <2>1, <2>2 DEF Rises
<1>3. ASSUME NEW k \in m..(n - 1), Def(k)
      PROVE  Def(k + 1)
  <2>1. PICK f \in [m..k -> T] : Rises(f, m, k, c, G)
    BY <1>3
  <2>2. k \in Int /\ m <= k
    OBVIOUS
  <2>3. QED
    BY <2>1, <2>2, NextValue
<1> HIDE DEF Def
<1>4. m <= n => n \in S
  <2> SUFFICES ASSUME m <= n
               PROVE  n \in S
    OBVIOUS
  <2>1. m \in S
    BY <1>2
  <2>2. \A i \in m..(n - 1) : i \in S => i + 1 \in S
    BY <1>3
  <2> HIDE DEF S
  <2>3. m..n \subseteq S
    BY <2>1, <2>2, Ascent
  <2>4. QED
    BY <2>3
<1>5. Def(n)
  BY <1>1, <1>4
<1>6. QED
  BY <1>5 DEF Def

\* The same from n downwards.
LEMMA DownwardRecursion ==
  ASSUME NEW m \in Int, NEW n \in Int, NEW T, NEW c \in T, NEW G \in [T \X Int -> T]
  PROVE  \E f \in [m..n -> T] : Falls(f, m, n, c, G)
<1> DEFINE D == [x \in T \X Int |-> G[<<x[1], -x[2]>>]]
<1>1. \A x \in T, i \in Int : D[<<x, i>>] = G[<<x, -i>>]
  <2> SUFFICES ASSUME NEW x \in T, NEW i \in Int
               PROVE  D[<<x, i>>] = G[<<x, -i>>]
    OBVIOUS
  <2>1. <<x, i>> \in T \X Int
    OBVIOUS
  <2>2. QED
    BY <2>1
<1>2. D \in [T \X Int -> T]
  <2>1. \A x \in T \X Int : x[1] \in T /\ -x[2] \in Int
    OBVIOUS
  <2>2. \A x \in T \X Int : G[<<x[1], -x[2]>>] \in T
    BY <2>1, StepType
  <2>3. QED
    BY <2>2
<1> HIDE DEF D
<1> DEFINE a == -n
           b == -m
<1>3. a \in Int /\ b \in Int
  OBVIOUS
<1> HIDE DEF a, b
<1>4. PICK f \in [a..b -> T] : Rises(f, a, b, c, D)
  BY <1>2, <1>3, UpwardRecursion
<1> DEFINE g == [i \in m..n |-> f[-i]]
<1>5. \A i \in m..n : -i \in a..b /\ -(-i) = i /\ (-i = a) = (i = n)
  BY DEF a, b
<1>6. g \in [m..n -> T]
  BY <1>5
<1>7. ASSUME NEW i \in m..n
      PROVE  g[i] = IF i = n THEN c ELSE G[<<g[i + 1], i>>]
  <2>1. g[i] = f[-i] /\ f[-i] = IF -i = a THEN c ELSE D[<<f[-i - 1], -i>>]
    BY <1>4, <1>5 DEF Rises
  <2>2. CASE i = n
    BY <1>5, <2>1, <2>2
  <2>3. CASE i # n
    <3>1. i + 1 \in m..n /\ -(i + 1) = -i - 1
      BY <2>3
    <3>2. g[i + 1] = f[-i - 1] /\ f[-i - 1] \in T
      BY <1>5, <3>1
    <3>3. D[<<f[-i - 1], -i>>] = G[<<f[-i - 1], i>>]
      <4>1. -i \in Int /\ -(-i) = i
        OBVIOUS
      <4>2. QED
        BY <1>1, <3>2, <4>1
    <3>4. QED
      BY <1>5, <2>1, <2>3, <3>2, <3>3
  <2>4. QED
    BY <2>2, <2>3
<1> HIDE DEF g
<1>8. Falls(g, m, n, c, G)
  BY <1>7 DEF Falls
<1>9. QED
  BY <1>6, <1>8

-----------------------------------------------------------------------------
(* Times. *)

\* F says when each of the durations d begins, one after the other.
IsSum(F, N, d) == F = [i \in 1..N + 1 |-> IF i = 1 THEN 0 ELSE F[i - 1] + d[i - 1]]

\* Durations can be added up.
LEMMA SumExists ==
  ASSUME NEW N \in Nat, NEW d, \A i \in 1..N : d[i] \in Nat
  PROVE  \E f : IsSum(f, N, d)
<1> DEFINE D(x) == x[1] + (IF x[2] - 1 \in 1..N THEN d[x[2] - 1] ELSE 0)
           G == [x \in Nat \X Int |-> D(x)]
           n == N + 1
<1>1. G \in [Nat \X Int -> Nat]
  <2>1. \A x \in Nat \X Int : D(x) \in Nat
    OBVIOUS
  <2> HIDE DEF D
  <2>2. QED
    BY <2>1
<1>2. \A x \in Nat, i \in 2..n : G[<<x, i>>] = x + d[i - 1]
  <2> SUFFICES ASSUME NEW x \in Nat, NEW i \in 2..n
               PROVE  G[<<x, i>>] = x + d[i - 1]
    OBVIOUS
  <2>1. <<x, i>> \in Nat \X Int /\ i - 1 \in 1..N
    OBVIOUS
  <2>2. QED
    BY <2>1
<1>3. n \in Int /\ 1 \in Int /\ 0 \in Nat
  OBVIOUS
<1> HIDE DEF G, n
<1>4. PICK f \in [1..n -> Nat] : Rises(f, 1, n, 0, G)
  BY <1>1, <1>3, UpwardRecursion
<1>5. \A i \in 1..n : f[i] = IF i = 1 THEN 0 ELSE f[i - 1] + d[i - 1]
  <2> SUFFICES ASSUME NEW i \in 1..n
               PROVE  f[i] = IF i = 1 THEN 0 ELSE f[i - 1] + d[i - 1]
    OBVIOUS
  <2>1. i # 1 => i \in 2..n /\ f[i - 1] \in Nat
    BY <1>3
  <2>2. QED
    BY <1>2, <1>4, <2>1 DEF Rises
<1>6. f = [i \in 1..n |-> IF i = 1 THEN 0 ELSE f[i - 1] + d[i - 1]]
  BY <1>5
<1>7. IsSum(f, N, d)
  BY <1>6 DEF IsSum, n
<1>8. QED
  BY <1>7

\* When durations are added up, each begins where the one before ends.
LEMMA Sums ==
  ASSUME NEW N \in Nat, NEW d, \A i \in 1..N : d[i] \in Nat, NEW F, IsSum(F, N, d)
  PROVE  /\ F \in [1..N + 1 -> Nat] /\ F[1] = 0
         /\ \A i \in 1..N : F[i + 1] = F[i] + d[i]
<1> DEFINE n == N + 1
           S == {i \in 1..n : F[i] \in Nat}
<1>1. /\ \A i \in 1..n : F[i] = IF i = 1 THEN 0 ELSE F[i - 1] + d[i - 1]
      /\ F = [i \in 1..n |-> F[i]]
  BY DEF IsSum
<1>2. /\ n \in Int /\ 1 \in Int /\ 1 <= n
      /\ \A i \in 1..N : i + 1 \in 1..n /\ i + 1 # 1 /\ (i + 1) - 1 = i
      /\ \A i \in 1..(n - 1) : i \in 1..N
  OBVIOUS
<1>3. F[1] = 0 /\ \A i \in 1..N : F[i + 1] = F[i] + d[i]
  <2>1. 1 \in 1..n
    BY <1>2
  <2> HIDE DEF n
  <2>2. F[1] = 0
    BY <1>1, <2>1
  <2>3. ASSUME NEW i \in 1..N
        PROVE  F[i + 1] = F[i] + d[i]
    <3>1. i + 1 \in 1..n /\ i + 1 # 1 /\ (i + 1) - 1 = i
      BY <1>2
    <3>2. F[i + 1] = F[(i + 1) - 1] + d[(i + 1) - 1]
      BY <1>1, <3>1, Zenon
    <3>3. QED
      BY <3>1, <3>2, Zenon
  <2>4. QED
    BY <2>2, <2>3
<1>4. F \in [1..n -> Nat]
  <2>1. 1 \in S
    BY <1>3
  <2>2. \A i \in 1..(n - 1) : i \in S => i + 1 \in S
    <3> HIDE DEF n
    <3>1. QED
      BY <1>2, <1>3
  <2> HIDE DEF S, n
  <2>3. 1..n \subseteq S
    BY <1>2, <2>1, <2>2, Ascent
  <2>4. \A i \in 1..n : F[i] \in Nat
    BY <2>3 DEF S
  <2>5. QED
    BY <1>1, <2>4
<1>5. QED
  BY <1>3, <1>4

\* The slots and the segments, and how long they are.
LEMMA Durations ==
  /\ Len(SlotMs) \in Nat /\ Len(SlotMs) >= 1 /\ Slots = 1..Len(SlotMs)
  /\ \A i \in Slots : SlotMs[i] \in Nat /\ SlotMs[i] > 0
  /\ Len(SegmentMs) \in Nat /\ Len(SegmentMs) >= 1 /\ Segments = 1..Len(SegmentMs)
  /\ \A s \in Segments : SegmentMs[s] \in Nat /\ SegmentMs[s] > 0
  BY PlanningAssumption DEF Slots, Segments

\* Each slot starts where the one before ends.
LEMMA OutputTimes ==
  /\ OutputStart \in [1..Len(SlotMs) + 1 -> Nat]
  /\ \A i \in Slots : OutputStart[i + 1] = OutputStart[i] + SlotMs[i]
<1>1. /\ Len(SlotMs) \in Nat /\ Slots = 1..Len(SlotMs)
      /\ \A i \in 1..Len(SlotMs) : SlotMs[i] \in Nat
  BY Durations
<1>2. \E f : IsSum(f, Len(SlotMs), SlotMs)
  BY <1>1, SumExists
<1>3. IsSum(OutputStart, Len(SlotMs), SlotMs)
  BY <1>2 DEF IsSum, OutputStart
<1>4. QED
  BY <1>1, <1>3, Sums

\* Each segment starts where the one before ends.
LEMMA SegmentTimes ==
  /\ SegmentStart \in [1..Len(SegmentMs) + 1 -> Nat]
  /\ \A s \in Segments : SegmentStart[s + 1] = SegmentStart[s] + SegmentMs[s]
<1>1. /\ Len(SegmentMs) \in Nat /\ Segments = 1..Len(SegmentMs)
      /\ \A i \in 1..Len(SegmentMs) : SegmentMs[i] \in Nat
  BY Durations
<1>2. \E f : IsSum(f, Len(SegmentMs), SegmentMs)
  BY <1>1, SumExists
<1>3. IsSum(SegmentStart, Len(SegmentMs), SegmentMs)
  BY <1>2 DEF IsSum, SegmentStart
<1>4. QED
  BY <1>1, <1>3, Sums

\* A segment is over before a later one starts.
LEMMA SegmentsAreInOrder ==
  \A s, u \in Segments : s < u => SegmentEnd(s) <= SegmentStart[u]
<1> SUFFICES ASSUME NEW s \in Segments, NEW u \in Segments, s < u
             PROVE  SegmentEnd(s) <= SegmentStart[u]
  OBVIOUS
<1> DEFINE S == {v \in (s + 1)..u : SegmentStart[s + 1] <= SegmentStart[v]}
<1>1. \A v \in (s + 1)..u : v \in Segments /\ SegmentStart[v] \in Nat
  <2>1. /\ s \in 1..Len(SegmentMs) /\ u \in 1..Len(SegmentMs) /\ Segments = 1..Len(SegmentMs)
        /\ Len(SegmentMs) \in Nat
    BY Durations
  <2>2. \A v \in (s + 1)..u : v \in 1..Len(SegmentMs) /\ v \in 1..Len(SegmentMs) + 1
    BY <2>1
  <2>3. QED
    BY <2>1, <2>2, SegmentTimes
<1>2. s + 1 \in S
  BY <1>1, Durations
<1>3. \A v \in (s + 1)..(u - 1) : v \in S => v + 1 \in S
  <2> SUFFICES ASSUME NEW v \in (s + 1)..(u - 1), v \in S
               PROVE  v + 1 \in S
    OBVIOUS
  <2>1. /\ s \in Int /\ u \in Int
        /\ v \in (s + 1)..u /\ v + 1 \in (s + 1)..u /\ v \in Segments
    BY Durations
  <2>2. SegmentStart[v + 1] = SegmentStart[v] + SegmentMs[v] /\ SegmentMs[v] \in Nat
    BY <2>1, Durations, SegmentTimes
  <2>3. SegmentStart[s + 1] \in Nat /\ SegmentStart[v] \in Nat
    BY <1>1, <2>1, Durations
  <2>4. QED
    BY <2>1, <2>2, <2>3
<1> HIDE DEF S
<1>4. s + 1 \in Int /\ u \in Int /\ s + 1 <= u
  BY Durations
<1>5. (s + 1)..u \subseteq S
  BY <1>2, <1>3, <1>4, Ascent
<1>6. u \in S
  BY <1>4, <1>5
<1>7. QED
  BY <1>6 DEF S, SegmentEnd

-----------------------------------------------------------------------------
(* The ends of sets of slots. *)

\* The first slot of a set of slots.
LEMMA LeastSlot ==
  ASSUME NEW T \in SUBSET Slots, T # {}
  PROVE  Least(T) \in T /\ \A y \in T : Least(T) <= y
<1>1. T \in SUBSET Nat
  BY Durations
<1>2. \E x \in T : \A y \in T : x <= y
  BY <1>1, NatMin
<1>3. QED
  BY <1>2 DEF Least

\* The last slot of a set of slots.
LEMMA GreatestSlot ==
  ASSUME NEW T \in SUBSET Slots, T # {}
  PROVE  Greatest(T) \in T /\ \A y \in T : y <= Greatest(T)
<1> DEFINE N == Len(SlotMs)
           D == {N - x : x \in T}
<1>1. N \in Nat /\ \A x \in T : x \in Nat /\ x <= N
  BY Durations
<1> HIDE DEF N
<1>2. D \in SUBSET Nat /\ D # {}
  BY <1>1
<1>3. PICK d \in D : \A e \in D : d <= e
  BY <1>2, NatMin
<1>4. PICK x \in T : d = N - x
  BY <1>3
<1>5. \A y \in T : y <= x
  <2> SUFFICES ASSUME NEW y \in T
               PROVE  y <= x
    OBVIOUS
  <2>1. N - x <= N - y
    BY <1>3, <1>4
  <2>2. QED
    BY <1>1, <2>1
<1>6. \E z \in T : \A y \in T : y <= z
  BY <1>5
<1>7. QED
  BY <1>6 DEF Greatest

-----------------------------------------------------------------------------
(* Groups of an arrangement. *)

\* What the groups and the planning groups of p depend on: slots that use the
\* segments in order, some of them anchored.
InOrder(p) ==
  /\ p.segment \in [Slots -> Segments]
  /\ p.anchor \in [Slots -> Passages \cup {None}]
  /\ \A i \in Slots \ {1} : p.segment[i - 1] <= p.segment[i]

\* The slots of an arranged plan use the segments in order.
LEMMA ArrangedInOrder == \A p : IsArranged(p) => InOrder(p)
  BY DEF IsArranged, InOrder, Plans, ArrangementIsLegal

\* Segments are numbers.
LEMMA SegmentNumbers ==
  ASSUME NEW p, InOrder(p)
  PROVE  \A k \in Slots : p.segment[k] \in Segments /\ p.segment[k] \in Nat
<1>1. Segments \subseteq Nat
  BY Durations
<1>2. \A k \in Slots : p.segment[k] \in Segments
  BY DEF InOrder
<1>3. QED
  BY <1>1, <1>2

\* Later slots use the same segment or a later one.
LEMMA SegmentsRise ==
  ASSUME NEW p, InOrder(p), NEW i \in Slots, NEW j \in Slots, i <= j
  PROVE  p.segment[i] <= p.segment[j]
<1> DEFINE S == {k \in i..j : p.segment[i] <= p.segment[k]}
<1>1. i \in Nat /\ i >= 1 /\ j \in Nat /\ \A k \in i..j : k \in Slots
  BY Durations
<1>2. \A k \in Slots : p.segment[k] \in Nat
  BY SegmentNumbers
<1>3. i \in S
  BY <1>1, <1>2
<1>4. \A k \in i..(j - 1) : k \in S => k + 1 \in S
  <2> SUFFICES ASSUME NEW k \in i..(j - 1), k \in S
               PROVE  k + 1 \in S
    OBVIOUS
  <2>1. k \in i..j /\ k + 1 \in i..j /\ k + 1 # 1 /\ (k + 1) - 1 = k
    BY <1>1
  <2>2. p.segment[k] <= p.segment[k + 1]
    <3>1. k + 1 \in Slots \ {1}
      BY <1>1, <2>1
    <3>2. p.segment[(k + 1) - 1] <= p.segment[k + 1]
      BY <3>1 DEF InOrder
    <3>3. QED
      BY <2>1, <3>2
  <2>3. QED
    BY <1>1, <1>2, <2>1, <2>2
<1> HIDE DEF S
<1>5. i..j \subseteq S
  BY <1>1, <1>3, <1>4, Ascent
<1>6. j \in S
  BY <1>1, <1>5
<1>7. QED
  BY <1>6 DEF S

\* The segments of the slots up to i.
Used(p, i) == {p.segment[j] : j \in 1..i}

\* Groups are numbers.
LEMMA GroupIsNumber ==
  ASSUME NEW p, InOrder(p), NEW i \in Slots
  PROVE  /\ IsFiniteSet(Used(p, i)) /\ GroupOf(p, i) = Cardinality(Used(p, i))
         /\ GroupOf(p, i) \in Nat
<1>1. 1..i \subseteq Slots /\ i \in Int
  BY Durations
<1>2. IsFiniteSet(1..i)
  BY <1>1, FS_Interval
<1>3. IsFiniteSet(Segments)
  <2>1. 1 \in Int /\ Len(SegmentMs) \in Int /\ Segments = 1..Len(SegmentMs)
    BY Durations
  <2>2. QED
    BY <2>1, FS_Interval
<1>4. IsFiniteSet(Used(p, i))
  <2>1. Used(p, i) \in SUBSET Segments
    BY <1>1, SegmentNumbers DEF Used
  <2>2. QED
    BY <1>3, <2>1, FS_Subset
<1>5. GroupOf(p, i) = Cardinality(Used(p, i))
  BY DEF GroupOf, Used
<1>6. QED
  BY <1>4, <1>5, FS_CardinalityType

\* Groups are numbered in the order of the slots, and slots are of one group if
\* and only if they use one segment.
LEMMA GroupsRise ==
  ASSUME NEW p, InOrder(p), NEW i \in Slots, NEW j \in Slots, i <= j
  PROVE  /\ GroupOf(p, i) <= GroupOf(p, j)
         /\ GroupOf(p, i) = GroupOf(p, j) <=> p.segment[i] = p.segment[j]
<1>1. i \in Nat /\ j \in Nat /\ i >= 1 /\ 1..i \subseteq 1..j /\ 1..j \subseteq Slots
  BY Durations
<1>2. Used(p, i) \in SUBSET Used(p, j)
  BY <1>1 DEF Used
<1>3. GroupOf(p, i) <= GroupOf(p, j)
  BY <1>2, GroupIsNumber, FS_Subset
<1>4. \A k \in Slots : p.segment[k] \in Nat
  BY SegmentNumbers
<1>5. ASSUME GroupOf(p, i) = GroupOf(p, j)
      PROVE  p.segment[i] = p.segment[j]
  <2>1. Used(p, i) = Used(p, j)
    BY <1>2, <1>5, GroupIsNumber, FS_Subset
  <2>2. j \in 1..j
    BY <1>1
  <2>3. p.segment[j] \in Used(p, i)
    BY <2>1, <2>2 DEF Used
  <2>4. PICK k \in 1..i : p.segment[j] = p.segment[k]
    BY <2>3 DEF Used
  <2>5. k \in Slots /\ k <= i
    BY <1>1
  <2>6. p.segment[k] <= p.segment[i] /\ p.segment[i] <= p.segment[j]
    BY <2>5, SegmentsRise
  <2>7. p.segment[i] \in Nat /\ p.segment[j] \in Nat
    BY <1>4
  <2>8. QED
    BY <2>4, <2>6, <2>7
<1>6. ASSUME p.segment[i] = p.segment[j]
      PROVE  GroupOf(p, i) = GroupOf(p, j)
  <2>1. Used(p, j) \subseteq Used(p, i)
    <3> SUFFICES ASSUME NEW k \in 1..j
                 PROVE  p.segment[k] \in Used(p, i)
      BY DEF Used
    <3>1. CASE k <= i
      BY <1>1, <3>1 DEF Used
    <3>2. CASE i < k
      <4>1. k \in Slots /\ i <= k /\ k <= j
        BY <1>1, <3>2
      <4>2. p.segment[i] <= p.segment[k] /\ p.segment[k] <= p.segment[j]
        BY <4>1, SegmentsRise
      <4>3. p.segment[k] = p.segment[i] /\ i \in 1..i
        BY <1>1, <1>4, <1>6, <4>1, <4>2
      <4>4. QED
        BY <4>3 DEF Used
    <3>3. QED
      BY <1>1, <3>1, <3>2
  <2>2. Used(p, i) = Used(p, j)
    BY <1>2, <2>1
  <2>3. QED
    BY <2>2, GroupIsNumber
<1>7. QED
  BY <1>3, <1>5, <1>6

\* A slot between two slots of a group is of that group.
LEMMA GroupsAreConvex ==
  ASSUME NEW p, InOrder(p), NEW i \in Slots, NEW j \in Slots, NEW k \in Slots,
         i <= k, k <= j, GroupOf(p, i) = GroupOf(p, j)
  PROVE  GroupOf(p, k) = GroupOf(p, i)
<1>1. GroupOf(p, i) <= GroupOf(p, k) /\ GroupOf(p, k) <= GroupOf(p, j)
  BY GroupsRise
<1>2. GroupOf(p, i) \in Nat /\ GroupOf(p, k) \in Nat
  BY GroupIsNumber
<1>3. QED
  BY <1>1, <1>2

-----------------------------------------------------------------------------
(* Planning groups. *)

\* Slots of one group with no anchor from the one to the other.
Beside(p, i, j) ==
  /\ GroupOf(p, i) = GroupOf(p, j)
  /\ \A k \in Anchored(p) : ~ (i <= k /\ k <= j) /\ ~ (j <= k /\ k <= i)

\* The slots a planning group of group g, with slots M, is numbered by.
Earlier(p, M, g) ==
  {j \in Members(p, g) \ Anchored(p) : j < Least(M) /\ (j + 1) \in Anchored(p)}

\* The slots of a planning group are those beside any of them.
LEMMA PlanningMembers ==
  ASSUME NEW p, InOrder(p), NEW i \in Slots \ Anchored(p)
  PROVE  PlanningGroupOf(p, i).members = {j \in Slots : Beside(p, i, j)}
<1> DEFINE before == AnchorsBefore(p, i)
           after == AnchorsAfter(p, i)
<1>1. /\ before \in SUBSET Slots /\ after \in SUBSET Slots
      /\ \A k \in Slots : k \in Nat
  BY Durations DEF AnchorsBefore, AnchorsAfter, Anchored
<1>2. \A j \in Slots : (before = {} \/ j > Greatest(before)) <=> \A k \in before : k < j
  <2> SUFFICES ASSUME NEW j \in Slots, before # {}
               PROVE  j > Greatest(before) <=> \A k \in before : k < j
    OBVIOUS
  <2>1. Greatest(before) \in before /\ \A k \in before : k <= Greatest(before)
    BY <1>1, GreatestSlot
  <2> HIDE DEF before
  <2>2. QED
    BY <1>1, <2>1
<1>3. \A j \in Slots : (after = {} \/ j < Least(after)) <=> \A k \in after : j < k
  <2> SUFFICES ASSUME NEW j \in Slots, after # {}
               PROVE  j < Least(after) <=> \A k \in after : j < k
    OBVIOUS
  <2>1. Least(after) \in after /\ \A k \in after : Least(after) <= k
    BY <1>1, LeastSlot
  <2> HIDE DEF after
  <2>2. QED
    BY <1>1, <2>1
<1>4. ASSUME NEW j \in Slots, GroupOf(p, j) = GroupOf(p, i)
      PROVE  ((\A k \in before : k < j) /\ (\A k \in after : j < k)) <=> Beside(p, i, j)
  <2>1. ASSUME \A k \in before : k < j, \A k \in after : j < k
        PROVE  Beside(p, i, j)
    <3> SUFFICES ASSUME NEW k \in Anchored(p), (i <= k /\ k <= j) \/ (j <= k /\ k <= i)
                 PROVE  FALSE
      BY <1>4 DEF Beside
    <3>1. k \in Slots /\ k # i /\ i \in Slots
      BY DEF Anchored
    <3>2. GroupOf(p, k) = GroupOf(p, i)
      BY <1>4, <3>1, GroupsAreConvex
    <3>3. (k < i => k \in before) /\ (i < k => k \in after)
      BY <3>2 DEF AnchorsBefore, AnchorsAfter
    <3>4. i \in Nat /\ j \in Nat /\ k \in Nat
      BY <1>1, <3>1
    <3>5. QED
      BY <2>1, <3>1, <3>3, <3>4
  <2>2. ASSUME Beside(p, i, j)
        PROVE  (\A k \in before : k < j) /\ (\A k \in after : j < k)
    <3>1. \A k \in before \cup after : k \in Anchored(p) /\ k \in Nat
      BY <1>1 DEF AnchorsBefore, AnchorsAfter
    <3>2. (\A k \in before : k < i) /\ (\A k \in after : i < k)
      BY DEF AnchorsBefore, AnchorsAfter
    <3>3. i \in Nat /\ j \in Nat
      BY <1>1
    <3> HIDE DEF before, after
    <3>4. QED
      BY <2>2, <3>1, <3>2, <3>3 DEF Beside
  <2>3. QED
    BY <2>1, <2>2
<1>5. PlanningGroupOf(p, i).members =
        {j \in Members(p, GroupOf(p, i)) : /\ before = {} \/ j > Greatest(before)
                                           /\ after = {} \/ j < Least(after)}
  BY DEF PlanningGroupOf
<1>6. \A j : j \in Members(p, GroupOf(p, i)) <=> j \in Slots /\ GroupOf(p, j) = GroupOf(p, i)
  BY DEF Members
<1>7. \A j : Beside(p, i, j) => GroupOf(p, j) = GroupOf(p, i)
  BY DEF Beside
<1> HIDE DEF before, after
<1>8. QED
  BY <1>2, <1>3, <1>4, <1>5, <1>6, <1>7

\* The other fields of a planning group.
LEMMA PlanningFields ==
  ASSUME NEW p, NEW i
  PROVE  /\ PlanningGroupOf(p, i).segment = p.segment[i]
         /\ PlanningGroupOf(p, i).start =
              IF AnchorsBefore(p, i) = {} THEN SegmentStart[p.segment[i]]
              ELSE AnchorEnd(p, Greatest(AnchorsBefore(p, i)))
         /\ PlanningGroupOf(p, i).end =
              IF AnchorsAfter(p, i) = {} THEN SegmentEnd(p.segment[i])
              ELSE AnchorStart(p, Least(AnchorsAfter(p, i)))
         /\ PlanningGroupOf(p, i).id =
              <<GroupOf(p, i),
                Cardinality(Earlier(p, PlanningGroupOf(p, i).members, GroupOf(p, i))) + 1>>
  BY DEF PlanningGroupOf, Earlier

\* Slots beside each other have one planning group.
LEMMA OnePlanningGroup ==
  ASSUME NEW p, InOrder(p), NEW i \in Slots \ Anchored(p), NEW j \in Slots, Beside(p, i, j)
  PROVE  j \in Slots \ Anchored(p) /\ PlanningGroupOf(p, j) = PlanningGroupOf(p, i)
<1>1. \A k \in Slots : k \in Nat
  BY Durations
<1>2. j \notin Anchored(p)
  BY <1>1 DEF Beside
<1>3. GroupOf(p, i) = GroupOf(p, j)
  BY DEF Beside
<1>4. p.segment[i] = p.segment[j]
  BY <1>1, <1>3, GroupsRise
<1>5. \A k \in Anchored(p) : k \in Slots /\ (k < i <=> k < j) /\ (k > i <=> k > j)
  <2>1. \A k \in Anchored(p) : k \in Slots /\ k \in Nat
    BY <1>1 DEF Anchored
  <2>2. i \in Nat /\ j \in Nat
    BY <1>1
  <2>3. QED
    BY <2>1, <2>2 DEF Beside
<1>6. AnchorsBefore(p, i) = AnchorsBefore(p, j) /\ AnchorsAfter(p, i) = AnchorsAfter(p, j)
  BY <1>3, <1>5 DEF AnchorsBefore, AnchorsAfter
<1>7. QED
  BY <1>2, <1>3, <1>4, <1>6 DEF PlanningGroupOf

\* A slot is beside itself, in its planning group.
LEMMA OwnPlanningGroup ==
  ASSUME NEW p, InOrder(p), NEW i \in Slots \ Anchored(p)
  PROVE  /\ i \in PlanningGroupOf(p, i).members
         /\ PlanningGroupOf(p, i).members \in SUBSET (Slots \ Anchored(p))
<1>1. \A k \in Slots : k \in Nat
  BY Durations
<1>2. Beside(p, i, i)
  <2>1. \A k \in Anchored(p) : k \in Nat /\ k # i
    BY <1>1 DEF Anchored
  <2>2. QED
    BY <1>1, <2>1 DEF Beside
<1>3. QED
  BY <1>2, PlanningMembers, OnePlanningGroup

\* No two planning groups have the same number.
LEMMA PlanningIds ==
  ASSUME NEW p, InOrder(p), NEW i \in Slots \ Anchored(p), NEW j \in Slots \ Anchored(p),
         PlanningGroupOf(p, i).id = PlanningGroupOf(p, j).id
  PROVE  PlanningGroupOf(p, i) = PlanningGroupOf(p, j)
<1>1. \A k \in Slots : k \in Nat
  BY Durations
<1>2. ASSUME NEW x \in Slots \ Anchored(p), NEW y \in Slots \ Anchored(p), x < y,
             GroupOf(p, x) = GroupOf(p, y), ~ Beside(p, x, y)
      PROVE  PlanningGroupOf(p, x).id # PlanningGroupOf(p, y).id
  <2> DEFINE X == PlanningGroupOf(p, x).members
             Y == PlanningGroupOf(p, y).members
             g == GroupOf(p, x)
             T == {k \in Anchored(p) : x <= k /\ k <= y}
  <2>1. T \in SUBSET Slots /\ T # {}
    <3>1. \E k \in Anchored(p) : (x <= k /\ k <= y) \/ (y <= k /\ k <= x)
      BY <1>2 DEF Beside
    <3>2. x \in Nat /\ y \in Nat /\ \A k \in Anchored(p) : k \in Nat
      BY <1>1 DEF Anchored
    <3>3. T # {}
      BY <1>2, <3>1, <3>2
    <3>4. QED
      BY <3>3 DEF Anchored
  <2>2. PICK k \in T : \A n \in T : k <= n
    BY <2>1, LeastSlot
  <2>3. /\ x \in Nat /\ y \in Nat /\ k \in Nat /\ k \in Slots /\ k \in Anchored(p)
        /\ x < k /\ k < y
    <3>1. k \in Slots /\ k \in Anchored(p) /\ k # x /\ k # y /\ x <= k /\ k <= y
      BY <2>1, <2>2
    <3>2. QED
      BY <1>1, <3>1
  <2>4. k - 1 \in Slots /\ k - 1 \notin Anchored(p) /\ x <= k - 1 /\ k - 1 <= y
    <3>1. k - 1 \in Slots
      BY <2>3, Durations
    <3>2. k - 1 \notin T
      BY <2>2, <2>3
    <3>3. QED
      BY <2>3, <3>1, <3>2
  <2>5. k - 1 \in Members(p, g)
    BY <1>2, <2>4, GroupsAreConvex DEF Members
  <2>6. Least(X) <= x /\ Least(X) \in Nat
    BY <1>1, OwnPlanningGroup, LeastSlot
  <2>7. k < Least(Y) /\ Least(Y) \in Nat
    <3>1. Least(Y) \in Y /\ Y \in SUBSET Slots
      BY OwnPlanningGroup, LeastSlot
    <3>2. Least(Y) \in Slots /\ Beside(p, y, Least(Y))
      BY <3>1, PlanningMembers
    <3> HIDE DEF Y, T
    <3>3. Least(Y) \in Nat /\ ~ (Least(Y) <= k /\ k <= y)
      BY <1>1, <2>3, <3>2 DEF Beside
    <3>4. QED
      BY <2>3, <3>3
  <2> DEFINE EX == Earlier(p, X, g)
             EY == Earlier(p, Y, g)
  <2>8. EX \in SUBSET EY
    <3>1. \A n \in EX : n \in Nat /\ n < Least(X)
      BY <1>1 DEF Earlier, Members
    <3> HIDE DEF X, Y
    <3>2. \A n \in EX : n < Least(Y)
      BY <2>3, <2>6, <2>7, <3>1
    <3>3. QED
      BY <3>2 DEF Earlier
  <2>9. k - 1 \in EY /\ k - 1 \notin EX
    <3>1. (k - 1) + 1 = k /\ k - 1 < Least(Y) /\ ~ (k - 1 < Least(X))
      <4> HIDE DEF X, Y
      <4>1. k - 1 \in Nat
        BY <2>3
      <4>2. QED
        BY <2>3, <2>4, <2>6, <2>7, <4>1
    <3>2. QED
      BY <2>3, <2>4, <2>5, <3>1 DEF Earlier
  <2>10. IsFiniteSet(EY)
    <3>1. EY \in SUBSET Slots
      BY DEF Earlier, Members
    <3>2. 1 \in Int /\ Len(SlotMs) \in Int /\ Slots = 1..Len(SlotMs)
      BY Durations
    <3>3. IsFiniteSet(Slots)
      BY <3>2, FS_Interval
    <3>4. QED
      BY <3>1, <3>3, FS_Subset
  <2> HIDE DEF EX, EY
  <2>11. IsFiniteSet(EX) /\ Cardinality(EX) # Cardinality(EY)
    BY <2>8, <2>9, <2>10, FS_Subset
  <2>12. Cardinality(EX) \in Nat /\ Cardinality(EY) \in Nat
    BY <2>10, <2>11, FS_CardinalityType
  <2>13. /\ PlanningGroupOf(p, x).id = <<g, Cardinality(EX) + 1>>
         /\ PlanningGroupOf(p, y).id = <<g, Cardinality(EY) + 1>>
    BY <1>2, PlanningFields DEF EX, EY
  <2> HIDE DEF X, Y, g
  <2>14. QED
    BY <2>11, <2>12, <2>13
<1>3. GroupOf(p, i) = GroupOf(p, j)
  <2>1. <<GroupOf(p, i), 0>>[1] = GroupOf(p, i)
    OBVIOUS
  <2>2. PlanningGroupOf(p, i).id[1] = GroupOf(p, i) /\ PlanningGroupOf(p, j).id[1] = GroupOf(p, j)
    BY PlanningFields
  <2>3. QED
    BY <2>2
<1>4. i < j \/ j < i \/ i = j
  BY <1>1
<1>5. Beside(p, i, j) \/ Beside(p, j, i) \/ i = j
  BY <1>2, <1>3, <1>4
<1>6. QED
  BY <1>5, OnePlanningGroup

-----------------------------------------------------------------------------
(* Any choice of trajectories that fit can be played in order. *)

\* The times of segments and of anchored pictures are numbers.
LEMMA PictureTimes ==
  ASSUME NEW p, InOrder(p)
  PROVE  /\ \A i \in Slots : /\ SegmentStart[p.segment[i]] \in Nat
                             /\ SegmentEnd(p.segment[i]) \in Nat
         /\ \A i \in Anchored(p) : /\ i \in Slots /\ AnchorStart(p, i) \in Nat
                                   /\ AnchorEnd(p, i) = AnchorStart(p, i) + SlotMs[i]
                                   /\ AnchorEnd(p, i) \in Nat
<1>1. ASSUME NEW i \in Slots
      PROVE  SegmentStart[p.segment[i]] \in Nat /\ SegmentEnd(p.segment[i]) \in Nat
  <2>1. p.segment[i] \in Segments
    BY SegmentNumbers
  <2>2. p.segment[i] \in 1..Len(SegmentMs) + 1 /\ p.segment[i] + 1 \in 1..Len(SegmentMs) + 1
    BY <2>1, Durations
  <2>3. QED
    BY <2>2, SegmentTimes DEF SegmentEnd
<1>2. ASSUME NEW i \in Anchored(p)
      PROVE  /\ i \in Slots /\ AnchorStart(p, i) \in Nat
             /\ AnchorEnd(p, i) = AnchorStart(p, i) + SlotMs[i]
             /\ AnchorEnd(p, i) \in Nat
  <2>1. i \in Slots /\ p.anchor[i] \in Passages
    BY DEF Anchored, InOrder
  <2>2. PassageAt[p.anchor[i]] \in Nat
    BY <2>1, PlanningAssumption
  <2>3. AnchorStart(p, i) \in Nat /\ AnchorEnd(p, i) = AnchorStart(p, i) + SlotMs[i]
    BY <2>2 DEF AnchorStart, AnchorEnd
  <2>4. QED
    BY <2>1, <2>3, Durations
<1>3. QED
  BY <1>1, <1>2

\* The last anchor before and the first after a slot, and their segment.
LEMMA NearestAnchors ==
  ASSUME NEW p, InOrder(p), NEW i \in Slots
  PROVE  /\ AnchorsBefore(p, i) # {} =>
              LET a == Greatest(AnchorsBefore(p, i))
              IN /\ a \in AnchorsBefore(p, i) /\ a \in Anchored(p) /\ a < i
                 /\ p.segment[a] = p.segment[i]
                 /\ \A k \in AnchorsBefore(p, i) : k <= a
         /\ AnchorsAfter(p, i) # {} =>
              LET a == Least(AnchorsAfter(p, i))
              IN /\ a \in AnchorsAfter(p, i) /\ a \in Anchored(p) /\ i < a
                 /\ p.segment[a] = p.segment[i]
                 /\ \A k \in AnchorsAfter(p, i) : a <= k
<1>1. /\ \A k \in Slots : k \in Nat
      /\ AnchorsBefore(p, i) \in SUBSET Slots /\ AnchorsAfter(p, i) \in SUBSET Slots
  BY Durations DEF AnchorsBefore, AnchorsAfter, Anchored
<1>2. /\ \A a \in AnchorsBefore(p, i) : a \in Anchored(p) /\ a < i /\ GroupOf(p, a) = GroupOf(p, i)
      /\ \A a \in AnchorsAfter(p, i) : a \in Anchored(p) /\ i < a /\ GroupOf(p, a) = GroupOf(p, i)
  BY DEF AnchorsBefore, AnchorsAfter
<1>3. \A a \in Slots : GroupOf(p, a) = GroupOf(p, i) => p.segment[a] = p.segment[i]
  BY <1>1, GroupsRise
<1>4. AnchorsBefore(p, i) # {} =>
        /\ Greatest(AnchorsBefore(p, i)) \in AnchorsBefore(p, i)
        /\ \A k \in AnchorsBefore(p, i) : k <= Greatest(AnchorsBefore(p, i))
  BY <1>1, GreatestSlot
<1>5. AnchorsAfter(p, i) # {} =>
        /\ Least(AnchorsAfter(p, i)) \in AnchorsAfter(p, i)
        /\ \A k \in AnchorsAfter(p, i) : Least(AnchorsAfter(p, i)) <= k
  BY <1>1, LeastSlot
<1>6. QED
  BY <1>1, <1>2, <1>3, <1>4, <1>5

\* Windows begin and end at times.
LEMMA WindowTimes ==
  ASSUME NEW p, InOrder(p), NEW i \in Slots
  PROVE  PlanningGroupOf(p, i).start \in Nat /\ PlanningGroupOf(p, i).end \in Nat
<1>1. /\ AnchorsBefore(p, i) # {} => Greatest(AnchorsBefore(p, i)) \in Anchored(p)
      /\ AnchorsAfter(p, i) # {} => Least(AnchorsAfter(p, i)) \in Anchored(p)
  BY NearestAnchors
<1>2. QED
  BY <1>1, PictureTimes, PlanningFields

\* The window of a planning group is in its segment.
LEMMA WindowInSegment ==
  ASSUME NEW p, InOrder(p), LayoutIsLegal(p), NEW i \in Slots
  PROVE  /\ SegmentStart[p.segment[i]] <= PlanningGroupOf(p, i).start
         /\ PlanningGroupOf(p, i).end <= SegmentEnd(p.segment[i])
<1>1. \A a \in Anchored(p) : /\ SegmentStart[p.segment[a]] <= AnchorStart(p, a)
                             /\ AnchorEnd(p, a) <= SegmentEnd(p.segment[a])
                             /\ a \in Slots /\ AnchorStart(p, a) <= AnchorEnd(p, a)
                             /\ AnchorStart(p, a) \in Nat /\ AnchorEnd(p, a) \in Nat
  <2>1. \A a \in Anchored(p) : a \in Slots /\ SlotMs[a] \in Nat
    BY Durations, PictureTimes
  <2>2. \A a \in Anchored(p) : AnchorStart(p, a) <= AnchorEnd(p, a)
    BY <2>1, PictureTimes
  <2>3. QED
    BY <2>2, PictureTimes DEF LayoutIsLegal
<1>2. SegmentStart[p.segment[i]] \in Nat /\ SegmentEnd(p.segment[i]) \in Nat
  BY PictureTimes
<1>3. SegmentStart[p.segment[i]] <= PlanningGroupOf(p, i).start
  <2>1. CASE AnchorsBefore(p, i) = {}
    BY <1>2, <2>1, PlanningFields
  <2>2. CASE AnchorsBefore(p, i) # {}
    <3> DEFINE a == Greatest(AnchorsBefore(p, i))
    <3>1. a \in Anchored(p) /\ p.segment[a] = p.segment[i]
      BY <2>2, NearestAnchors
    <3>2. PlanningGroupOf(p, i).start = AnchorEnd(p, a)
      BY <2>2, PlanningFields
    <3> HIDE DEF a
    <3>3. /\ SegmentStart[p.segment[i]] <= AnchorStart(p, a) /\ AnchorStart(p, a) <= AnchorEnd(p, a)
          /\ AnchorStart(p, a) \in Nat /\ AnchorEnd(p, a) \in Nat
      BY <1>1, <3>1
    <3>4. SegmentStart[p.segment[i]] <= AnchorEnd(p, a)
      BY <1>2, <3>3
    <3>5. QED
      BY <3>2, <3>4
  <2>3. QED
    BY <2>1, <2>2
<1>4. PlanningGroupOf(p, i).end <= SegmentEnd(p.segment[i])
  <2>1. CASE AnchorsAfter(p, i) = {}
    BY <1>2, <2>1, PlanningFields
  <2>2. CASE AnchorsAfter(p, i) # {}
    <3> DEFINE a == Least(AnchorsAfter(p, i))
    <3>1. a \in Anchored(p) /\ p.segment[a] = p.segment[i]
      BY <2>2, NearestAnchors
    <3>2. PlanningGroupOf(p, i).end = AnchorStart(p, a)
      BY <2>2, PlanningFields
    <3> HIDE DEF a
    <3>3. /\ AnchorEnd(p, a) <= SegmentEnd(p.segment[i]) /\ AnchorStart(p, a) <= AnchorEnd(p, a)
          /\ AnchorStart(p, a) \in Nat /\ AnchorEnd(p, a) \in Nat
      BY <1>1, <3>1
    <3>4. AnchorStart(p, a) <= SegmentEnd(p.segment[i])
      BY <1>2, <3>3
    <3>5. QED
      BY <3>2, <3>4
  <2>3. QED
    BY <2>1, <2>2
<1>5. QED
  BY <1>3, <1>4

\* The groups of a plan that is laid out have numbers of their own.
LEMMA GroupsHaveIds ==
  ASSUME NEW p, InOrder(p), p.groups = PlanningGroups(p)
  PROVE  /\ \A group \in p.groups : /\ group.id \in GroupIds(p)
                                    /\ GroupWithId(p, group.id) = group
         /\ \A id \in GroupIds(p) : GroupWithId(p, id) \in p.groups /\ GroupWithId(p, id).id = id
<1>1. \A g, h \in p.groups : g.id = h.id => g = h
  BY PlanningIds DEF PlanningGroups
<1>2. \A id \in GroupIds(p) : \E group \in p.groups : group.id = id
  BY DEF GroupIds
<1>3. \A id \in GroupIds(p) : GroupWithId(p, id) \in p.groups /\ GroupWithId(p, id).id = id
  BY <1>2 DEF GroupWithId
<1>4. \A group \in p.groups : group.id \in GroupIds(p)
  BY DEF GroupIds
<1>5. QED
  BY <1>1, <1>3, <1>4

\* In the plan p, a slot without anchor gets its start from the trajectory of
\* its planning group, which fits the window.
LEMMA StartOfSlot ==
  ASSUME NEW p, IsAnchored(p), NEW P, IsPoolOf(p, P), NEW choice \in Selections(P),
         NEW i \in Slots \ Anchored(p)
  PROVE  \E t : /\ TrajectoryFits(PlanningGroupOf(p, i), t)
                /\ \A j \in PlanningGroupOf(p, i).members :
                     Starts(p, choice)[j] = t.starts[j] /\ t.starts[j] \in Int
<1> DEFINE group == PlanningGroupOf(p, i)
           t == choice[group.id]
<1>1. InOrder(p) /\ p.groups = PlanningGroups(p)
  BY ArrangedInOrder DEF IsAnchored
<1>2. group \in p.groups /\ group.id \in GroupIds(p) /\ GroupWithId(p, group.id) = group
  BY <1>1, GroupsHaveIds DEF PlanningGroups
<1>3. t \in P[group.id]
  BY <1>2 DEF Selections, IsPoolOf
<1>4. TrajectoryFits(group, t) /\ \A j \in group.members : t.starts[j] \in Int
  BY <1>2, <1>3 DEF IsPoolOf
<1>5. ASSUME NEW j \in group.members
      PROVE  Starts(p, choice)[j] = t.starts[j]
  <2>1. j \in Slots \ Anchored(p)
    BY <1>1, OwnPlanningGroup
  <2>2. PlanningGroupOf(p, j) = group /\ j \in PlanningGroupOf(p, j).members
    BY <1>1, <1>5, <2>1, PlanningMembers, OnePlanningGroup, OwnPlanningGroup
  <2>3. \A g \in p.groups : j \in g.members => g = group
    <3> SUFFICES ASSUME NEW k \in Slots \ Anchored(p), j \in PlanningGroupOf(p, k).members
                 PROVE  PlanningGroupOf(p, k) = group
      BY <1>1 DEF PlanningGroups
    <3>1. Beside(p, k, j)
      BY <1>1, PlanningMembers
    <3>2. QED
      BY <1>1, <2>1, <2>2, <3>1, OnePlanningGroup
  <2> HIDE DEF group
  <2>4. (CHOOSE g \in p.groups : j \in g.members) = group
    BY <1>2, <1>5, <2>3
  <2>5. p.anchor[j] = None /\ j \in Slots
    BY <2>1 DEF Anchored
  <2>6. Starts(p, choice)[j] = choice[(CHOOSE g \in p.groups : j \in g.members).id].starts[j]
    BY <2>5 DEF Starts
  <2>7. QED
    BY <2>4, <2>6
<1>6. QED
  BY <1>4, <1>5

\* A slot without anchor is played in its window, and before the next slot of
\* its planning group.
LEMMA StartInWindow ==
  ASSUME NEW p, IsAnchored(p), NEW P, IsPoolOf(p, P), NEW choice \in Selections(P),
         NEW i \in Slots \ Anchored(p)
  PROVE  LET starts == Starts(p, choice)
             group == PlanningGroupOf(p, i)
         IN /\ starts[i] \in Int
            /\ group.start <= starts[i] /\ starts[i] + SlotMs[i] <= group.end
            /\ (i + 1) \in group.members =>
                 starts[i + 1] \in Int /\ starts[i] + SlotMs[i] <= starts[i + 1]
<1> DEFINE starts == Starts(p, choice)
           group == PlanningGroupOf(p, i)
<1>1. PICK t : /\ TrajectoryFits(group, t)
               /\ \A j \in group.members : starts[j] = t.starts[j] /\ t.starts[j] \in Int
  BY StartOfSlot
<1>2. i \in group.members
  BY ArrangedInOrder, OwnPlanningGroup DEF IsAnchored
<1> HIDE DEF starts, group
<1>3. /\ starts[i] = t.starts[i] /\ t.starts[i] \in Int
      /\ group.start <= t.starts[i] /\ t.starts[i] + SlotMs[i] <= group.end
      /\ (i + 1) \in group.members => t.starts[i] + SlotMs[i] <= t.starts[i + 1]
  BY <1>1, <1>2 DEF TrajectoryFits
<1>4. (i + 1) \in group.members => starts[i + 1] = t.starts[i + 1] /\ t.starts[i + 1] \in Int
  BY <1>1
<1>5. QED
  BY <1>3, <1>4 DEF starts, group

\* Every slot is played in its segment.
LEMMA StartInSegment ==
  ASSUME NEW p, IsAnchored(p), NEW P, IsPoolOf(p, P), NEW choice \in Selections(P),
         NEW i \in Slots
  PROVE  LET starts == Starts(p, choice)
         IN /\ i \in Anchored(p) => starts[i] = AnchorStart(p, i)
            /\ starts[i] \in Int
            /\ SegmentStart[p.segment[i]] <= starts[i]
            /\ starts[i] + SlotMs[i] <= SegmentEnd(p.segment[i])
<1> DEFINE starts == Starts(p, choice)
<1>1. InOrder(p) /\ LayoutIsLegal(p)
  BY ArrangedInOrder DEF IsAnchored, AnchorsAreLegal
<1>2. SegmentStart[p.segment[i]] \in Nat /\ SegmentEnd(p.segment[i]) \in Nat /\ SlotMs[i] \in Nat
  BY <1>1, PictureTimes, Durations
<1>3. CASE i \in Anchored(p)
  <2>1. starts[i] = AnchorStart(p, i)
    BY <1>3 DEF Starts, Anchored
  <2>2. QED
    BY <1>1, <1>3, <2>1, PictureTimes DEF LayoutIsLegal
<1>4. CASE i \notin Anchored(p)
  <2> DEFINE group == PlanningGroupOf(p, i)
  <2>1. starts[i] \in Int /\ group.start <= starts[i] /\ starts[i] + SlotMs[i] <= group.end
    BY <1>4, StartInWindow
  <2>2. SegmentStart[p.segment[i]] <= group.start /\ group.end <= SegmentEnd(p.segment[i])
    BY <1>1, WindowInSegment
  <2>3. group.start \in Nat /\ group.end \in Nat
    BY <1>1, WindowTimes
  <2> HIDE DEF starts, group
  <2>4. /\ SegmentStart[p.segment[i]] <= starts[i]
        /\ starts[i] + SlotMs[i] <= SegmentEnd(p.segment[i])
    BY <1>2, <2>1, <2>2, <2>3
  <2>5. QED
    BY <1>4, <2>1, <2>4 DEF starts
<1>5. QED
  BY <1>3, <1>4

\* Whatever trajectories are chosen, each slot is played before the next.
LEMMA ChoicesPlayInOrder ==
  ASSUME NEW p, IsAnchored(p), NEW P, IsPoolOf(p, P), NEW choice \in Selections(P)
  PROVE  IsChronological(Starts(p, choice))
<1> DEFINE starts == Starts(p, choice)
<1> SUFFICES ASSUME NEW i \in Slots \ {1}
             PROVE  starts[i - 1] + SlotMs[i - 1] <= starts[i]
  BY DEF IsChronological
<1> DEFINE h == i - 1
<1>1. /\ h \in Slots /\ i \in Slots /\ h + 1 = i /\ h <= i /\ h < i
      /\ h \in Nat /\ i \in Nat /\ SlotMs[h] \in Nat /\ SlotMs[i] \in Nat
  BY Durations
<1> HIDE DEF h
<1>2. InOrder(p) /\ LayoutIsLegal(p)
  BY ArrangedInOrder DEF IsAnchored, AnchorsAreLegal
<1>3. /\ starts[i] \in Int /\ starts[h] \in Int
      /\ SegmentStart[p.segment[i]] <= starts[i]
      /\ starts[h] + SlotMs[h] <= SegmentEnd(p.segment[h])
      /\ i \in Anchored(p) => starts[i] = AnchorStart(p, i)
      /\ h \in Anchored(p) => starts[h] = AnchorStart(p, h)
  BY <1>1, StartInSegment
<1>4. p.segment[h] <= p.segment[i]
  BY <1>1, <1>2, SegmentsRise
<1>5. starts[h] + SlotMs[h] <= starts[i]
  <2>1. CASE p.segment[h] # p.segment[i]
    <3>1. p.segment[h] < p.segment[i] /\ p.segment[h] \in Segments /\ p.segment[i] \in Segments
      BY <1>1, <1>2, <1>4, <2>1, SegmentNumbers
    <3>2. SegmentEnd(p.segment[h]) <= SegmentStart[p.segment[i]]
      BY <3>1, SegmentsAreInOrder
    <3>3. SegmentEnd(p.segment[h]) \in Nat /\ SegmentStart[p.segment[i]] \in Nat
      BY <1>1, <1>2, PictureTimes
    <3> HIDE DEF starts
    <3>4. QED
      BY <1>1, <1>3, <3>2, <3>3
  <2>2. CASE p.segment[h] = p.segment[i]
    <3>1. GroupOf(p, h) = GroupOf(p, i)
      BY <1>1, <1>2, <2>2, GroupsRise
    <3>2. CASE h \in Anchored(p) /\ i \in Anchored(p)
      <4>1. h \in AnchorsBefore(p, i)
        BY <1>1, <3>1, <3>2 DEF AnchorsBefore
      <4>2. AnchorEnd(p, h) <= AnchorStart(p, i)
        BY <1>2, <3>2, <4>1 DEF LayoutIsLegal
      <4>3. AnchorEnd(p, h) = AnchorStart(p, h) + SlotMs[h]
        BY <1>2, <3>2, PictureTimes
      <4> HIDE DEF starts
      <4>4. QED
        BY <1>3, <3>2, <4>2, <4>3
    <3>3. CASE h \in Anchored(p) /\ i \notin Anchored(p)
      <4>1. h \in AnchorsBefore(p, i)
        BY <1>1, <3>1, <3>3 DEF AnchorsBefore
      <4>2. Greatest(AnchorsBefore(p, i)) = h
        <5> DEFINE a == Greatest(AnchorsBefore(p, i))
        <5>1. a \in Anchored(p) /\ a < i /\ h <= a
          BY <1>1, <1>2, <4>1, NearestAnchors
        <5>2. a \in Nat
          BY <5>1, Durations DEF Anchored
        <5> HIDE DEF a
        <5>3. a = h
          BY <1>1, <5>1, <5>2
        <5>4. QED
          BY <5>3 DEF a
      <4>3. PlanningGroupOf(p, i).start = AnchorEnd(p, h)
        BY <4>1, <4>2, PlanningFields
      <4>4. PlanningGroupOf(p, i).start <= starts[i]
        BY <1>1, <3>3, StartInWindow
      <4>5. AnchorEnd(p, h) = AnchorStart(p, h) + SlotMs[h]
        BY <1>2, <3>3, PictureTimes
      <4> HIDE DEF starts
      <4>6. QED
        BY <1>3, <3>3, <4>3, <4>4, <4>5
    <3>4. CASE h \notin Anchored(p) /\ i \in Anchored(p)
      <4>1. i \in AnchorsAfter(p, h)
        BY <1>1, <3>1, <3>4 DEF AnchorsAfter
      <4>2. Least(AnchorsAfter(p, h)) = i
        <5> DEFINE a == Least(AnchorsAfter(p, h))
        <5>1. a \in Anchored(p) /\ h < a /\ a <= i
          BY <1>1, <1>2, <4>1, NearestAnchors
        <5>2. a \in Nat
          BY <5>1, Durations DEF Anchored
        <5> HIDE DEF a
        <5>3. a = i
          BY <1>1, <5>1, <5>2
        <5>4. QED
          BY <5>3 DEF a
      <4>3. PlanningGroupOf(p, h).end = AnchorStart(p, i)
        BY <4>1, <4>2, PlanningFields
      <4>4. starts[h] + SlotMs[h] <= PlanningGroupOf(p, h).end
        BY <1>1, <3>4, StartInWindow
      <4> HIDE DEF starts
      <4>5. QED
        BY <1>3, <3>4, <4>3, <4>4
    <3>5. CASE h \notin Anchored(p) /\ i \notin Anchored(p)
      <4>1. Beside(p, h, i)
        <5>1. \A k \in Anchored(p) : k \in Nat /\ k # h /\ k # i
          BY <3>5, Durations DEF Anchored
        <5>2. \A k \in Anchored(p) : ~ (h <= k /\ k <= i) /\ ~ (i <= k /\ k <= h)
          BY <1>1, <5>1
        <5>3. QED
          BY <3>1, <5>2 DEF Beside
      <4>2. h + 1 \in PlanningGroupOf(p, h).members
        BY <1>1, <1>2, <3>5, <4>1, PlanningMembers
      <4>3. starts[h] + SlotMs[h] <= starts[h + 1]
        BY <1>1, <3>5, <4>2, StartInWindow
      <4>4. QED
        BY <1>1, <4>3
    <3>6. QED
      BY <3>2, <3>3, <3>4, <3>5
  <2>3. QED
    BY <2>1, <2>2
<1>6. QED
  BY <1>5 DEF h

-----------------------------------------------------------------------------
(* The trajectories a retrieval brings fit the group they are for. *)

\* A group of the slots from f to l with a window they have room in.
IsWindow(group, f, l) ==
  /\ f \in Slots /\ l \in Slots /\ f <= l /\ group.members = f..l
  /\ Least(group.members) = f /\ Greatest(group.members) = l
  /\ group.start \in Int /\ group.end \in Int
  /\ RunMs(f, l) <= group.end - group.start

\* The slots of a planning group follow each other.
LEMMA PlanningGroupIsRun ==
  ASSUME NEW p, InOrder(p), NEW i \in Slots \ Anchored(p)
  PROVE  LET M == PlanningGroupOf(p, i).members
             f == Least(M)
             l == Greatest(M)
         IN /\ f \in Slots /\ l \in Slots /\ f <= i /\ i <= l /\ f <= l /\ M = f..l
            /\ Beside(p, i, f) /\ Beside(p, i, l)
<1> DEFINE group == PlanningGroupOf(p, i)
           M == group.members
           f == Least(M)
           l == Greatest(M)
<1>1. InOrder(p)
  OBVIOUS
<1>2. i \in M /\ M \in SUBSET Slots
  BY <1>1, OwnPlanningGroup
<1>3. f \in M /\ l \in M /\ \A k \in M : f <= k /\ k <= l
  BY <1>2, LeastSlot, GreatestSlot
<1>4. f \in Slots /\ l \in Slots /\ f <= i /\ i <= l /\ Beside(p, i, f) /\ Beside(p, i, l)
  BY <1>1, <1>2, <1>3, PlanningMembers
<1>5. f \in Nat /\ l \in Nat /\ i \in Nat /\ f..l \subseteq Slots
  BY <1>4, Durations
<1>6. ASSUME NEW j \in f..l
      PROVE  j \in M
  <2>1. j \in Slots /\ j \in Nat /\ f <= j /\ j <= l
    BY <1>5
  <2>2. GroupOf(p, f) = GroupOf(p, l) /\ GroupOf(p, f) = GroupOf(p, i)
    BY <1>4 DEF Beside
  <2>3. GroupOf(p, j) = GroupOf(p, i)
    BY <1>1, <1>4, <2>1, <2>2, GroupsAreConvex
  <2>4. ASSUME NEW k \in Anchored(p), (i <= k /\ k <= j) \/ (j <= k /\ k <= i)
        PROVE  FALSE
    <3>1. k \in Nat
      BY Durations DEF Anchored
    <3>2. ~ (i <= k /\ k <= l) /\ ~ (f <= k /\ k <= i)
      BY <1>4 DEF Beside
    <3> HIDE DEF f, l
    <3>3. QED
      BY <1>5, <2>1, <2>4, <3>1, <3>2
  <2>5. Beside(p, i, j)
    BY <2>3, <2>4 DEF Beside
  <2>6. QED
    BY <1>1, <2>1, <2>5, PlanningMembers
<1>7. M = f..l
  <2>1. \A k \in M : k \in Nat
    BY <1>2, Durations
  <2> HIDE DEF M, f, l
  <2>2. \A k \in M : k \in f..l
    BY <1>3, <1>5, <2>1
  <2>3. QED
    BY <1>6, <2>2
<1>8. f <= l
  <2> HIDE DEF f, l
  <2>1. QED
    BY <1>4, <1>5
<1> HIDE DEF group
<1>9. QED
  BY <1>4, <1>7, <1>8 DEF group

\* There is room for them in the window.
LEMMA PlanningGroupIsWindow ==
  ASSUME NEW p, IsAnchored(p), NEW i \in Slots \ Anchored(p)
  PROVE  LET M == PlanningGroupOf(p, i).members
         IN IsWindow(PlanningGroupOf(p, i), Least(M), Greatest(M))
<1> DEFINE group == PlanningGroupOf(p, i)
           f == Least(group.members)
           l == Greatest(group.members)
<1>1. InOrder(p) /\ LayoutIsLegal(p) /\ p.groups = PlanningGroups(p)
  BY ArrangedInOrder DEF IsAnchored, AnchorsAreLegal
<1>2. f \in Slots /\ l \in Slots /\ f <= l /\ group.members = f..l
  BY <1>1, PlanningGroupIsRun
<1>3. group.start \in Int /\ group.end \in Int
  BY <1>1, WindowTimes
<1>4. HasRoom(group)
  BY <1>1 DEF PlanningGroups, LayoutIsLegal
<1>5. RunMs(f, l) <= group.end - group.start
  BY <1>4 DEF HasRoom
<1> HIDE DEF group
<1>6. IsWindow(group, f, l)
  BY <1>2, <1>3, <1>5 DEF IsWindow
<1>7. QED
  BY <1>6 DEF group

\* When and for how long the slots of a window are shown.
LEMMA WindowSlots ==
  ASSUME NEW group, NEW f, NEW l, IsWindow(group, f, l)
  PROVE  /\ f \in Nat /\ l \in Nat
         /\ \A i \in f..l : /\ i \in Slots /\ i \in Nat /\ SlotMs[i] \in Nat
                            /\ OutputStart[i] \in Nat /\ OutputStart[i + 1] \in Nat
                            /\ OutputStart[i + 1] = OutputStart[i] + SlotMs[i]
                            /\ OutputStart[f] <= OutputStart[i]
                            /\ OutputStart[i + 1] <= OutputStart[l + 1]
         /\ OutputStart[l + 1] - OutputStart[f] <= group.end - group.start
<1>1. f \in Nat /\ l \in Nat /\ f <= l /\ f \in Slots /\ l \in Slots
      /\ \A i \in f..l : i \in Slots /\ i \in Nat /\ i \in 1..Len(SlotMs) + 1
                         /\ i + 1 \in 1..Len(SlotMs) + 1
  BY Durations DEF IsWindow
<1>2. \A i \in f..l : /\ SlotMs[i] \in Nat
                      /\ OutputStart[i] \in Nat /\ OutputStart[i + 1] \in Nat
                      /\ OutputStart[i + 1] = OutputStart[i] + SlotMs[i]
  BY <1>1, Durations, OutputTimes
<1>3. \A i \in f..l : OutputStart[f] <= OutputStart[i]
  <2> DEFINE S == {i \in f..l : OutputStart[f] <= OutputStart[i]}
  <2>1. f \in S
    BY <1>1, <1>2
  <2>2. \A i \in f..(l - 1) : i \in S => i + 1 \in S
    <3> SUFFICES ASSUME NEW i \in f..(l - 1), i \in S
                 PROVE  i + 1 \in S
      OBVIOUS
    <3>1. i \in f..l /\ i + 1 \in f..l /\ f \in f..l
      BY <1>1
    <3>2. QED
      BY <1>2, <3>1
  <2> HIDE DEF S
  <2>3. f..l \subseteq S
    BY <1>1, <2>1, <2>2, Ascent
  <2>4. QED
    BY <2>3 DEF S
<1>4. \A i \in f..l : OutputStart[i + 1] <= OutputStart[l + 1]
  <2> DEFINE S == {i \in f..l : OutputStart[i + 1] <= OutputStart[l + 1]}
  <2>1. l \in S
    BY <1>1, <1>2
  <2>2. \A i \in (f + 1)..l : i \in S => i - 1 \in S
    <3> SUFFICES ASSUME NEW i \in (f + 1)..l, i \in S
                 PROVE  i - 1 \in S
      OBVIOUS
    <3>1. i \in f..l /\ i - 1 \in f..l /\ l \in f..l /\ (i - 1) + 1 = i
      BY <1>1
    <3>2. OutputStart[i] <= OutputStart[i + 1] /\ OutputStart[i + 1] <= OutputStart[l + 1]
      BY <1>2, <3>1
    <3>3. OutputStart[(i - 1) + 1] <= OutputStart[l + 1]
      BY <1>2, <3>1, <3>2
    <3>4. QED
      BY <3>1, <3>3
  <2> HIDE DEF S
  <2>3. f..l \subseteq S
    BY <1>1, <2>1, <2>2, Descent
  <2>4. QED
    BY <2>3 DEF S
<1>5. OutputStart[l + 1] - OutputStart[f] <= group.end - group.start
  BY DEF IsWindow, RunMs
<1>6. QED
  BY <1>1, <1>2, <1>3, <1>4, <1>5

\* Slots that are shown one after the other from no earlier than a window
\* starts until no later than it ends.
InLine(group, f, l, starts) ==
  /\ starts \in [f..l -> Int]
  /\ \A i \in f..l : group.start <= starts[i] /\ starts[i] + SlotMs[i] <= group.end
  /\ \A i \in f..(l - 1) : starts[i] + SlotMs[i] <= starts[i + 1]

\* The greater and the lesser of two numbers.
LEMMA Limits ==
  ASSUME NEW x \in Int, NEW y \in Int
  PROVE  /\ AtLeast(x, y) \in Int /\ AtLeast(x, y) >= x /\ AtLeast(x, y) >= y
         /\ AtMost(x, y) \in Int /\ AtMost(x, y) <= x /\ AtMost(x, y) <= y
         /\ AtLeast(x, y) = x \/ AtLeast(x, y) = y
         /\ AtMost(x, y) = x \/ AtMost(x, y) = y
  BY DEF AtLeast, AtMost

\* What a slot is moved to is in the window.
LEMMA ClampedInWindow ==
  ASSUME NEW group, NEW f, NEW l, IsWindow(group, f, l), NEW proposed \in [f..l -> Int],
         NEW i \in f..l
  PROVE  /\ Clamped(group, proposed, i) \in Int
         /\ group.start <= Clamped(group, proposed, i)
         /\ Clamped(group, proposed, i) + SlotMs[i] <= group.end
<1> DEFINE low == AtLeast(proposed[i], group.start)
           high == group.end - SlotMs[i]
<1>1. /\ SlotMs[i] \in Nat /\ group.start \in Int /\ group.end \in Int
      /\ group.start + SlotMs[i] <= group.end
  <2>1. /\ SlotMs[i] \in Nat
        /\ OutputStart[i] \in Nat /\ OutputStart[i + 1] \in Nat
        /\ OutputStart[i + 1] = OutputStart[i] + SlotMs[i]
        /\ OutputStart[f] <= OutputStart[i] /\ OutputStart[i + 1] <= OutputStart[l + 1]
    BY WindowSlots
  <2>2. OutputStart[f] \in Nat /\ OutputStart[l + 1] \in Nat
    <3>1. f \in f..l /\ l \in f..l
      BY WindowSlots DEF IsWindow
    <3>2. QED
      BY <3>1, WindowSlots
  <2>3. /\ OutputStart[l + 1] - OutputStart[f] <= group.end - group.start
        /\ group.start \in Int /\ group.end \in Int
    BY WindowSlots DEF IsWindow
  <2>4. QED
    BY <2>1, <2>2, <2>3
<1>2. proposed[i] \in Int
  OBVIOUS
<1>3. low \in Int /\ low >= group.start /\ high \in Int
  <2>1. low \in Int /\ low >= group.start
    BY <1>1, <1>2, Limits
  <2>2. high \in Int
    BY <1>1
  <2>3. QED
    BY <2>1, <2>2
<1>4. Clamped(group, proposed, i) = AtMost(low, high)
  BY DEF Clamped
<1>5. /\ AtMost(low, high) \in Int /\ AtMost(low, high) <= high
      /\ AtMost(low, high) = low \/ AtMost(low, high) = high
  <2> HIDE DEF low, high
  <2>1. QED
    BY <1>3, Limits
<1>6. high >= group.start
  BY <1>1
<1>7. /\ AtMost(low, high) >= group.start
      /\ AtMost(low, high) + SlotMs[i] <= group.end
  <2>1. AtMost(low, high) >= group.start
    <3> HIDE DEF low, high
    <3>1. QED
      BY <1>1, <1>3, <1>5, <1>6
  <2>2. AtMost(low, high) <= group.end - SlotMs[i]
    BY <1>5
  <2> DEFINE x == AtMost(low, high)
  <2>3. x \in Int /\ x <= group.end - SlotMs[i]
    BY <1>5, <2>2
  <2> HIDE DEF x
  <2>4. x + SlotMs[i] <= group.end
    BY <1>1, <2>3
  <2>5. QED
    BY <2>1, <2>4 DEF x
<1>8. QED
  BY <1>1, <1>4, <1>5, <1>7

\* A start follows from the one before.
NextForward(group, proposed, F, i) ==
  IF i = Least(group.members) THEN Clamped(group, proposed, i)
  ELSE AtLeast(Clamped(group, proposed, i), F[i - 1] + SlotMs[i - 1])

\* The starts, each moved into the window and past the slot before it.
LEMMA ForwardStarts ==
  ASSUME NEW group, NEW f, NEW l, IsWindow(group, f, l), NEW proposed \in [f..l -> Int]
  PROVE  /\ Forward(group, proposed) \in [f..l -> Int]
         /\ \A i \in f..l : Forward(group, proposed)[i]
                              = NextForward(group, proposed, Forward(group, proposed), i)
<1> DEFINE F == Forward(group, proposed)
           C(i) == Clamped(group, proposed, i)
           D(x) == IF x[2] \in (f + 1)..l THEN AtLeast(C(x[2]), x[1] + SlotMs[x[2] - 1]) ELSE 0
           G == [x \in Int \X Int |-> D(x)]
           c == C(f)
<1>1. /\ f \in Int /\ l \in Int /\ f <= l /\ group.members = f..l /\ Least(group.members) = f
      /\ \A i \in f..l : C(i) \in Int /\ SlotMs[i] \in Int
      /\ \A i \in (f + 1)..l : i \in f..l /\ i - 1 \in f..l /\ i # f
      /\ \A i \in f..l : i # f => i \in (f + 1)..l
  <2>1. f \in Int /\ l \in Int /\ f <= l /\ group.members = f..l /\ Least(group.members) = f
    BY WindowSlots DEF IsWindow
  <2>2. \A i \in f..l : C(i) \in Int /\ SlotMs[i] \in Int
    BY WindowSlots, ClampedInWindow
  <2>3. QED
    BY <2>1, <2>2
<1> HIDE DEF C
<1>2. G \in [Int \X Int -> Int]
  <2>1. ASSUME NEW x \in Int \X Int
        PROVE  D(x) \in Int
    <3>1. CASE x[2] \in (f + 1)..l
      <4>1. C(x[2]) \in Int /\ x[1] + SlotMs[x[2] - 1] \in Int
        BY <1>1, <3>1
      <4>2. AtLeast(C(x[2]), x[1] + SlotMs[x[2] - 1]) \in Int
        BY <4>1, Limits
      <4>3. QED
        BY <3>1, <4>2
    <3>2. QED
      BY <3>1
  <2> HIDE DEF D
  <2>2. QED
    BY <2>1
<1>3. \A x \in Int, i \in (f + 1)..l : G[<<x, i>>] = AtLeast(C(i), x + SlotMs[i - 1])
  <2> SUFFICES ASSUME NEW x \in Int, NEW i \in (f + 1)..l
               PROVE  G[<<x, i>>] = AtLeast(C(i), x + SlotMs[i - 1])
    OBVIOUS
  <2>1. <<x, i>> \in Int \X Int
    OBVIOUS
  <2>2. G[<<x, i>>] = D(<<x, i>>)
    BY <2>1
  <2>3. <<x, i>>[1] = x /\ <<x, i>>[2] = i
    OBVIOUS
  <2>4. QED
    BY <2>2, <2>3
<1> HIDE DEF G
<1>4. c \in Int
  BY <1>1
<1>5. PICK h \in [f..l -> Int] : Rises(h, f, l, c, G)
  <2> HIDE DEF c
  <2>1. QED
    BY <1>1, <1>2, <1>4, UpwardRecursion
<1>6. h = [i \in f..l |-> IF i = f THEN C(i) ELSE AtLeast(C(i), h[i - 1] + SlotMs[i - 1])]
  <2>1. ASSUME NEW i \in f..l
        PROVE  h[i] = IF i = f THEN C(i) ELSE AtLeast(C(i), h[i - 1] + SlotMs[i - 1])
    <3>1. h[i] = IF i = f THEN c ELSE G[<<h[i - 1], i>>]
      BY <1>5 DEF Rises
    <3>2. i # f => h[i - 1] \in Int /\ i \in (f + 1)..l
      BY <1>1
    <3>3. i # f => G[<<h[i - 1], i>>] = AtLeast(C(i), h[i - 1] + SlotMs[i - 1])
      BY <1>3, <3>2
    <3>4. QED
      BY <3>1, <3>3
  <2>2. QED
    BY <2>1
<1>7. \E r : r = [i \in group.members |->
                    IF i = Least(group.members) THEN Clamped(group, proposed, i)
                    ELSE AtLeast(Clamped(group, proposed, i), r[i - 1] + SlotMs[i - 1])]
  BY <1>1, <1>6 DEF C
<1>8. F = [i \in group.members |->
             IF i = Least(group.members) THEN Clamped(group, proposed, i)
             ELSE AtLeast(Clamped(group, proposed, i), F[i - 1] + SlotMs[i - 1])]
  BY <1>7 DEF Forward
<1> HIDE DEF F
<1>9. \A i \in f..l : F[i] = NextForward(group, proposed, F, i)
  BY <1>1, <1>8 DEF NextForward
<1>10. \A i \in f..l : F[i] \in Int
  <2> DEFINE S == {i \in f..l : F[i] \in Int}
  <2>1. f \in S
    <3>1. f \in f..l
      BY <1>1
    <3>2. F[f] = C(f)
      BY <1>1, <1>9, <3>1 DEF NextForward, C
    <3>3. QED
      BY <1>1, <3>1, <3>2
  <2>2. ASSUME NEW i \in f..(l - 1), i \in S
        PROVE  i + 1 \in S
    <3>1. i \in f..l /\ i + 1 \in f..l /\ i + 1 # f /\ (i + 1) - 1 = i
      BY <1>1
    <3>2. F[i + 1] = AtLeast(C(i + 1), F[(i + 1) - 1] + SlotMs[(i + 1) - 1])
      BY <1>1, <1>9, <3>1 DEF NextForward, C
    <3>3. F[i + 1] = AtLeast(C(i + 1), F[i] + SlotMs[i])
      BY <3>1, <3>2
    <3>4. C(i + 1) \in Int /\ F[i] + SlotMs[i] \in Int
      BY <1>1, <2>2, <3>1
    <3>5. F[i + 1] \in Int
      BY <3>3, <3>4, Limits
    <3>6. QED
      BY <3>1, <3>5
  <2> HIDE DEF S
  <2>3. f..l \subseteq S
    BY <1>1, <2>1, <2>2, Ascent
  <2>4. QED
    BY <2>3 DEF S
<1>11. F \in [f..l -> Int]
  <2>1. F = [i \in f..l |-> F[i]]
    BY <1>1, <1>8
  <2>2. QED
    BY <1>10, <2>1
<1>12. QED
  BY <1>9, <1>11 DEF F

\* A start follows from the one after.
NextBackward(group, F, B, i) ==
  AtMost(F[i], (IF i = Greatest(group.members) THEN group.end ELSE B[i + 1]) - SlotMs[i])

\* The starts, each moved back before the slot after it.
LEMMA BackwardStarts ==
  ASSUME NEW group, NEW f, NEW l, IsWindow(group, f, l), NEW F \in [f..l -> Int]
  PROVE  /\ Backward(group, F) \in [f..l -> Int]
         /\ \A i \in f..l : Backward(group, F)[i] = NextBackward(group, F, Backward(group, F), i)
<1> DEFINE B == Backward(group, F)
           D(x) == IF x[2] \in f..l THEN AtMost(F[x[2]], x[1] - SlotMs[x[2]]) ELSE 0
           G == [x \in Int \X Int |-> D(x)]
           c == AtMost(F[l], group.end - SlotMs[l])
<1>1. /\ f \in Int /\ l \in Int /\ f <= l /\ group.members = f..l /\ Greatest(group.members) = l
      /\ group.end \in Int /\ l \in f..l
      /\ \A i \in f..l : F[i] \in Int /\ SlotMs[i] \in Int
      /\ \A i \in f..l : i # l => i + 1 \in f..l
  <2>1. /\ f \in Int /\ l \in Int /\ f <= l /\ group.members = f..l /\ Greatest(group.members) = l
        /\ group.end \in Int
    BY WindowSlots DEF IsWindow
  <2>2. \A i \in f..l : F[i] \in Int /\ SlotMs[i] \in Int
    BY WindowSlots
  <2>3. QED
    BY <2>1, <2>2
<1>2. G \in [Int \X Int -> Int]
  <2>1. ASSUME NEW x \in Int \X Int
        PROVE  D(x) \in Int
    <3>1. CASE x[2] \in f..l
      <4>1. F[x[2]] \in Int /\ x[1] - SlotMs[x[2]] \in Int
        BY <1>1, <3>1
      <4>2. AtMost(F[x[2]], x[1] - SlotMs[x[2]]) \in Int
        BY <4>1, Limits
      <4>3. QED
        BY <3>1, <4>2
    <3>2. QED
      BY <3>1
  <2> HIDE DEF D
  <2>2. QED
    BY <2>1
<1>3. \A x \in Int, i \in f..l : G[<<x, i>>] = AtMost(F[i], x - SlotMs[i])
  <2> SUFFICES ASSUME NEW x \in Int, NEW i \in f..l
               PROVE  G[<<x, i>>] = AtMost(F[i], x - SlotMs[i])
    OBVIOUS
  <2>1. <<x, i>> \in Int \X Int
    BY <1>1
  <2>2. G[<<x, i>>] = D(<<x, i>>)
    BY <2>1
  <2>3. <<x, i>>[1] = x /\ <<x, i>>[2] = i
    OBVIOUS
  <2>4. QED
    BY <2>2, <2>3
<1> HIDE DEF G
<1>4. c \in Int
  <2>1. F[l] \in Int /\ group.end - SlotMs[l] \in Int
    BY <1>1
  <2>2. QED
    BY <2>1, Limits
<1>5. PICK h \in [f..l -> Int] : Falls(h, f, l, c, G)
  <2> HIDE DEF c
  <2>1. QED
    BY <1>1, <1>2, <1>4, DownwardRecursion
<1>6. h = [i \in f..l |-> AtMost(F[i], (IF i = l THEN group.end ELSE h[i + 1]) - SlotMs[i])]
  <2>1. ASSUME NEW i \in f..l
        PROVE  h[i] = AtMost(F[i], (IF i = l THEN group.end ELSE h[i + 1]) - SlotMs[i])
    <3>1. h[i] = IF i = l THEN c ELSE G[<<h[i + 1], i>>]
      BY <1>5 DEF Falls
    <3>2. i # l => h[i + 1] \in Int
      BY <1>1
    <3>3. i # l => G[<<h[i + 1], i>>] = AtMost(F[i], h[i + 1] - SlotMs[i])
      BY <1>3, <3>2
    <3>4. CASE i = l
      BY <3>1, <3>4
    <3>5. CASE i # l
      BY <3>1, <3>3, <3>5
    <3>6. QED
      BY <3>4, <3>5
  <2> HIDE DEF c
  <2>2. QED
    BY <2>1
<1>7. \E r : r = [i \in group.members |->
                    AtMost(F[i], (IF i = Greatest(group.members) THEN group.end
                                  ELSE r[i + 1]) - SlotMs[i])]
  BY <1>1, <1>6
<1>8. B = [i \in group.members |->
             AtMost(F[i], (IF i = Greatest(group.members) THEN group.end
                           ELSE B[i + 1]) - SlotMs[i])]
  BY <1>7 DEF Backward
<1> HIDE DEF B
<1>9. \A i \in f..l : B[i] = NextBackward(group, F, B, i)
  BY <1>1, <1>8 DEF NextBackward
<1>10. \A i \in f..l : B[i] \in Int
  <2> DEFINE S == {i \in f..l : B[i] \in Int}
  <2>1. l \in S
    <3>1. B[l] = c
      BY <1>1, <1>9 DEF NextBackward
    <3>2. QED
      BY <1>1, <1>4, <3>1
  <2>2. ASSUME NEW i \in (f + 1)..l, i \in S
        PROVE  i - 1 \in S
    <3>1. i \in f..l /\ i - 1 \in f..l /\ i - 1 # l /\ (i - 1) + 1 = i
      BY <1>1
    <3>2. B[i - 1] = AtMost(F[i - 1], B[(i - 1) + 1] - SlotMs[i - 1])
      BY <1>1, <1>9, <3>1 DEF NextBackward
    <3>3. B[i - 1] = AtMost(F[i - 1], B[i] - SlotMs[i - 1])
      BY <3>1, <3>2
    <3>4. F[i - 1] \in Int /\ B[i] - SlotMs[i - 1] \in Int
      BY <1>1, <2>2, <3>1
    <3>5. B[i - 1] \in Int
      BY <3>3, <3>4, Limits
    <3>6. QED
      BY <3>1, <3>5
  <2> HIDE DEF S
  <2>3. f..l \subseteq S
    BY <1>1, <2>1, <2>2, Descent
  <2>4. QED
    BY <2>3 DEF S
<1>11. B \in [f..l -> Int]
  <2>1. B = [i \in f..l |-> B[i]]
    BY <1>1, <1>8
  <2>2. QED
    BY <1>10, <2>1
<1>12. QED
  BY <1>9, <1>11 DEF B

\* Slots in line that the last one ends in time for are in the window.
LEMMA AllEndInTime ==
  ASSUME NEW group, NEW f, NEW l, IsWindow(group, f, l), NEW starts \in [f..l -> Int],
         \A i \in f..l : group.start <= starts[i],
         \A i \in f..(l - 1) : starts[i] + SlotMs[i] <= starts[i + 1],
         starts[l] + SlotMs[l] <= group.end
  PROVE  InLine(group, f, l, starts)
<1> DEFINE S == {i \in f..l : starts[i] + SlotMs[i] <= group.end}
<1>1. /\ f \in Int /\ l \in Int /\ f <= l /\ group.end \in Int
      /\ \A i \in f..l : SlotMs[i] \in Nat /\ starts[i] \in Int
  <2>1. f \in Int /\ l \in Int /\ f <= l /\ group.end \in Int
    BY WindowSlots DEF IsWindow
  <2>2. QED
    BY <2>1, WindowSlots
<1>2. l \in S
  BY <1>1
<1>3. ASSUME NEW i \in (f + 1)..l, i \in S
      PROVE  i - 1 \in S
  <2>1. i \in f..l /\ i - 1 \in f..l /\ i - 1 \in f..(l - 1) /\ (i - 1) + 1 = i
    BY <1>1
  <2>2. starts[i - 1] + SlotMs[i - 1] <= starts[(i - 1) + 1]
    BY <2>1
  <2>3. starts[i - 1] + SlotMs[i - 1] <= starts[i]
    BY <2>1, <2>2
  <2>4. starts[i] + SlotMs[i] <= group.end
    BY <1>3
  <2>5. SlotMs[i] \in Nat /\ SlotMs[i - 1] \in Nat /\ starts[i] \in Int /\ starts[i - 1] \in Int
    BY <1>1, <2>1
  <2>6. starts[i - 1] + SlotMs[i - 1] <= group.end
    BY <1>1, <2>3, <2>4, <2>5
  <2>7. QED
    BY <2>1, <2>6
<1> HIDE DEF S
<1>4. f..l \subseteq S
  BY <1>1, <1>2, <1>3, Descent
<1>5. QED
  BY <1>4 DEF S, InLine

\* Moved forward, the slots start in the window, in order, and none is so early
\* that those before it would not fit.
LEMMA ForwardRuns ==
  ASSUME NEW group, NEW f, NEW l, IsWindow(group, f, l), NEW proposed \in [f..l -> Int]
  PROVE  LET F == Forward(group, proposed)
         IN /\ \A i \in f..l : group.start + (OutputStart[i] - OutputStart[f]) <= F[i]
            /\ \A i \in f..(l - 1) : F[i] + SlotMs[i] <= F[i + 1]
<1> DEFINE F == Forward(group, proposed)
           C(i) == Clamped(group, proposed, i)
<1>1. F \in [f..l -> Int] /\ \A i \in f..l : F[i] = NextForward(group, proposed, F, i)
  BY ForwardStarts
<1>2. /\ f \in Int /\ l \in Int /\ f <= l /\ f \in f..l /\ Least(group.members) = f
      /\ group.start \in Int
      /\ \A i \in f..l : /\ C(i) \in Int /\ group.start <= C(i) /\ SlotMs[i] \in Nat
                         /\ OutputStart[i] \in Nat
                         /\ OutputStart[i + 1] = OutputStart[i] + SlotMs[i]
  <2>1. /\ f \in Int /\ l \in Int /\ f <= l /\ Least(group.members) = f /\ group.start \in Int
    BY WindowSlots DEF IsWindow
  <2>2. \A i \in f..l : C(i) \in Int /\ group.start <= C(i)
    BY ClampedInWindow
  <2>3. \A i \in f..l : /\ SlotMs[i] \in Nat /\ OutputStart[i] \in Nat
                       /\ OutputStart[i + 1] = OutputStart[i] + SlotMs[i]
    BY WindowSlots
  <2>4. f \in f..l
    BY <2>1
  <2> HIDE DEF C
  <2>5. QED
    BY <2>1, <2>2, <2>3, <2>4
<1> HIDE DEF F, C
<1>3. F[f] = C(f)
  BY <1>1, <1>2 DEF NextForward, C
<1>4. ASSUME NEW i \in f..(l - 1)
      PROVE  /\ i \in f..l /\ i + 1 \in f..l
             /\ F[i] \in Int /\ F[i + 1] \in Int /\ F[i] + SlotMs[i] <= F[i + 1]
  <2>1. i \in f..l /\ i + 1 \in f..l /\ i + 1 # f /\ (i + 1) - 1 = i
    BY <1>2
  <2>2. F[i + 1] = AtLeast(C(i + 1), F[(i + 1) - 1] + SlotMs[(i + 1) - 1])
    BY <1>1, <1>2, <2>1 DEF NextForward, C
  <2>3. F[i + 1] = AtLeast(C(i + 1), F[i] + SlotMs[i])
    BY <2>1, <2>2
  <2>4. F[i] \in Int /\ F[i + 1] \in Int /\ C(i + 1) \in Int /\ F[i] + SlotMs[i] \in Int
    BY <1>1, <1>2, <2>1
  <2>5. AtLeast(C(i + 1), F[i] + SlotMs[i]) >= F[i] + SlotMs[i]
    BY <2>4, Limits
  <2>6. QED
    BY <2>1, <2>3, <2>4, <2>5
<1> DEFINE S == {i \in f..l : group.start + (OutputStart[i] - OutputStart[f]) <= F[i]}
<1>5. f \in S
  BY <1>2, <1>3
<1>6. ASSUME NEW i \in f..(l - 1), i \in S
      PROVE  i + 1 \in S
  <2>1. /\ i \in f..l /\ i + 1 \in f..l
        /\ F[i] \in Int /\ F[i + 1] \in Int /\ F[i] + SlotMs[i] <= F[i + 1]
    BY <1>4
  <2>2. /\ OutputStart[i + 1] = OutputStart[i] + SlotMs[i] /\ SlotMs[i] \in Nat
        /\ OutputStart[i] \in Nat /\ OutputStart[f] \in Nat
    BY <1>2, <2>1
  <2>3. group.start + (OutputStart[i] - OutputStart[f]) <= F[i]
    BY <1>6
  <2>4. group.start \in Int
    BY <1>2
  <2>5. group.start + (OutputStart[i + 1] - OutputStart[f]) <= F[i + 1]
    BY <2>1, <2>2, <2>3, <2>4
  <2>6. QED
    BY <2>1, <2>5
<1> HIDE DEF S
<1>7. f..l \subseteq S
  BY <1>2, <1>5, <1>6, Ascent
<1>8. QED
  BY <1>4, <1>7 DEF S, F

\* Moved back from the end, the slots still start in the window.
LEMMA BackwardRuns ==
  ASSUME NEW group, NEW f, NEW l, IsWindow(group, f, l), NEW F \in [f..l -> Int],
         \A i \in f..l : group.start + (OutputStart[i] - OutputStart[f]) <= F[i]
  PROVE  InLine(group, f, l, Backward(group, F))
<1> DEFINE B == Backward(group, F)
<1>1. B \in [f..l -> Int] /\ \A i \in f..l : B[i] = NextBackward(group, F, B, i)
  BY BackwardStarts
<1>2. /\ f \in Int /\ l \in Int /\ f <= l /\ f \in f..l /\ l \in f..l /\ Greatest(group.members) = l
      /\ group.start \in Int /\ group.end \in Int
      /\ OutputStart[l + 1] - OutputStart[f] <= group.end - group.start
      /\ \A i \in f..l : /\ SlotMs[i] \in Nat
                         /\ OutputStart[i] \in Nat /\ OutputStart[i + 1] \in Nat
                         /\ OutputStart[i + 1] = OutputStart[i] + SlotMs[i]
                         /\ OutputStart[f] <= OutputStart[i]
  <2>1. /\ f \in Int /\ l \in Int /\ f <= l /\ Greatest(group.members) = l
        /\ group.start \in Int /\ group.end \in Int
    BY WindowSlots DEF IsWindow
  <2>2. QED
    BY <2>1, WindowSlots
<1> HIDE DEF B
<1>3. B[l] = AtMost(F[l], group.end - SlotMs[l])
  BY <1>1, <1>2 DEF NextBackward
<1>4. ASSUME NEW i \in f..(l - 1)
      PROVE  /\ i \in f..l /\ i + 1 \in f..l /\ F[i] \in Int /\ B[i + 1] \in Int
             /\ B[i] = AtMost(F[i], B[i + 1] - SlotMs[i])
  <2>1. i \in f..l /\ i + 1 \in f..l /\ i # l
    BY <1>2
  <2>2. QED
    BY <1>1, <1>2, <2>1 DEF NextBackward
<1>5. B[l] + SlotMs[l] <= group.end
  <2>1. F[l] \in Int /\ group.end - SlotMs[l] \in Int /\ SlotMs[l] \in Nat
    BY <1>2
  <2>2. B[l] <= group.end - SlotMs[l] /\ B[l] \in Int
    BY <1>3, <2>1, Limits
  <2>3. QED
    BY <1>2, <2>1, <2>2
<1>6. ASSUME NEW i \in f..(l - 1)
      PROVE  B[i] + SlotMs[i] <= B[i + 1]
  <2>1. i \in f..l /\ B[i] \in Int /\ B[i + 1] \in Int /\ F[i] \in Int /\ SlotMs[i] \in Nat
    BY <1>1, <1>2, <1>4
  <2>2. B[i + 1] - SlotMs[i] \in Int
    BY <2>1
  <2>3. B[i] <= B[i + 1] - SlotMs[i]
    BY <1>4, <2>1, <2>2, Limits
  <2>4. QED
    BY <2>1, <2>3
<1> DEFINE S == {i \in f..l : group.start + (OutputStart[i] - OutputStart[f]) <= B[i]}
<1>7. l \in S
  <2>1. /\ F[l] \in Int /\ group.end - SlotMs[l] \in Int /\ SlotMs[l] \in Nat
        /\ group.start + (OutputStart[l] - OutputStart[f]) <= F[l]
    BY <1>2
  <2>2. B[l] = F[l] \/ B[l] = group.end - SlotMs[l]
    BY <1>3, <2>1, Limits
  <2>3. group.start + (OutputStart[l] - OutputStart[f]) <= group.end - SlotMs[l]
    BY <1>2
  <2>4. group.start + (OutputStart[l] - OutputStart[f]) <= B[l]
    BY <2>1, <2>2, <2>3
  <2>5. QED
    BY <1>2, <2>4
<1>8. ASSUME NEW i \in (f + 1)..l, i \in S
      PROVE  i - 1 \in S
  <2> DEFINE h == i - 1
  <2>1. h \in f..(l - 1) /\ h + 1 = i /\ h \in f..l /\ i \in f..l
    BY <1>2
  <2> HIDE DEF h
  <2>2. /\ F[h] \in Int /\ B[i] \in Int /\ SlotMs[h] \in Nat /\ B[i] - SlotMs[h] \in Int
        /\ B[h] = AtMost(F[h], B[i] - SlotMs[h])
    <3>1. /\ F[h] \in Int /\ B[h + 1] \in Int /\ B[h] = AtMost(F[h], B[h + 1] - SlotMs[h])
      BY <1>4, <2>1
    <3>2. SlotMs[h] \in Nat
      BY <1>2, <2>1
    <3>3. QED
      BY <2>1, <3>1, <3>2
  <2>3. B[h] = F[h] \/ B[h] = B[i] - SlotMs[h]
    BY <2>2, Limits
  <2>4. /\ OutputStart[i] = OutputStart[h] + SlotMs[h] /\ OutputStart[h] \in Nat
        /\ OutputStart[f] \in Nat
        /\ group.start + (OutputStart[h] - OutputStart[f]) <= F[h]
    BY <1>2, <2>1
  <2>5. group.start + (OutputStart[i] - OutputStart[f]) <= B[i]
    BY <1>8
  <2>6. group.start \in Int
    BY <1>2
  <2>7. group.start + (OutputStart[h] - OutputStart[f]) <= B[h]
    BY <2>2, <2>3, <2>4, <2>5, <2>6
  <2>8. h \in S
    BY <2>1, <2>7
  <2>9. QED
    BY <2>8 DEF h
<1> HIDE DEF S
<1>9. f..l \subseteq S
  BY <1>2, <1>7, <1>8, Descent
<1>10. \A i \in f..l : group.start <= B[i]
  <2> SUFFICES ASSUME NEW i \in f..l
               PROVE  group.start <= B[i]
    OBVIOUS
  <2>1. group.start + (OutputStart[i] - OutputStart[f]) <= B[i] /\ B[i] \in Int
    BY <1>1, <1>9 DEF S
  <2>2. OutputStart[i] \in Nat /\ OutputStart[f] \in Nat /\ OutputStart[f] <= OutputStart[i]
    BY <1>2
  <2>3. QED
    BY <1>2, <2>1, <2>2
<1>11. InLine(group, f, l, B)
  BY <1>1, <1>5, <1>6, <1>10, AllEndInTime
<1>12. QED
  BY <1>11 DEF B

\* Whatever the model proposes, the starts the code makes of it are in the
\* window, one slot after the other.
LEMMA NormalizedInLine ==
  ASSUME NEW group, NEW f, NEW l, IsWindow(group, f, l), NEW proposed \in [f..l -> Int]
  PROVE  InLine(group, f, l, Normalized(group, proposed))
<1> DEFINE F == Forward(group, proposed)
<1>1. F \in [f..l -> Int]
  BY ForwardStarts
<1>2. /\ \A i \in f..l : group.start + (OutputStart[i] - OutputStart[f]) <= F[i]
      /\ \A i \in f..(l - 1) : F[i] + SlotMs[i] <= F[i + 1]
  BY ForwardRuns
<1>3. /\ l \in f..l /\ f \in f..l /\ Greatest(group.members) = l
      /\ group.start \in Int /\ group.end \in Int
      /\ \A i \in f..l : /\ SlotMs[i] \in Nat /\ OutputStart[i] \in Nat
                         /\ OutputStart[f] <= OutputStart[i]
  <2>1. /\ l \in f..l /\ f \in f..l /\ Greatest(group.members) = l
        /\ group.start \in Int /\ group.end \in Int
    BY WindowSlots DEF IsWindow
  <2>2. QED
    BY <2>1, WindowSlots
<1>4. Normalized(group, proposed) = IF F[l] + SlotMs[l] > group.end THEN Backward(group, F) ELSE F
  BY <1>3 DEF Normalized
<1> HIDE DEF F
<1>5. CASE F[l] + SlotMs[l] > group.end
  BY <1>1, <1>2, <1>4, <1>5, BackwardRuns
<1>6. CASE ~ (F[l] + SlotMs[l] > group.end)
  <2>1. F[l] + SlotMs[l] <= group.end
    BY <1>1, <1>3, <1>6
  <2>2. \A i \in f..l : group.start <= F[i]
    <3> SUFFICES ASSUME NEW i \in f..l
                 PROVE  group.start <= F[i]
      OBVIOUS
    <3>1. group.start + (OutputStart[i] - OutputStart[f]) <= F[i] /\ F[i] \in Int
      BY <1>1, <1>2
    <3>2. OutputStart[i] \in Nat /\ OutputStart[f] \in Nat /\ OutputStart[f] <= OutputStart[i]
      BY <1>3
    <3>3. QED
      BY <1>3, <3>1, <3>2
  <2>3. InLine(group, f, l, F)
    BY <1>1, <1>2, <2>1, <2>2, AllEndInTime
  <2>4. QED
    BY <1>4, <1>6, <2>3
<1>7. QED
  BY <1>5, <1>6

\* The trajectories of a planning group fit it and are made for its contents.
LEMMA TrajectoriesFit ==
  ASSUME NEW p, IsAnchored(p), NEW i \in Slots \ Anchored(p),
         NEW t \in Trajectories(p, PlanningGroupOf(p, i))
  PROVE  LET group == PlanningGroupOf(p, i)
         IN /\ TrajectoryFits(group, t)
            /\ \A j \in group.members : t.starts[j] \in Int
            /\ t.made = [j \in group.members |-> p.contents[j]]
<1> DEFINE group == PlanningGroupOf(p, i)
<1>1. PICK f, l : IsWindow(group, f, l)
  BY PlanningGroupIsWindow
<1>2. InOrder(p)
  BY ArrangedInOrder DEF IsAnchored
<1>3. group.segment = p.segment[i]
  BY PlanningFields
<1>4. PICK starts \in Placements(group) :
             t = [starts |-> starts, made |-> [j \in group.members |-> p.contents[j]]]
  BY DEF Trajectories
<1>5. PICK proposed \in [group.members -> SegmentStart[group.segment]..SegmentEnd(group.segment)] :
             starts = Normalized(group, proposed)
  BY <1>4 DEF Placements
<1>6. SegmentStart[group.segment]..SegmentEnd(group.segment) \subseteq Int
  BY <1>2, <1>3, PictureTimes
<1> HIDE DEF group
<1>7. proposed \in [f..l -> Int] /\ group.members = f..l /\ f \in Int /\ l \in Int
  BY <1>1, <1>5, <1>6, WindowSlots DEF IsWindow
<1>8. InLine(group, f, l, starts)
  BY <1>1, <1>5, <1>7, NormalizedInLine
<1>9. t.starts = starts /\ t.made = [j \in group.members |-> p.contents[j]]
  BY <1>4
<1>10. \A j \in f..l : (j + 1) \in f..l => j \in f..(l - 1)
  BY <1>7
<1>11. TrajectoryFits(group, t)
  BY <1>7, <1>8, <1>9, <1>10 DEF TrajectoryFits, InLine
<1>12. QED
  BY <1>7, <1>8, <1>9, <1>11 DEF group, InLine

-----------------------------------------------------------------------------
(* The plans the agents make. *)

\* Planning groups have the shape of groups.
LEMMA PlanningGroupType ==
  ASSUME NEW p, InOrder(p)
  PROVE  PlanningGroups(p) \in SUBSET GroupSet
<1> SUFFICES ASSUME NEW i \in Slots \ Anchored(p)
             PROVE  PlanningGroupOf(p, i) \in GroupSet
  BY DEF PlanningGroups
<1> DEFINE M == PlanningGroupOf(p, i).members
           E == Earlier(p, M, GroupOf(p, i))
<1>1. M \in SUBSET Slots
  BY OwnPlanningGroup
<1>2. Cardinality(E) \in Nat
  <2>1. E \in SUBSET Slots
    BY DEF Earlier, Members
  <2>2. 1 \in Int /\ Len(SlotMs) \in Int /\ Slots = 1..Len(SlotMs)
    BY Durations
  <2>3. IsFiniteSet(Slots)
    BY <2>2, FS_Interval
  <2> HIDE DEF E
  <2>4. QED
    BY <2>1, <2>3, FS_Subset, FS_CardinalityType
<1>3. <<GroupOf(p, i), Cardinality(E) + 1>> \in Nat \X Nat
  <2>1. GroupOf(p, i) \in Nat
    BY GroupIsNumber
  <2> HIDE DEF E
  <2>2. QED
    BY <1>2, <2>1
<1>4. PlanningGroupOf(p, i).id \in Nat \X Nat
  BY <1>3, PlanningFields
<1>5. p.segment[i] \in Segments
  BY SegmentNumbers
<1>6. PlanningGroupOf(p, i).start \in Int /\ PlanningGroupOf(p, i).end \in Int
  BY WindowTimes
<1>7. PlanningGroupOf(p, i) =
        [id |-> PlanningGroupOf(p, i).id, members |-> M, segment |-> p.segment[i],
         start |-> PlanningGroupOf(p, i).start, end |-> PlanningGroupOf(p, i).end]
  BY DEF PlanningGroupOf
<1>8. [id |-> PlanningGroupOf(p, i).id, members |-> M, segment |-> p.segment[i],
       start |-> PlanningGroupOf(p, i).start, end |-> PlanningGroupOf(p, i).end] \in GroupSet
  <2> DEFINE id == PlanningGroupOf(p, i).id
             start == PlanningGroupOf(p, i).start
             end == PlanningGroupOf(p, i).end
  <2> HIDE DEF id, start, end, M
  <2>1. QED
    BY <1>1, <1>4, <1>5, <1>6 DEF GroupSet, id, start, end
<1>9. QED
  BY <1>7, <1>8

\* The planning groups depend on the segments and the anchors only.
LEMMA SamePlanning ==
  ASSUME NEW p, NEW q, p.segment = q.segment, p.anchor = q.anchor
  PROVE  PlanningGroups(p) = PlanningGroups(q)
<1>1. Anchored(p) = Anchored(q) /\ \A i : GroupOf(p, i) = GroupOf(q, i)
  BY DEF Anchored, GroupOf
<1>2. \A i : AnchorsBefore(p, i) = AnchorsBefore(q, i) /\ AnchorsAfter(p, i) = AnchorsAfter(q, i)
  BY <1>1 DEF AnchorsBefore, AnchorsAfter
<1>3. \A g : Members(p, g) = Members(q, g)
  BY <1>1 DEF Members
<1>4. \A i : AnchorStart(p, i) = AnchorStart(q, i) /\ AnchorEnd(p, i) = AnchorEnd(q, i)
  BY DEF AnchorStart, AnchorEnd
<1>5. \A i : PlanningGroupOf(p, i) = PlanningGroupOf(q, i)
  <2> SUFFICES ASSUME NEW i
               PROVE  PlanningGroupOf(p, i) = PlanningGroupOf(q, i)
    OBVIOUS
  <2> DEFINE X == PlanningGroupOf(p, i)
             Y == PlanningGroupOf(q, i)
  <2>1. \A r : PlanningGroupOf(r, i).members =
                 {j \in Members(r, GroupOf(r, i)) :
                    /\ AnchorsBefore(r, i) = {} \/ j > Greatest(AnchorsBefore(r, i))
                    /\ AnchorsAfter(r, i) = {} \/ j < Least(AnchorsAfter(r, i))}
    BY DEF PlanningGroupOf
  <2>2. X.members = Y.members
    BY <1>1, <1>2, <1>3, <2>1
  <2>3. \A M, g : Earlier(p, M, g) = Earlier(q, M, g)
    BY <1>1, <1>3 DEF Earlier
  <2>4. X.id = Y.id
    BY <1>1, <2>2, <2>3, PlanningFields
  <2>5. X.segment = Y.segment /\ X.start = Y.start /\ X.end = Y.end
    BY <1>2, <1>4, PlanningFields
  <2>6. \A r : PlanningGroupOf(r, i) =
                 [id |-> PlanningGroupOf(r, i).id, members |-> PlanningGroupOf(r, i).members,
                  segment |-> PlanningGroupOf(r, i).segment,
                  start |-> PlanningGroupOf(r, i).start, end |-> PlanningGroupOf(r, i).end]
    BY DEF PlanningGroupOf
  <2>7. QED
    BY <2>2, <2>4, <2>5, <2>6
<1>6. QED
  BY <1>1, <1>5 DEF PlanningGroups

\* Whether an arrangement is legal depends on the segments only.
LEMMA SameArrangement ==
  ASSUME NEW p, NEW q, p.segment = q.segment
  PROVE  ArrangementIsLegal(p) <=> ArrangementIsLegal(q)
<1>1. \A i : GroupOf(p, i) = GroupOf(q, i)
  BY DEF GroupOf
<1>2. GroupNumbers(p) = GroupNumbers(q) /\ \A g : Members(p, g) = Members(q, g)
  BY <1>1 DEF GroupNumbers, Members
<1>3. \A g : SegmentOf(p, g) = SegmentOf(q, g) /\ GroupMs(p, g) = GroupMs(q, g)
  BY <1>2 DEF SegmentOf, GroupMs
<1>4. QED
  BY <1>2, <1>3 DEF ArrangementIsLegal

\* The fields of plans, and plans made of fields.
LEMMA PlanFields ==
  /\ \A p \in Plans :
       /\ p = [segment |-> p.segment, contents |-> p.contents, anchor |-> p.anchor,
               groups |-> p.groups]
       /\ p.segment \in [Slots -> Segments] /\ p.contents \in [Slots -> Contents]
       /\ p.anchor \in [Slots -> Passages \cup {None}] /\ p.groups \in SUBSET GroupSet
  /\ \A s \in [Slots -> Segments], c \in [Slots -> Contents],
        a \in [Slots -> Passages \cup {None}], G \in SUBSET GroupSet :
       [segment |-> s, contents |-> c, anchor |-> a, groups |-> G] \in Plans
  BY DEF Plans

\* A legal arrangement that is laid out is anchored if its anchors are legal.
LEMMA LaidOutIsAnchored ==
  ASSUME NEW p, IsArranged(p), AnchorsAreLegal(LaidOut(p))
  PROVE  IsAnchored(LaidOut(p))
<1> DEFINE q == [segment |-> p.segment, contents |-> p.contents, anchor |-> p.anchor,
                 groups |-> PlanningGroups(p)]
<1>1. p \in Plans /\ InOrder(p)
  BY ArrangedInOrder DEF IsArranged
<1>2. LaidOut(p) = q
  BY <1>1, PlanFields DEF LaidOut
<1>3. q \in Plans
  BY <1>1, PlanFields, PlanningGroupType
<1>4. q.segment = p.segment /\ q.anchor = p.anchor /\ q.groups = PlanningGroups(p)
  OBVIOUS
<1> HIDE DEF q
<1>5. ArrangementIsLegal(q) /\ PlanningGroups(q) = PlanningGroups(p)
  BY <1>4, SamePlanning, SameArrangement DEF IsArranged
<1>6. QED
  BY <1>2, <1>3, <1>4, <1>5 DEF IsAnchored, IsArranged

\* What the arrangement agent answers.
LEMMA ArrangementsAreArranged ==
  ASSUME NEW unavailable, NEW p \in Arrangements(unavailable)
  PROVE  IsArranged(p)
<1>1. /\ p \in [segment: [Slots -> Segments \ unavailable],
                contents: {[i \in Slots |-> CHOOSE c \in Contents : TRUE]},
                anchor: {Unanchored}, groups: {{}}]
      /\ ArrangementIsLegal(p)
  BY DEF Arrangements
<1>2. (CHOOSE c \in Contents : TRUE) \in Contents
  BY PlanningAssumption
<1>3. [i \in Slots |-> CHOOSE c \in Contents : TRUE] \in [Slots -> Contents]
  BY <1>2
<1>4. Unanchored \in [Slots -> Passages \cup {None}]
  BY DEF Unanchored
<1>5. /\ p = [segment |-> p.segment, contents |-> p.contents, anchor |-> p.anchor,
              groups |-> p.groups]
      /\ p.segment \in [Slots -> Segments] /\ p.contents \in [Slots -> Contents]
      /\ p.anchor \in [Slots -> Passages \cup {None}] /\ p.groups \in SUBSET GroupSet
  BY <1>1, <1>3, <1>4
<1>6. p \in Plans
  BY <1>5, PlanFields
<1>7. QED
  BY <1>1, <1>6 DEF IsArranged

\* What the story agent answers.
LEMMA StoriesAreAnchored ==
  ASSUME NEW p, IsArranged(p), NEW q \in Stories([p EXCEPT !.anchor = Unanchored])
  PROVE  IsAnchored(q)
<1> DEFINE u == [p EXCEPT !.anchor = Unanchored]
<1>1. PICK a \in [Slots -> Passages \cup {None}] : q = LaidOut([u EXCEPT !.anchor = a])
  BY DEF Stories
<1>2. AnchorsAreLegal(q)
  BY DEF Stories
<1> DEFINE r == [segment |-> p.segment, contents |-> p.contents, anchor |-> a,
                 groups |-> p.groups]
<1>3. p \in Plans /\ ArrangementIsLegal(p)
  BY DEF IsArranged
<1>4. [u EXCEPT !.anchor = a] = r
  BY <1>3, PlanFields
<1>5. r \in Plans
  BY <1>3, PlanFields
<1>6. r.segment = p.segment
  OBVIOUS
<1> HIDE DEF r, u
<1>7. IsArranged(r)
  BY <1>3, <1>5, <1>6, SameArrangement DEF IsArranged
<1>8. QED
  BY <1>1, <1>2, <1>4, <1>7, LaidOutIsAnchored

\* What the redesign of the groups of a window answers.
LEMMA RedesignsAreArranged ==
  ASSUME NEW p, IsArranged(p), NEW window, NEW unavailable,
         NEW q \in Redesigns(p, window, unavailable)
  PROVE  /\ IsArranged(q) /\ KeepsAnchors(q) /\ q.anchor = p.anchor
         /\ \A i \in Slots : GroupOf(p, i) \notin window => q.segment[i] = p.segment[i]
<1>1. p \in Plans
  BY DEF IsArranged
<1>2. PICK f \in [window -> Segments] : \E c \in [Slots -> Contents] :
               q = [Moved(p, window, f) EXCEPT !.contents = c]
  BY DEF Redesigns
<1>3. PICK c \in [Slots -> Contents] : q = [Moved(p, window, f) EXCEPT !.contents = c]
  BY <1>2
<1>4. ArrangementIsLegal(q) /\ KeepsAnchors(q)
  BY DEF Redesigns
<1> DEFINE s == [i \in Slots |->
                   IF GroupOf(p, i) \in window THEN f[GroupOf(p, i)] ELSE p.segment[i]]
           r == [segment |-> s, contents |-> c, anchor |-> p.anchor, groups |-> p.groups]
<1>5. s \in [Slots -> Segments]
  BY <1>1, PlanFields
<1>6. \A i \in Slots : GroupOf(p, i) \notin window => s[i] = p.segment[i]
  OBVIOUS
<1>7. Moved(p, window, f) = [p EXCEPT !.segment = s]
  BY DEF Moved
<1> HIDE DEF s
<1>8. q = r
  <2>1. p = [segment |-> p.segment, contents |-> p.contents, anchor |-> p.anchor,
             groups |-> p.groups]
    BY <1>1, PlanFields
  <2>2. Moved(p, window, f)
          = [segment |-> s, contents |-> p.contents, anchor |-> p.anchor, groups |-> p.groups]
    BY <1>7, <2>1
  <2>3. QED
    BY <1>3, <2>2
<1>9. r \in Plans
  BY <1>1, <1>5, PlanFields
<1>10. QED
  BY <1>4, <1>6, <1>8, <1>9 DEF IsArranged

-----------------------------------------------------------------------------
(* The scout. *)

\* What is retrieved and what is reused is made for the groups of the plan.
LEMMA FoundIsPool ==
  ASSUME IsAnchored(slots), NEW reusable, NEW failed,
         \/ reusable = {}
         \/ /\ IsPoolOf(replan.reuse.slots, replan.reuse.pool)
            /\ reusable = Reusable(slots, replan.reuse, failed),
         NEW batches \in Selections([id \in GroupIds(slots) |->
                                       Batches(slots, GroupWithId(slots, id))])
  PROVE  IsPoolOf(slots, Retrieved(reusable, batches))
<1> DEFINE P == Retrieved(reusable, batches)
<1>1. InOrder(slots) /\ slots.groups = PlanningGroups(slots)
  BY ArrangedInOrder DEF IsAnchored
<1>2. DOMAIN P = GroupIds(slots)
  BY DEF Retrieved
<1>3. ASSUME NEW id \in GroupIds(slots), NEW t \in P[id]
      PROVE  /\ TrajectoryFits(GroupWithId(slots, id), t)
             /\ \A i \in GroupWithId(slots, id).members : t.starts[i] \in Int
             /\ t.made = [i \in GroupWithId(slots, id).members |-> slots.contents[i]]
  <2>1. CASE id \in reusable
    <3> DEFINE old == replan.reuse.slots
    <3>1. /\ IsPoolOf(old, replan.reuse.pool)
          /\ id \in GroupIds(old) /\ Contract(slots, id) = Contract(old, id)
      BY <2>1 DEF Reusable
    <3>2. t \in replan.reuse.pool[id]
      BY <1>3, <2>1 DEF Retrieved
    <3>3. /\ GroupWithId(slots, id) = GroupWithId(old, id)
          /\ [i \in GroupWithId(slots, id).members |-> slots.contents[i]]
               = [i \in GroupWithId(old, id).members |-> old.contents[i]]
      <4>1. \A p : /\ Contract(p, id).group = GroupWithId(p, id)
                   /\ Contract(p, id).contents = [i \in GroupWithId(p, id).members |-> p.contents[i]]
        BY DEF Contract
      <4>2. QED
        BY <3>1, <4>1
    <3>4. QED
      BY <3>1, <3>2, <3>3 DEF IsPoolOf
  <2>2. CASE id \notin reusable
    <3>1. t \in batches[id]
      BY <1>3, <2>2 DEF Retrieved
    <3>2. batches[id] \in Batches(slots, GroupWithId(slots, id))
      BY DEF Selections
    <3>3. t \in Trajectories(slots, GroupWithId(slots, id))
      BY <3>1, <3>2 DEF Batches
    <3>4. GroupWithId(slots, id) \in PlanningGroups(slots)
      BY <1>1, GroupsHaveIds
    <3>5. PICK i \in Slots \ Anchored(slots) : GroupWithId(slots, id) = PlanningGroupOf(slots, i)
      BY <3>4 DEF PlanningGroups
    <3>6. QED
      BY <3>3, <3>5, TrajectoriesFit
  <2>3. QED
    BY <2>1, <2>2
<1> HIDE DEF P
<1>4. IsPoolOf(slots, P)
  BY <1>2, <1>3 DEF IsPoolOf
<1>5. QED
  BY <1>4 DEF P

-----------------------------------------------------------------------------
(* The invariant is inductive. *)

\* A planning that has not begun, or has been given up.
Blank(k, n, r, f) == k = 0 /\ n = 1 /\ r = NoReplan /\ f = NoFeedback

\* A plan is never the mark for nothing to reuse.
LEMMA NothingToReuse ==
  \A p \in Plans : \A P : [slots |-> p, pool |-> P] # NoReuse
<1> SUFFICES ASSUME NEW p \in Plans, NEW P, [slots |-> p, pool |-> P] = NoReuse
             PROVE  FALSE
  OBVIOUS
<1>1. [slots |-> p, pool |-> P].slots = p /\ NoReuse.slots = None
  BY DEF NoReuse
<1>2. p = None
  BY <1>1
<1>3. QED
  BY <1>2, NoPlanAssumption

\* A planning without work is whole, whatever its variables still hold.
LEMMA BlankIsWhole ==
  ASSUME NEW k, NEW n, NEW s, NEW P, NEW c, NEW r, NEW f, Blank(k, n, r, f)
  PROVE  Whole(k, n, s, P, c, r, f)
<1>1. /\ r = [scope |-> "none", local |-> 0, reuse |-> NoReuse, pending |-> FALSE]
      /\ k = 0 /\ n = 1
  BY DEF Blank, NoReplan
<1>2. ReplanFits(r, k)
  BY <1>1 DEF ReplanFits
<1>3. QED
  BY <1>1, <1>2 DEF Whole

\* A planning begins whole and without a checkpoint.
LEMMA InitIsWhole == PlanningInit => IInv
<1> SUFFICES ASSUME PlanningInit
             PROVE  IInv
  OBVIOUS
<1>1. Blank(rank, attempt, replan, feedback)
  BY DEF PlanningInit, Blank
<1>2. StateIsWhole
  BY <1>1, BlankIsWhole DEF StateIsWhole
<1>3. CheckpointIsWhole
  BY DEF PlanningInit, CheckpointIsWhole
<1>4. QED
  BY <1>2, <1>3 DEF IInv

\* A replanning state that is no longer pending.
LEMMA NothingPends ==
  ASSUME NEW a, NEW b, NEW c, NEW d
  PROVE  [[scope |-> a, local |-> b, reuse |-> c, pending |-> d] EXCEPT !.pending = FALSE]
           = [scope |-> a, local |-> b, reuse |-> c, pending |-> FALSE]
<1> DEFINE no == FALSE
<1> HIDE DEF no
<1>1. [[scope |-> a, local |-> b, reuse |-> c, pending |-> d] EXCEPT !.pending = no]
        = [scope |-> a, local |-> b, reuse |-> c, pending |-> no]
  OBVIOUS
<1>2. QED
  BY <1>1 DEF no

\* Nothing is reused any more.
LEMMA ClearedReplan ==
  ASSUME NEW r, NEW k, NEW m, ReplanFits(r, k)
  PROVE  /\ ReplanFits(ClearScope(r), m)
         /\ ClearScope(r).reuse = NoReuse /\ ~ ClearScope(r).pending
         /\ ClearScope(r).scope = "none"
<1>1. /\ r = [scope |-> r.scope, local |-> r.local, reuse |-> r.reuse, pending |-> r.pending]
      /\ r.local \in Nat
  BY DEF ReplanFits
<1>2. ClearScope(r) = [scope |-> "none", local |-> r.local, reuse |-> NoReuse, pending |-> FALSE]
  <2>1. PICK a, b, c, d : r = [scope |-> a, local |-> b, reuse |-> c, pending |-> d]
    BY <1>1
  <2>2. [r EXCEPT !.scope = "none"] = [scope |-> "none", local |-> b, reuse |-> c, pending |-> d]
    BY <2>1
  <2>3. [[scope |-> "none", local |-> b, reuse |-> c, pending |-> d] EXCEPT !.reuse = NoReuse]
          = [scope |-> "none", local |-> b, reuse |-> NoReuse, pending |-> d]
    OBVIOUS
  <2>5. [[scope |-> "none", local |-> b, reuse |-> NoReuse, pending |-> d] EXCEPT !.pending = FALSE]
          = [scope |-> "none", local |-> b, reuse |-> NoReuse, pending |-> FALSE]
    BY NothingPends
  <2>6. ClearScope(r)
          = [[[r EXCEPT !.scope = "none"] EXCEPT !.reuse = NoReuse] EXCEPT !.pending = FALSE]
    BY DEF ClearScope
  <2>4. r.local = b
    BY <2>1
  <2>7. QED
    BY <2>2, <2>3, <2>4, <2>5, <2>6
<1>3. QED
  BY <1>1, <1>2 DEF ReplanFits

\* What a step saves is what the state after it is, if the stage it saves is
\* as far as the planning is.
LEMMA SavedBoundary ==
  ASSUME NEW stage \in {"replan_pending", "arrangement", "story", "timeline", "edit"},
         StateIsWhole', SaveBoundary(stage), rank' = StageRank(stage),
         stage = "replan_pending" =>
           /\ replan'.scope # "none"
           /\ replan'.pending <=> replan'.scope = "candidate_local",
         stage \notin {"replan_pending", "story"} => replan'.scope # "candidate_local"
  PROVE  CheckpointIsWhole'
<1>1. Whole(rank', attempt', slots', pool', path', replan', feedback')
  BY DEF StateIsWhole
<1>2. /\ replan' = [scope |-> replan'.scope, local |-> replan'.local, reuse |-> replan'.reuse,
                    pending |-> replan'.pending]
      /\ replan'.pending \in BOOLEAN
      /\ (replan'.scope = "candidate_local") = (replan'.reuse # NoReuse)
      /\ replan'.pending => rank' = 0 /\ replan'.scope = "candidate_local"
  BY <1>1 DEF Whole, ReplanFits
<1>3. /\ checkpoint'.stage = stage /\ checkpoint'.attempt = attempt'
      /\ checkpoint'.slots = slots'
      /\ checkpoint'.pool = (IF stage \in {"timeline", "edit"} THEN pool' ELSE None)
      /\ checkpoint'.path = (IF stage = "edit" THEN path' ELSE None)
      /\ checkpoint'.scope = replan'.scope /\ checkpoint'.local = replan'.local
      /\ checkpoint'.reuse = (IF stage \in {"replan_pending", "story"} THEN replan'.reuse
                              ELSE NoReuse)
      /\ checkpoint'.feedback = feedback'
  BY DEF SaveBoundary
<1>4. checkpoint'.reuse = replan'.reuse
  BY <1>2, <1>3
<1>5. stage # "replan_pending" => rank' # 0
  BY DEF StageRank
<1>6. IsPending(checkpoint') = replan'.pending
  BY <1>2, <1>3, <1>5 DEF IsPending
<1>7. SavedReplan(checkpoint') = replan'
  BY <1>2, <1>3, <1>4, <1>6 DEF SavedReplan
<1>8. SavedSlots(checkpoint') = slots'
  BY <1>1, <1>3, <1>4, <1>6 DEF SavedSlots, Whole
<1>9. rank' >= 3 => SavedPool(checkpoint') = pool'
  <2> SUFFICES ASSUME rank' >= 3
               PROVE  SavedPool(checkpoint') = pool'
    OBVIOUS
  <2>1. rank' # 0 /\ stage \in {"timeline", "edit"}
    BY DEF StageRank
  <2>2. QED
    BY <1>2, <1>3, <1>6, <2>1 DEF SavedPool
<1>10. replan'.pending => SavedPool(checkpoint') = pool'
  BY <1>1, <1>3, <1>4, <1>6 DEF SavedPool, Whole
<1>11. rank' = 4 => checkpoint'.path = path'
  BY <1>3 DEF StageRank
<1>12. Whole(StageRank(checkpoint'.stage), checkpoint'.attempt, SavedSlots(checkpoint'),
             SavedPool(checkpoint'), checkpoint'.path, SavedReplan(checkpoint'),
             checkpoint'.feedback)
  BY <1>1, <1>3, <1>7, <1>8, <1>9, <1>10, <1>11 DEF Whole
<1>13. IsSaved(checkpoint')
  BY <1>3, <1>12 DEF IsSaved
<1>14. QED
  BY <1>13 DEF CheckpointIsWhole


\* What a planning is like without a repair under way.
LEMMA NoRepair ==
  ASSUME StateIsWhole, rank # 0, rank # 2
  PROVE  /\ replan.scope = "none" /\ replan.reuse = NoReuse /\ ~ replan.pending
         /\ \A m : ReplanFits(replan, m)
<1>1. ReplanFits(replan, rank)
  BY DEF StateIsWhole, Whole
<1>2. replan.scope = "none" /\ replan.reuse = NoReuse /\ ~ replan.pending
  BY <1>1 DEF ReplanFits
<1>3. QED
  BY <1>1, <1>2 DEF ReplanFits

\* A planning that is given up keeps the checkpoint it has.
LEMMA AbandonIsWhole ==
  ASSUME IInv, NEW p, Abandon(p), checkpoint' = checkpoint
  PROVE  IInv'
<1>1. Blank(rank', attempt', replan', feedback')
  BY DEF Abandon, Blank
<1>2. Whole(rank', attempt', slots', pool', path', replan', feedback')
  BY <1>1, BlankIsWhole
<1>3. CheckpointIsWhole'
  BY DEF IInv, CheckpointIsWhole
<1>4. QED
  BY <1>2, <1>3 DEF IInv, StateIsWhole

\* A new arrangement leaves nothing to repair.
LEMMA ArrangeIsWhole ==
  ASSUME IInv, Arrange
  PROVE  IInv'
<1>1. /\ ReplanFits(replan, rank) /\ attempt \in Nat
  BY DEF IInv, StateIsWhole, Whole
<1>2. /\ ReplanFits(replan', 1) /\ replan'.reuse = NoReuse
      /\ ~ replan'.pending /\ replan'.scope = "none"
  BY <1>1, ClearedReplan DEF Arrange
<1>3. IsArranged(slots')
  <2>1. slots' \in Arrangements(feedback.unavailable)
    BY DEF Arrange
  <2>2. QED
    BY <2>1, ArrangementsAreArranged
<1>4. rank' = 1 /\ attempt' = attempt /\ SaveBoundary("arrangement")
  BY DEF Arrange
<1>5. StateIsWhole'
  BY <1>1, <1>2, <1>3, <1>4 DEF StateIsWhole, Whole
<1>6. CheckpointIsWhole'
  BY <1>2, <1>4, <1>5, SavedBoundary DEF StageRank
<1>7. QED
  BY <1>5, <1>6 DEF IInv

\* The story makes an arranged plan an anchored one.
LEMMA AnchorStoryIsWhole ==
  ASSUME IInv, AnchorStory
  PROVE  IInv'
<1>1. rank = 1 /\ IsArranged(slots) /\ attempt \in Nat
  BY DEF IInv, StateIsWhole, Whole, AnchorStory
<1>2. /\ replan.scope = "none" /\ replan.reuse = NoReuse /\ ~ replan.pending
      /\ ReplanFits(replan, 2)
  BY <1>1, NoRepair DEF IInv
<1>3. IsAnchored(slots')
  <2>1. slots' \in Stories([slots EXCEPT !.anchor = Unanchored])
    BY DEF AnchorStory
  <2>2. QED
    BY <1>1, <2>1, StoriesAreAnchored
<1>4. rank' = 2 /\ attempt' = attempt /\ replan' = replan /\ SaveBoundary("story")
  BY DEF AnchorStory
<1>5. StateIsWhole'
  BY <1>1, <1>2, <1>3, <1>4 DEF StateIsWhole, Whole, IsAnchored
<1>6. CheckpointIsWhole'
  BY <1>2, <1>4, <1>5, SavedBoundary DEF StageRank
<1>7. QED
  BY <1>5, <1>6 DEF IInv

\* A repaired plan is laid out again, and its repair can be saved.
LEMMA RepairGroupsIsWhole ==
  ASSUME IInv, RepairGroups
  PROVE  IInv'
<1>1. /\ ReplanFits(replan, rank) /\ attempt \in Nat /\ replan.pending
      /\ replan.reuse # NoReuse /\ IsReuse(replan, feedback) /\ slots = replan.reuse.slots
  BY DEF IInv, StateIsWhole, Whole, RepairGroups, ReplanFits
<1>2. replan' = [scope |-> replan.scope, local |-> replan.local, reuse |-> replan.reuse,
                 pending |-> FALSE]
  <2>1. PICK a, b, c, d : replan = [scope |-> a, local |-> b, reuse |-> c, pending |-> d]
    BY <1>1 DEF ReplanFits
  <2>2. replan' = [replan EXCEPT !.pending = FALSE]
    BY DEF RepairGroups
  <2>3. replan' = [scope |-> a, local |-> b, reuse |-> c, pending |-> FALSE]
    BY <2>1, <2>2, NothingPends
  <2>4. QED
    BY <2>1, <2>3
<1>3. /\ ReplanFits(replan', 2) /\ replan'.reuse = replan.reuse /\ ~ replan'.pending
      /\ replan'.local = replan.local
  BY <1>1, <1>2 DEF ReplanFits
<1>4. IsAnchored(slots')
  <2>1. PICK r \in Redesigns(slots, Window, feedback.unavailable) :
          slots' = LaidOut(r) /\ AnchorsAreLegal(LaidOut(r))
    BY DEF RepairGroups
  <2>2. IsArranged(slots)
    BY <1>1 DEF IsReuse, IsAnchored
  <2>3. IsArranged(r)
    BY <2>2, RedesignsAreArranged
  <2>4. QED
    BY <2>1, <2>3, LaidOutIsAnchored
<1>5. /\ rank' = 2 /\ attempt' = attempt /\ feedback' = feedback /\ SaveBoundary("story")
  BY DEF RepairGroups
<1>6. IsReuse(replan', feedback')
  BY <1>1, <1>3, <1>5 DEF IsReuse
<1>7. StateIsWhole'
  BY <1>1, <1>3, <1>4, <1>5, <1>6 DEF StateIsWhole, Whole, IsAnchored
<1>8. CheckpointIsWhole'
  BY <1>5, <1>7, SavedBoundary DEF StageRank
<1>9. QED
  BY <1>7, <1>8 DEF IInv

\* A failed round is given up, or leaves a repair or another round to do.
LEMMA FailureIsWhole ==
  ASSUME IInv, NEW local \in BOOLEAN, NEW failed, NEW static, NEW partial,
         HandleAttemptFailure(local, failed, static, partial),
         local => /\ failed # {} /\ failed \subseteq GroupIds(slots)
                  /\ IsAnchored(slots) /\ IsPoolOf(slots, partial)
  PROVE  IInv'
<1>1. CASE /\ ~ IsLocal(local) /\ attempt >= MaxRounds
           /\ Abandon("failed")
           /\ UNCHANGED <<checkpoint, resumes>>
  BY <1>1, AbandonIsWhole
<1>2. ASSUME \/ IsLocal(local)
             \/ attempt < MaxRounds,
             feedback' = [failed |-> failed, unavailable |-> feedback.unavailable \cup static],
             IF IsLocal(local)
               THEN /\ attempt' = attempt
                    /\ pool' = partial
                    /\ replan' = [scope |-> "candidate_local", local |-> replan.local + 1,
                                  reuse |-> [slots |-> slots, pool |-> partial],
                                  pending |-> TRUE]
               ELSE /\ attempt' = attempt + 1
                    /\ pool' = None
                    /\ replan' = [replan EXCEPT !.scope = "global", !.reuse = NoReuse,
                                                !.pending = FALSE],
             rank' = 0, slots' = slots, SaveBoundary("replan_pending")
      PROVE  IInv'
  <2>1. ReplanFits(replan, rank) /\ replan.local \in Nat /\ attempt \in Nat
    BY DEF IInv, StateIsWhole, Whole, ReplanFits
  <2>2. ASSUME IsLocal(local)
        PROVE  /\ StateIsWhole'
               /\ replan'.scope = "candidate_local" /\ replan'.pending
    <3>1. /\ failed # {} /\ failed \subseteq GroupIds(slots)
          /\ IsAnchored(slots) /\ IsPoolOf(slots, partial)
      BY <2>2 DEF IsLocal
    <3>2. /\ attempt' = attempt /\ pool' = partial
          /\ replan' = [scope |-> "candidate_local", local |-> replan.local + 1,
                        reuse |-> [slots |-> slots, pool |-> partial], pending |-> TRUE]
      BY <1>2, <2>2
    <3>3. slots \in Plans
      BY <3>1 DEF IsAnchored, IsArranged
    <3>4. [slots |-> slots, pool |-> partial] # NoReuse
      BY <3>3, NothingToReuse
    <3>5. replan.local + 1 \in Nat /\ replan.local + 1 > 0
      BY <2>1
    <3>6. ReplanFits(replan', 0)
      <4> DEFINE n == replan.local + 1
                 u == [slots |-> slots, pool |-> partial]
      <4>1. /\ replan' = [scope |-> "candidate_local", local |-> n, reuse |-> u,
                          pending |-> TRUE]
            /\ n \in Nat /\ u # NoReuse
        BY <3>2, <3>4, <3>5
      <4> HIDE DEF n, u
      <4>2. QED
        BY <4>1 DEF ReplanFits
    <3>7. /\ replan'.local > 0 /\ replan'.reuse.slots = slots /\ replan'.reuse.pool = partial
          /\ feedback'.failed = failed
      BY <1>2, <3>2, <3>5
    <3>8. IsReuse(replan', feedback')
      BY <3>1, <3>7 DEF IsReuse
    <3>9. Whole(rank', attempt', slots', pool', path', replan', feedback')
      BY <1>2, <2>1, <3>2, <3>6, <3>7, <3>8 DEF Whole
    <3>10. QED
      BY <3>2, <3>9 DEF StateIsWhole
  <2>3. ASSUME ~ IsLocal(local)
        PROVE  /\ StateIsWhole'
               /\ replan'.scope = "global" /\ ~ replan'.pending
    <3>1. PICK a, b, c, d : replan = [scope |-> a, local |-> b, reuse |-> c, pending |-> d]
      BY <2>1 DEF ReplanFits
    <3>2. [replan EXCEPT !.scope = "global"]
            = [scope |-> "global", local |-> b, reuse |-> c, pending |-> d]
      BY <3>1
    <3>3. [[scope |-> "global", local |-> b, reuse |-> c, pending |-> d] EXCEPT !.reuse = NoReuse]
            = [scope |-> "global", local |-> b, reuse |-> NoReuse, pending |-> d]
      OBVIOUS
    <3>4. [[scope |-> "global", local |-> b, reuse |-> NoReuse, pending |-> d]
             EXCEPT !.pending = FALSE]
            = [scope |-> "global", local |-> b, reuse |-> NoReuse, pending |-> FALSE]
      BY NothingPends
    <3>5. replan' = [[[replan EXCEPT !.scope = "global"] EXCEPT !.reuse = NoReuse]
                       EXCEPT !.pending = FALSE]
      BY <1>2, <2>3
    <3>6. replan' = [scope |-> "global", local |-> b, reuse |-> NoReuse, pending |-> FALSE]
      BY <3>2, <3>3, <3>4, <3>5
    <3>7. b \in Nat
      BY <2>1, <3>1
    <3>8. ReplanFits(replan', 0)
      BY <3>6, <3>7 DEF ReplanFits
    <3>9. attempt' \in Nat
      BY <1>2, <2>1, <2>3
    <3>10. Whole(rank', attempt', slots', pool', path', replan', feedback')
      BY <1>2, <3>6, <3>8, <3>9 DEF Whole
    <3>11. QED
      BY <3>6, <3>10 DEF StateIsWhole
  <2>4. StateIsWhole'
    BY <2>2, <2>3
  <2>5. /\ replan'.scope # "none"
        /\ replan'.pending <=> replan'.scope = "candidate_local"
    BY <2>2, <2>3
  <2>6. CheckpointIsWhole'
    BY <1>2, <2>4, <2>5, SavedBoundary DEF StageRank
  <2>7. QED
    BY <2>4, <2>6 DEF IInv
<1>3. QED
  BY <1>1, <1>2 DEF HandleAttemptFailure

\* What the scout found for an anchored plan is made for its groups.
LEMMA ScoutIsWhole ==
  ASSUME IInv, Scout
  PROVE  IInv'
<1>1. /\ rank = 2 /\ IsAnchored(slots) /\ attempt \in Nat /\ ReplanFits(replan, rank)
      /\ replan.reuse # NoReuse => IsReuse(replan, feedback)
  BY DEF IInv, StateIsWhole, Whole, Scout
<1>2. PICK batches \in Selections([id \in GroupIds(slots) |->
                                     Batches(slots, GroupWithId(slots, id))]),
           static \in SUBSET {group.segment : group \in slots.groups} :
        ScoutWith(batches, static)
  BY DEF Scout
<1> DEFINE reusable == IF replan.reuse = NoReuse THEN {}
                       ELSE Reusable(slots, replan.reuse, feedback.failed)
           found == Retrieved(reusable, batches)
           empty == {id \in GroupIds(slots) : found[id] = {}}
<1>3. IsPoolOf(slots, found)
  <2>1. \/ reusable = {}
        \/ /\ IsPoolOf(replan.reuse.slots, replan.reuse.pool)
           /\ reusable = Reusable(slots, replan.reuse, feedback.failed)
    BY <1>1 DEF IsReuse
  <2> HIDE DEF reusable
  <2>2. QED
    BY <1>1, <2>1, FoundIsPool
<1>4. \/ /\ empty = {}
         /\ pool' = found /\ rank' = 3 /\ replan' = ClearScope(replan)
         /\ UNCHANGED <<attempt, slots>>
         /\ SaveBoundary("timeline")
      \/ /\ empty # {}
         /\ HandleAttemptFailure(TRUE, empty, static, found)
  BY <1>2 DEF ScoutWith
<1>5. empty \subseteq GroupIds(slots) /\ \A id \in GroupIds(slots) : id \notin empty => found[id] # {}
  OBVIOUS
<1> HIDE DEF reusable, found, empty
<1>6. CASE /\ empty = {}
           /\ pool' = found /\ rank' = 3 /\ replan' = ClearScope(replan)
           /\ UNCHANGED <<attempt, slots>>
           /\ SaveBoundary("timeline")
  <2>1. /\ ReplanFits(replan', 3) /\ replan'.reuse = NoReuse
        /\ ~ replan'.pending /\ replan'.scope = "none"
    BY <1>1, <1>6, ClearedReplan
  <2>2. IsPoolOf(slots', pool') /\ \A id \in GroupIds(slots') : pool'[id] # {}
    BY <1>3, <1>5, <1>6
  <2>3. IsAnchored(slots') /\ IsArranged(slots')
    BY <1>1, <1>6 DEF IsAnchored
  <2>4. Whole(rank', attempt', slots', pool', path', replan', feedback')
    BY <1>1, <1>6, <2>1, <2>2, <2>3 DEF Whole
  <2>5. StateIsWhole'
    BY <2>4 DEF StateIsWhole
  <2>6. CheckpointIsWhole'
    BY <1>6, <2>1, <2>5, SavedBoundary DEF StageRank
  <2>7. QED
    BY <2>5, <2>6 DEF IInv
<1>7. CASE empty # {} /\ HandleAttemptFailure(TRUE, empty, static, found)
  BY <1>1, <1>3, <1>5, <1>7, FailureIsWhole
<1>8. QED
  BY <1>4, <1>6, <1>7

\* The path takes one trajectory of every group.
LEMMA ComposeIsWhole ==
  ASSUME IInv, Compose
  PROVE  IInv'
<1>1. /\ rank = 3 /\ IsArranged(slots) /\ IsAnchored(slots) /\ attempt \in Nat
      /\ IsPoolOf(slots, pool) /\ \A id \in GroupIds(slots) : pool[id] # {}
  BY DEF IInv, StateIsWhole, Whole, Compose
<1>2. /\ replan.scope = "none" /\ replan.reuse = NoReuse /\ ~ replan.pending
      /\ ReplanFits(replan, 4)
  BY <1>1, NoRepair DEF IInv
<1>3. /\ path' \in Selections(pool) /\ rank' = 4
      /\ UNCHANGED <<attempt, slots, pool, replan, feedback>> /\ SaveBoundary("edit")
  BY DEF Compose
<1>4. Whole(rank', attempt', slots', pool', path', replan', feedback')
  BY <1>1, <1>2, <1>3 DEF Whole
<1>5. StateIsWhole'
  BY <1>4 DEF StateIsWhole
<1>6. CheckpointIsWhole'
  BY <1>2, <1>3, <1>5, SavedBoundary DEF StageRank
<1>7. QED
  BY <1>5, <1>6 DEF IInv

\* A planning that is taken up again is as whole as its checkpoint.
LEMMA ResumeIsWhole ==
  ASSUME IInv, Resume
  PROVE  IInv'
<1>1. CheckpointIsWhole'
  BY DEF IInv, CheckpointIsWhole, Resume
<1>2. CASE checkpoint = None
  <2>1. UNCHANGED <<rank, attempt, slots, pool, path, replan, feedback>>
    BY <1>2 DEF Resume
  <2>2. QED
    BY <1>1, <2>1 DEF IInv, StateIsWhole
<1>3. CASE checkpoint # None
  <2>1. /\ rank' = StageRank(checkpoint.stage) /\ attempt' = checkpoint.attempt
        /\ slots' = SavedSlots(checkpoint) /\ pool' = SavedPool(checkpoint)
        /\ path' = checkpoint.path /\ replan' = SavedReplan(checkpoint)
        /\ feedback' = checkpoint.feedback
    BY <1>3 DEF Resume, SavedSlots, SavedPool, SavedReplan, IsPending
  <2>2. Whole(StageRank(checkpoint.stage), checkpoint.attempt, SavedSlots(checkpoint),
              SavedPool(checkpoint), checkpoint.path, SavedReplan(checkpoint),
              checkpoint.feedback)
    BY <1>3 DEF IInv, CheckpointIsWhole, IsSaved
  <2>3. QED
    BY <1>1, <2>1, <2>2 DEF IInv, StateIsWhole
<1>4. QED
  BY <1>2, <1>3

\* Every step keeps the planning and its checkpoint whole.
LEMMA StepIsWhole ==
  ASSUME IInv, [PlanningNext]_vars
  PROVE  IInv'
<1>1. CASE Arrange
  BY <1>1, ArrangeIsWhole
<1>2. CASE ArrangeFails
  BY <1>2, AbandonIsWhole DEF ArrangeFails
<1>3. CASE AnchorStory
  BY <1>3, AnchorStoryIsWhole
<1>4. CASE RepairGroups
  BY <1>4, RepairGroupsIsWhole
<1>5. CASE RepairFails
  BY <1>5, FailureIsWhole DEF RepairFails
<1>6. CASE Scout
  BY <1>6, ScoutIsWhole
<1>7. CASE Compose
  BY <1>7, ComposeIsWhole
<1>8. CASE CompilePlan
  <2>1. UNCHANGED <<rank, attempt, slots, pool, path, replan, feedback, checkpoint>>
    BY <1>8 DEF CompilePlan
  <2>2. QED
    BY <2>1 DEF IInv, StateIsWhole, CheckpointIsWhole
<1>9. CASE Interrupt
  BY <1>9, AbandonIsWhole DEF Interrupt
<1>10. CASE Resume
  BY <1>10, ResumeIsWhole
<1>11. CASE UNCHANGED vars
  <2>1. UNCHANGED <<rank, attempt, slots, pool, path, replan, feedback, checkpoint>>
    BY <1>11 DEF vars
  <2>2. QED
    BY <2>1 DEF IInv, StateIsWhole, CheckpointIsWhole
<1>12. QED
  BY <1>1, <1>2, <1>3, <1>4, <1>5, <1>6, <1>7, <1>8, <1>9, <1>10, <1>11
     DEF PlanningNext, PlannersStep

-----------------------------------------------------------------------------
(* What the planning promises. *)

\* The planning and its checkpoint are whole in every state.
LEMMA PlanningIsWhole == PlanningSpec => []IInv
<1>1. PlanningInit => IInv
  BY InitIsWhole
<1>2. IInv /\ [PlanningNext]_vars => IInv'
  BY StepIsWhole
<1>3. QED
  BY <1>1, <1>2, PTL DEF PlanningSpec

\* Once the scout is done, every planning group has trajectories, made for its
\* window, its slots and what is asked of them, whatever was repaired, reused or
\* taken up from a checkpoint before.
THEOREM TrajectoriesFitThePlan == PlanningSpec => []PoolFitsPlan
<1>1. IInv => PoolFitsPlan
  <2> SUFFICES ASSUME IInv, rank >= 3
               PROVE  /\ DOMAIN pool = GroupIds(slots)
                      /\ \A group \in slots.groups :
                           /\ pool[group.id] # {}
                           /\ \A t \in pool[group.id] :
                                /\ TrajectoryFits(group, t)
                                /\ t.made = [i \in group.members |-> slots.contents[i]]
    BY DEF PoolFitsPlan
  <2>1. /\ IsAnchored(slots) /\ IsPoolOf(slots, pool)
        /\ \A id \in GroupIds(slots) : pool[id] # {}
    BY DEF IInv, StateIsWhole, Whole
  <2>2. InOrder(slots) /\ slots.groups = PlanningGroups(slots)
    BY <2>1, ArrangedInOrder DEF IsAnchored
  <2>3. \A group \in slots.groups : group.id \in GroupIds(slots)
                                    /\ GroupWithId(slots, group.id) = group
    BY <2>2, GroupsHaveIds DEF GroupIds
  <2>4. QED
    BY <2>1, <2>3 DEF IsPoolOf
<1>2. QED
  BY <1>1, PlanningIsWhole, PTL

\* Any choice of trajectories, one for each group, plays in the order of the
\* source together with the anchors: the composer always finds a path.
THEOREM ComposerNeverFails == PlanningSpec => []EveryChoiceIsChronological
<1>1. IInv => EveryChoiceIsChronological
  <2> SUFFICES ASSUME IInv, rank >= 3, NEW choice \in Selections(pool)
               PROVE  IsChronological(Starts(slots, choice))
    BY DEF EveryChoiceIsChronological
  <2>1. IsAnchored(slots) /\ IsPoolOf(slots, pool)
    BY DEF IInv, StateIsWhole, Whole
  <2>2. QED
    BY <2>1, ChoicesPlayInOrder
<1>2. QED
  BY <1>1, PlanningIsWhole, PTL

\* A checkpoint has a repair exactly if its stage may carry one, with all that
\* the repair has to go by, a story that can be laid out and a path of its pool.
THEOREM SavedPlanningIsResumable == PlanningSpec => []CheckpointIsResumable
<1>1. IInv => CheckpointIsResumable
  <2> SUFFICES ASSUME IInv, checkpoint # None
               PROVE  CheckpointIsResumable
    BY DEF CheckpointIsResumable
  <2> DEFINE c == checkpoint
             k == StageRank(c.stage)
             r == SavedReplan(c)
  <2>1. /\ c.stage \in {"replan_pending", "arrangement", "story", "timeline", "edit"}
        /\ c.stage = "replan_pending" => c.scope # "none"
        /\ c.stage # "edit" => c.path = None
        /\ Whole(k, c.attempt, SavedSlots(c), SavedPool(c), c.path, r, c.feedback)
    BY DEF IInv, CheckpointIsWhole, IsSaved
  <2>2. /\ k = 0 <=> c.stage = "replan_pending"
        /\ k = 2 <=> c.stage = "story"
        /\ k >= 2 <=> c.stage \in {"story", "timeline", "edit"}
        /\ k = 4 <=> c.stage = "edit"
    BY <2>1 DEF StageRank
  <2>3. /\ r.scope = c.scope /\ r.local = c.local /\ r.reuse = c.reuse
        /\ r.pending = IsPending(c)
    BY DEF SavedReplan
  <2> HIDE DEF k, r
  <2>4. ReplanFits(r, k) /\ (r.reuse # NoReuse => IsReuse(r, c.feedback))
    BY <2>1 DEF Whole
  <2>5. /\ (c.scope = "candidate_local") = (c.reuse # NoReuse)
        /\ c.scope # "none" => c.stage \in {"replan_pending", "story"}
        /\ c.scope = "global" => c.stage = "replan_pending"
    BY <2>2, <2>3, <2>4 DEF ReplanFits
  <2>6. c.reuse # NoReuse =>
          /\ c.local > 0
          /\ c.feedback.failed # {}
          /\ c.feedback.failed \subseteq GroupIds(c.reuse.slots)
          /\ AnchorsAreLegal(c.reuse.slots)
    BY <2>3, <2>4 DEF IsReuse, IsAnchored
  <2>7. c.stage \in {"story", "timeline", "edit"} => AnchorsAreLegal(c.slots)
    BY <2>1, <2>2 DEF Whole, IsAnchored, SavedSlots, IsPending
  <2>8. c.path # None => \A id \in DOMAIN c.pool : c.path[id] \in c.pool[id]
    <3> SUFFICES ASSUME c.path # None
                 PROVE  \A id \in DOMAIN c.pool : c.path[id] \in c.pool[id]
      OBVIOUS
    <3>1. c.stage = "edit" /\ k = 4
      BY <2>1, <2>2
    <3>2. c.path \in Selections(SavedPool(c)) /\ SavedPool(c) = c.pool
      BY <2>1, <3>1 DEF Whole, SavedPool, IsPending
    <3>3. QED
      BY <3>2 DEF Selections
  <2>9. QED
    BY <2>1, <2>5, <2>6, <2>7, <2>8 DEF CheckpointIsResumable
<1>2. QED
  BY <1>1, PlanningIsWhole, PTL

\* A round that failed is followed by another one or by a repair.
LEMMA FailureAdvances ==
  ASSUME IInv, NEW local \in BOOLEAN, NEW failed, NEW static, NEW partial,
         HandleAttemptFailure(local, failed, static, partial), phase' = "running"
  PROVE  \/ attempt < attempt'
         \/ attempt = attempt' /\ replan.local < replan'.local
<1>1. attempt \in Nat /\ replan.local \in Nat
  BY DEF IInv, StateIsWhole, Whole, ReplanFits
<1>2. IF IsLocal(local)
      THEN /\ attempt' = attempt
           /\ replan' = [scope |-> "candidate_local", local |-> replan.local + 1,
                         reuse |-> [slots |-> slots, pool |-> partial],
                         pending |-> TRUE]
      ELSE attempt' = attempt + 1
  BY DEF HandleAttemptFailure, Abandon
<1>3. CASE IsLocal(local)
  <2>1. attempt' = attempt /\ replan'.local = replan.local + 1
    BY <1>2, <1>3
  <2>2. QED
    BY <1>1, <2>1
<1>4. CASE ~ IsLocal(local)
  BY <1>1, <1>2, <1>4
<1>5. QED
  BY <1>3, <1>4

\* Every step of a running planning begins a later round, spends a repair or
\* reaches a later agent: nothing it does can go on for ever.
THEOREM PlanningAdvances == PlanningSpec => EveryStepAdvances
<1> DEFINE Advances == \/ attempt < attempt'
                       \/ attempt = attempt' /\ replan.local < replan'.local
                       \/ attempt = attempt' /\ replan.local = replan'.local /\ rank < rank'
<1>1. ASSUME IInv, PlanningNext, phase = "running", phase' = "running"
      PROVE  Advances
  <2>1. /\ ReplanFits(replan, rank) /\ rank \in 0..4
        /\ replan.pending => rank = 0
    BY <1>1 DEF IInv, StateIsWhole, Whole, ReplanFits
  <2>2. ClearScope(replan).local = replan.local
    BY <2>1 DEF ReplanFits, ClearScope
  <2>3. CASE Arrange
    BY <2>1, <2>2, <2>3 DEF Arrange
  <2>4. CASE ArrangeFails
    BY <1>1, <2>4 DEF ArrangeFails, Abandon
  <2>5. CASE AnchorStory
    BY <2>5 DEF AnchorStory
  <2>6. CASE RepairGroups
    <3>1. /\ rank = 0 /\ rank' = 2 /\ attempt' = attempt
          /\ replan' = [replan EXCEPT !.pending = FALSE]
      BY <2>1, <2>6 DEF RepairGroups
    <3>2. replan'.local = replan.local
      BY <2>1, <3>1 DEF ReplanFits
    <3>3. QED
      BY <3>1, <3>2
  <2>7. CASE RepairFails
    BY <1>1, <2>7, FailureAdvances DEF RepairFails
  <2>8. CASE Scout
    <3>1. PICK batches, static : ScoutWith(batches, static)
      BY <2>8 DEF Scout
    <3>2. rank = 2
      BY <2>8 DEF Scout
    <3>3. \/ rank' = 3 /\ attempt' = attempt /\ replan' = ClearScope(replan)
          \/ \E failed, found : HandleAttemptFailure(TRUE, failed, static, found)
      BY <3>1 DEF ScoutWith
    <3>4. CASE rank' = 3 /\ attempt' = attempt /\ replan' = ClearScope(replan)
      BY <2>2, <3>2, <3>4
    <3>5. ASSUME NEW failed, NEW found, HandleAttemptFailure(TRUE, failed, static, found)
          PROVE  Advances
      BY <1>1, <3>5, FailureAdvances
    <3>6. QED
      BY <3>3, <3>4, <3>5
  <2>9. CASE Compose
    BY <2>9 DEF Compose
  <2>10. CASE CompilePlan
    BY <1>1, <2>10 DEF CompilePlan
  <2>11. CASE Interrupt
    BY <1>1, <2>11 DEF Interrupt, Abandon
  <2>12. CASE Resume
    BY <1>1, <2>12 DEF Resume
  <2>13. QED
    BY <1>1, <2>3, <2>4, <2>5, <2>6, <2>7, <2>8, <2>9, <2>10, <2>11, <2>12
       DEF PlanningNext, PlannersStep
<1>2. IInv /\ [PlanningNext]_vars =>
        [phase = "running" /\ phase' = "running" => Advances]_vars
  BY <1>1
<1> HIDE DEF Advances
<1>3. PlanningSpec => [][phase = "running" /\ phase' = "running" => Advances]_vars
  BY <1>2, PlanningIsWhole, PTL DEF PlanningSpec
<1>4. QED
  BY <1>3 DEF EveryStepAdvances, Advances

-----------------------------------------------------------------------------
(* Every accepted redesign can be laid out. *)

\* Whether slot i follows a slot of its group, and when it can begin at the
\* earliest, the anchors before it where they are.
Follows(p, i) == i # 1 /\ GroupOf(p, i - 1) = GroupOf(p, i)
Ready(p, i) == IF Follows(p, i) THEN EarliestEnd(p)[i - 1] ELSE SegmentStart[p.segment[i]]

\* The earliest ends are numbers, and what their definition says.
LEMMA EarliestEnds ==
  ASSUME NEW p, InOrder(p)
  PROVE  /\ EarliestEnd(p) \in [Slots -> Int]
         /\ \A i \in Slots : /\ Ready(p, i) \in Int
                             /\ i \in Anchored(p) => EarliestEnd(p)[i] = AnchorEnd(p, i)
                             /\ i \notin Anchored(p) =>
                                  EarliestEnd(p)[i] = Ready(p, i) + SlotMs[i]
<1> DEFINE E == EarliestEnd(p)
           V(i, x) == IF p.anchor[i] # None THEN AnchorEnd(p, i)
                      ELSE SlotMs[i] + (IF i # 1 /\ GroupOf(p, i - 1) = GroupOf(p, i) THEN x
                                        ELSE SegmentStart[p.segment[i]])
           D(x) == IF x[2] \in Slots THEN V(x[2], x[1]) ELSE 0
           G == [x \in Int \X Int |-> D(x)]
           N == Len(SlotMs)
           c == V(1, 0)
<1>1. N \in Int /\ 1 \in Int /\ Slots = 1..N /\ 1 \in Slots
  BY Durations
<1>2. \A i \in Slots : /\ SlotMs[i] \in Int /\ SegmentStart[p.segment[i]] \in Int
                       /\ p.anchor[i] # None => AnchorEnd(p, i) \in Int
  BY Durations, PictureTimes DEF Anchored
<1>3. ASSUME NEW i \in Slots, NEW x \in Int
      PROVE  V(i, x) \in Int
  BY <1>2
<1>4. \A x : V(1, x) = c
  OBVIOUS
<1>5. c \in Int
  BY <1>1, <1>3
<1> HIDE DEF V
<1>6. G \in [Int \X Int -> Int]
  <2>1. ASSUME NEW x \in Int \X Int
        PROVE  D(x) \in Int
    BY <1>3
  <2> HIDE DEF D
  <2>2. QED
    BY <2>1
<1>7. \A x \in Int, i \in Slots : G[<<x, i>>] = V(i, x)
  <2> SUFFICES ASSUME NEW x \in Int, NEW i \in Slots
               PROVE  G[<<x, i>>] = V(i, x)
    OBVIOUS
  <2>1. <<x, i>> \in Int \X Int
    BY Durations
  <2>2. G[<<x, i>>] = D(<<x, i>>)
    BY <2>1
  <2>3. <<x, i>>[1] = x /\ <<x, i>>[2] = i
    OBVIOUS
  <2>4. QED
    BY <2>2, <2>3
<1> HIDE DEF G, c, N
<1>8. PICK h \in [1..N -> Int] : Rises(h, 1, N, c, G)
  BY <1>1, <1>5, <1>6, UpwardRecursion
<1>9. \A i \in Slots : h[i] = V(i, h[i - 1])
  <2> SUFFICES ASSUME NEW i \in Slots
               PROVE  h[i] = V(i, h[i - 1])
    OBVIOUS
  <2>1. h[i] = IF i = 1 THEN c ELSE G[<<h[i - 1], i>>]
    BY <1>1, <1>8 DEF Rises
  <2>2. CASE i = 1
    BY <1>4, <2>1, <2>2
  <2>3. CASE i # 1
    <3>1. i - 1 \in 1..N
      BY <1>1, <2>3
    <3>2. h[i - 1] \in Int
      BY <3>1
    <3>3. QED
      BY <1>7, <2>1, <2>3, <3>2
  <2>4. QED
    BY <2>2, <2>3
<1>10. h = [i \in Slots |-> V(i, h[i - 1])]
  BY <1>1, <1>9
<1>11. \E e : e = [i \in Slots |-> V(i, e[i - 1])]
  BY <1>10
<1>12. E = [i \in Slots |-> V(i, E[i - 1])]
  <2>1. E = CHOOSE e : e = [i \in Slots |-> V(i, e[i - 1])]
    BY DEF EarliestEnd, V
  <2> HIDE DEF E
  <2>2. QED
    BY <1>11, <2>1
<1> HIDE DEF E
<1>13. \A i \in Slots : E[i] = V(i, E[i - 1])
  BY <1>12
<1>14. \A i \in 1..N : E[i] \in Int
  <2> DEFINE S == {i \in 1..N : E[i] \in Int}
  <2>1. 1 \in S
    BY <1>1, <1>4, <1>5, <1>13
  <2>2. \A i \in 1..(N - 1) : i \in S => i + 1 \in S
    <3> SUFFICES ASSUME NEW i \in 1..(N - 1), i \in S
                 PROVE  i + 1 \in S
      OBVIOUS
    <3>1. i + 1 \in 1..N /\ (i + 1) - 1 = i
      BY <1>1
    <3>2. E[i + 1] = V(i + 1, E[(i + 1) - 1])
      BY <1>1, <1>13, <3>1
    <3>3. E[i] \in Int
      OBVIOUS
    <3>4. V(i + 1, E[i]) \in Int
      BY <1>1, <1>3, <3>1, <3>3
    <3>5. E[i + 1] \in Int
      BY <3>1, <3>2, <3>4
    <3>6. QED
      BY <3>1, <3>5
  <2>3. 1 <= N
    BY <1>1
  <2> HIDE DEF S
  <2>4. 1..N \subseteq S
    BY <1>1, <2>1, <2>2, <2>3, Ascent
  <2>5. QED
    BY <2>4 DEF S
<1>15. E \in [Slots -> Int]
  <2>1. E = [i \in Slots |-> E[i]]
    BY <1>12
  <2>2. QED
    BY <1>1, <1>14, <2>1
<1>16. ASSUME NEW i \in Slots
       PROVE  /\ Ready(p, i) \in Int
              /\ i \in Anchored(p) => E[i] = AnchorEnd(p, i)
              /\ i \notin Anchored(p) => E[i] = Ready(p, i) + SlotMs[i]
  <2>1. Follows(p, i) => i - 1 \in 1..N
    BY <1>1 DEF Follows
  <2>2. Ready(p, i) \in Int
    BY <1>2, <1>14, <2>1 DEF Ready, E
  <2>3. i \in Anchored(p) <=> p.anchor[i] # None
    BY DEF Anchored
  <2>4. p.anchor[i] # None => E[i] = AnchorEnd(p, i)
    BY <1>13 DEF V
  <2>5. p.anchor[i] = None => E[i] = SlotMs[i] + Ready(p, i)
    BY <1>13 DEF V, Ready, Follows, E
  <2>6. SlotMs[i] \in Int
    BY <1>2
  <2>7. QED
    BY <2>2, <2>3, <2>4, <2>5, <2>6
<1>17. QED
  BY <1>15, <1>16 DEF E

\* No slot ends before it could begin and be shown.
LEMMA NoEarlier ==
  ASSUME NEW p, InOrder(p), KeepsAnchors(p), NEW i \in Slots
  PROVE  /\ Ready(p, i) \in Int /\ EarliestEnd(p)[i] \in Int
         /\ Ready(p, i) + SlotMs[i] <= EarliestEnd(p)[i]
         /\ i \in Anchored(p) => Ready(p, i) <= AnchorStart(p, i)
<1>1. /\ Ready(p, i) \in Int /\ EarliestEnd(p)[i] \in Int /\ SlotMs[i] \in Int
      /\ i \in Anchored(p) => EarliestEnd(p)[i] = AnchorEnd(p, i)
      /\ i \notin Anchored(p) => EarliestEnd(p)[i] = Ready(p, i) + SlotMs[i]
  BY EarliestEnds, Durations
<1>2. i \in Anchored(p) => AnchorStart(p, i) >= Ready(p, i)
  BY DEF KeepsAnchors, Ready, Follows
<1>3. i \in Anchored(p) => AnchorStart(p, i) \in Int /\ AnchorEnd(p, i) = AnchorStart(p, i) + SlotMs[i]
  BY PictureTimes
<1>4. QED
  BY <1>1, <1>2, <1>3

\* Slots begin in their segment.
LEMMA ReadyInSegment ==
  ASSUME NEW p, InOrder(p), KeepsAnchors(p), NEW j \in Slots
  PROVE  SegmentStart[p.segment[j]] <= Ready(p, j)
<1> DEFINE N == Len(SlotMs)
           S == {i \in 1..N : SegmentStart[p.segment[i]] <= Ready(p, i)}
<1>1. N \in Int /\ 1 \in Int /\ 1 <= N /\ Slots = 1..N
  BY Durations
<1>2. \A i \in 1..N : SegmentStart[p.segment[i]] \in Int /\ SlotMs[i] \in Nat
  BY <1>1, Durations, PictureTimes
<1>3. 1 \in S
  <2>1. 1 \in 1..N
    BY <1>1
  <2>2. Ready(p, 1) = SegmentStart[p.segment[1]]
    BY DEF Ready, Follows
  <2>3. QED
    BY <1>2, <2>1, <2>2
<1>4. \A i \in 1..(N - 1) : i \in S => i + 1 \in S
  <2> SUFFICES ASSUME NEW i \in 1..(N - 1), i \in S
               PROVE  i + 1 \in S
    OBVIOUS
  <2>1. i \in 1..N /\ i + 1 \in 1..N /\ (i + 1) - 1 = i /\ i <= i + 1
    BY <1>1
  <2>2. CASE Follows(p, i + 1)
    <3>1. Ready(p, i + 1) = EarliestEnd(p)[i]
      BY <2>1, <2>2 DEF Ready
    <3>2. p.segment[i] = p.segment[i + 1]
      BY <1>1, <2>1, <2>2, GroupsRise DEF Follows
    <3>3. /\ Ready(p, i) \in Int /\ EarliestEnd(p)[i] \in Int
          /\ Ready(p, i) + SlotMs[i] <= EarliestEnd(p)[i]
      BY <1>1, <2>1, NoEarlier
    <3>4. SegmentStart[p.segment[i]] <= Ready(p, i)
      OBVIOUS
    <3>5. SegmentStart[p.segment[i]] \in Int /\ SlotMs[i] \in Nat
      BY <1>2, <2>1
    <3>6. SegmentStart[p.segment[i]] <= EarliestEnd(p)[i]
      BY <3>3, <3>4, <3>5
    <3>7. QED
      BY <2>1, <3>1, <3>2, <3>6
  <2>3. CASE ~ Follows(p, i + 1)
    <3>1. Ready(p, i + 1) = SegmentStart[p.segment[i + 1]]
      BY <2>3 DEF Ready
    <3>2. QED
      BY <1>2, <2>1, <3>1
  <2>4. QED
    BY <2>2, <2>3
<1> HIDE DEF S
<1>5. 1..N \subseteq S
  BY <1>1, <1>3, <1>4, Ascent
<1>6. QED
  BY <1>1, <1>5 DEF S

\* The last slot of a group.
LastOf(p, i) == Greatest(Members(p, GroupOf(p, i)))

\* It is of the group and the last of it.
LEMMA LastOfGroup ==
  ASSUME NEW p, InOrder(p), NEW i \in Slots
  PROVE  /\ LastOf(p, i) \in Slots /\ i <= LastOf(p, i)
         /\ GroupOf(p, LastOf(p, i)) = GroupOf(p, i)
         /\ p.segment[LastOf(p, i)] = p.segment[i]
         /\ \A j \in Slots : GroupOf(p, j) = GroupOf(p, i) => j <= LastOf(p, i)
<1> DEFINE M == Members(p, GroupOf(p, i))
<1>1. M \in SUBSET Slots /\ i \in M
  BY DEF Members
<1>2. LastOf(p, i) \in M /\ \A j \in M : j <= LastOf(p, i)
  BY <1>1, GreatestSlot DEF LastOf
<1>3. /\ LastOf(p, i) \in Slots /\ GroupOf(p, LastOf(p, i)) = GroupOf(p, i)
      /\ i <= LastOf(p, i)
  BY <1>1, <1>2 DEF Members
<1>4. p.segment[LastOf(p, i)] = p.segment[i]
  BY <1>3, GroupsRise
<1>5. QED
  BY <1>2, <1>3, <1>4 DEF Members

\* A slot of a group ends no later than its last slot.
LEMMA EndsRise ==
  ASSUME NEW p, InOrder(p), KeepsAnchors(p), NEW i \in Slots
  PROVE  EarliestEnd(p)[i] <= EarliestEnd(p)[LastOf(p, i)]
<1> DEFINE l == LastOf(p, i)
           S == {j \in i..l : EarliestEnd(p)[i] <= EarliestEnd(p)[j]}
<1>1. /\ i \in Nat /\ i >= 1 /\ l \in Nat /\ i <= l /\ i..l \subseteq Slots /\ l \in Slots
      /\ GroupOf(p, l) = GroupOf(p, i)
  <2>1. l \in Slots /\ i <= l /\ GroupOf(p, l) = GroupOf(p, i)
    BY LastOfGroup
  <2> HIDE DEF l
  <2>2. QED
    BY <2>1, Durations
<1> HIDE DEF l
<1>2. \A j \in Slots : EarliestEnd(p)[j] \in Int /\ SlotMs[j] \in Nat
  BY NoEarlier, Durations
<1>3. i \in S
  BY <1>1, <1>2
<1>4. \A j \in i..(l - 1) : j \in S => j + 1 \in S
  <2> SUFFICES ASSUME NEW j \in i..(l - 1), j \in S
               PROVE  j + 1 \in S
    OBVIOUS
  <2>1. /\ j \in Slots /\ j + 1 \in Slots /\ (j + 1) - 1 = j /\ j + 1 # 1
        /\ i <= j /\ j <= l /\ i <= j + 1 /\ j + 1 <= l /\ j + 1 \in i..l
    BY <1>1
  <2>2. GroupOf(p, j) = GroupOf(p, i) /\ GroupOf(p, j + 1) = GroupOf(p, i)
    BY <1>1, <2>1, GroupsAreConvex
  <2>3. Ready(p, j + 1) = EarliestEnd(p)[j]
    BY <2>1, <2>2 DEF Ready, Follows
  <2>4. Ready(p, j + 1) + SlotMs[j + 1] <= EarliestEnd(p)[j + 1]
    BY <2>1, NoEarlier
  <2>5. EarliestEnd(p)[i] <= EarliestEnd(p)[j]
    OBVIOUS
  <2>6. /\ EarliestEnd(p)[i] \in Int /\ EarliestEnd(p)[j] \in Int
        /\ EarliestEnd(p)[j + 1] \in Int /\ SlotMs[j + 1] \in Nat
    BY <1>2, <2>1
  <2>7. EarliestEnd(p)[i] <= EarliestEnd(p)[j + 1]
    BY <2>3, <2>4, <2>5, <2>6
  <2>8. QED
    BY <2>1, <2>7
<1> HIDE DEF S
<1>5. i..l \subseteq S
  BY <1>1, <1>3, <1>4, Ascent
<1>6. l \in S
  BY <1>1, <1>5
<1>7. QED
  BY <1>6 DEF S, l

\* A slot beside a planning group of one group with it is anchored.
LEMMA NextToPlanningGroup ==
  ASSUME NEW p, InOrder(p), NEW i \in Slots \ Anchored(p)
  PROVE  LET M == PlanningGroupOf(p, i).members
         IN /\ Follows(p, Least(M)) => /\ Least(M) - 1 \in AnchorsBefore(p, i)
                                       /\ Greatest(AnchorsBefore(p, i)) = Least(M) - 1
            /\ ~ Follows(p, Least(M)) => AnchorsBefore(p, i) = {}
            /\ AnchorsAfter(p, i) # {} =>
                 /\ Greatest(M) + 1 \in Anchored(p)
                 /\ GroupOf(p, Greatest(M) + 1) = GroupOf(p, i)
                 /\ Least(AnchorsAfter(p, i)) = Greatest(M) + 1
            /\ AnchorsAfter(p, i) = {} => LastOf(p, i) = Greatest(M)
<1> DEFINE M == PlanningGroupOf(p, i).members
           f == Least(M)
           l == Greatest(M)
<1>1. /\ f \in Slots /\ l \in Slots /\ f <= i /\ i <= l /\ f <= l /\ M = f..l
      /\ Beside(p, i, f) /\ Beside(p, i, l)
  BY PlanningGroupIsRun
<1>2. M = {j \in Slots : Beside(p, i, j)}
  BY PlanningMembers
<1> HIDE DEF f, l, M
<1>3. /\ i \in Nat /\ f \in Nat /\ l \in Nat /\ f >= 1 /\ l >= 1 /\ i \in Slots
      /\ \A k \in Anchored(p) : k \in Nat /\ k \in Slots
      /\ \A k \in Slots : k \in Nat
  BY <1>1, Durations DEF Anchored
<1>4. /\ GroupOf(p, f) = GroupOf(p, i) /\ GroupOf(p, l) = GroupOf(p, i)
      /\ \A k \in Anchored(p) : k < f \/ l < k
  <2>1. GroupOf(p, f) = GroupOf(p, i) /\ GroupOf(p, l) = GroupOf(p, i)
    BY <1>1 DEF Beside
  <2>2. ASSUME NEW k \in Anchored(p)
        PROVE  k < f \/ l < k
    <3>1. ~ (f <= k /\ k <= i) /\ ~ (i <= k /\ k <= l)
      BY <1>1 DEF Beside
    <3>2. k \in Nat
      BY <1>3
    <3>3. QED
      BY <1>1, <1>3, <3>1, <3>2
  <2>3. QED
    BY <2>1, <2>2
<1>5. ASSUME NEW h \in Slots \ Anchored(p), GroupOf(p, h) = GroupOf(p, i),
             h + 1 = f \/ h = l + 1
      PROVE  FALSE
  <2>1. h \in Nat
    BY <1>3
  <2>2. ASSUME NEW k \in Anchored(p)
        PROVE  ~ (i <= k /\ k <= h) /\ ~ (h <= k /\ k <= i)
    <3>1. k \in Nat /\ k # h /\ (k < f \/ l < k)
      BY <1>3, <1>4, <1>5
    <3>2. QED
      BY <1>1, <1>3, <1>5, <2>1, <3>1
  <2>3. Beside(p, i, h)
    BY <1>5, <2>2 DEF Beside
  <2>4. h \in M
    BY <1>2, <2>3
  <2>5. QED
    BY <1>1, <1>3, <1>5, <2>1, <2>4
<1>6. ASSUME Follows(p, f)
      PROVE  f - 1 \in AnchorsBefore(p, i) /\ Greatest(AnchorsBefore(p, i)) = f - 1
  <2>1. f - 1 \in Slots /\ (f - 1) + 1 = f /\ f - 1 < i /\ f - 1 \in Nat
    <3>1. f # 1 /\ f - 1 >= 1 /\ f - 1 <= f
      BY <1>3, <1>6 DEF Follows
    <3>2. QED
      BY <1>1, <1>3, <3>1, Durations
  <2>2. GroupOf(p, f - 1) = GroupOf(p, i)
    BY <1>4, <1>6 DEF Follows
  <2>3. f - 1 \in Anchored(p)
    BY <1>5, <2>1, <2>2
  <2>4. f - 1 \in AnchorsBefore(p, i)
    BY <2>1, <2>2, <2>3 DEF AnchorsBefore
  <2>5. /\ Greatest(AnchorsBefore(p, i)) \in Anchored(p)
        /\ Greatest(AnchorsBefore(p, i)) < i
        /\ f - 1 <= Greatest(AnchorsBefore(p, i))
    BY <1>3, <2>4, NearestAnchors
  <2>6. \A a \in Anchored(p) : a < i /\ f - 1 <= a => a = f - 1
    <3> SUFFICES ASSUME NEW a \in Anchored(p), a < i, f - 1 <= a
                 PROVE  a = f - 1
      OBVIOUS
    <3>1. a \in Nat /\ (a < f \/ l < a)
      BY <1>3, <1>4
    <3>2. QED
      BY <1>1, <1>3, <3>1
  <2>7. QED
    BY <2>4, <2>5, <2>6
<1>7. ASSUME ~ Follows(p, f), NEW a \in AnchorsBefore(p, i)
      PROVE  FALSE
  <2>1. /\ a \in Anchored(p) /\ a < i /\ GroupOf(p, a) = GroupOf(p, i)
        /\ a \in Nat /\ a \in Slots /\ (a < f \/ l < a)
    BY <1>3, <1>4 DEF AnchorsBefore
  <2>2. a >= 1
    BY <2>1, Durations
  <2>3. a <= f - 1 /\ f # 1 /\ f - 1 >= 1 /\ f - 1 <= f /\ f - 1 <= i
    BY <1>1, <1>3, <2>1, <2>2
  <2>4. f - 1 \in Slots
    BY <1>1, <1>3, <2>3, Durations
  <2>5. GroupOf(p, f - 1) = GroupOf(p, a)
    BY <1>3, <2>1, <2>3, <2>4, GroupsAreConvex
  <2>6. QED
    BY <1>4, <1>7, <2>1, <2>3, <2>5 DEF Follows
<1>8. ASSUME NEW a \in Slots, GroupOf(p, a) = GroupOf(p, i), l < a
      PROVE  /\ l + 1 \in Anchored(p) /\ GroupOf(p, l + 1) = GroupOf(p, i)
             /\ l + 1 \in AnchorsAfter(p, i)
  <2>1. a \in Nat /\ l + 1 <= a /\ l + 1 >= 1 /\ i <= l + 1 /\ i < l + 1
    BY <1>1, <1>3, <1>8
  <2>2. l + 1 \in Slots
    BY <1>3, <1>8, <2>1, Durations
  <2>3. GroupOf(p, l + 1) = GroupOf(p, i)
    BY <1>3, <1>8, <2>1, <2>2, GroupsAreConvex
  <2>4. l + 1 \in Anchored(p)
    BY <1>5, <2>2, <2>3
  <2>5. QED
    BY <2>1, <2>3, <2>4 DEF AnchorsAfter
<1>9. ASSUME AnchorsAfter(p, i) # {}
      PROVE  /\ l + 1 \in Anchored(p) /\ GroupOf(p, l + 1) = GroupOf(p, i)
             /\ Least(AnchorsAfter(p, i)) = l + 1
  <2> DEFINE a == Least(AnchorsAfter(p, i))
  <2>1. /\ a \in AnchorsAfter(p, i) /\ a \in Anchored(p) /\ i < a
        /\ \A k \in AnchorsAfter(p, i) : a <= k
    BY <1>3, <1>9, NearestAnchors
  <2> HIDE DEF a
  <2>2. /\ a \in Slots /\ a \in Nat /\ GroupOf(p, a) = GroupOf(p, i) /\ l < a
    <3>1. a \in Slots /\ a \in Nat /\ GroupOf(p, a) = GroupOf(p, i) /\ (a < f \/ l < a)
      BY <1>3, <1>4, <2>1 DEF AnchorsAfter
    <3>2. QED
      BY <1>1, <1>3, <2>1, <3>1
  <2>3. /\ l + 1 \in Anchored(p) /\ GroupOf(p, l + 1) = GroupOf(p, i)
        /\ l + 1 \in AnchorsAfter(p, i)
    BY <1>8, <2>2
  <2>4. a = l + 1
    BY <1>3, <2>1, <2>2, <2>3
  <2>5. QED
    BY <2>3, <2>4 DEF a
<1>10. ASSUME AnchorsAfter(p, i) = {}
       PROVE  LastOf(p, i) = l
  <2> DEFINE m == LastOf(p, i)
  <2>1. /\ m \in Slots /\ GroupOf(p, m) = GroupOf(p, i) /\ l <= m
    BY <1>1, <1>3, <1>4, LastOfGroup
  <2> HIDE DEF m
  <2>2. ~ (l < m)
    BY <1>8, <1>10, <2>1
  <2>3. m = l
    BY <1>3, <2>1, <2>2
  <2>4. QED
    BY <2>3 DEF m
<1>11. QED
  BY <1>6, <1>7, <1>9, <1>10 DEF f, l, M

\* The slots of a planning group follow each other from the start of its window
\* to the earliest end of the last one.
LEMMA PlanningGroupEnds ==
  ASSUME NEW p, InOrder(p), NEW i \in Slots \ Anchored(p)
  PROVE  LET group == PlanningGroupOf(p, i)
             f == Least(group.members)
             l == Greatest(group.members)
         IN EarliestEnd(p)[l] = group.start + RunMs(f, l)
<1> DEFINE group == PlanningGroupOf(p, i)
           f == Least(group.members)
           l == Greatest(group.members)
           E == EarliestEnd(p)
           S == {j \in f..l : E[j] = group.start + RunMs(f, j)}
<1>1. /\ f \in Slots /\ l \in Slots /\ f <= l /\ group.members = f..l
      /\ Beside(p, i, f)
  BY PlanningGroupIsRun
<1>2. group.start \in Nat
  BY WindowTimes
<1>3. \A j \in group.members : /\ j \in Slots \ Anchored(p)
                               /\ GroupOf(p, j) = GroupOf(p, i)
  <2>1. group.members = {j \in Slots : Beside(p, i, j)}
    BY PlanningMembers
  <2>2. QED
    BY <2>1, OwnPlanningGroup DEF Beside
<1>4. Ready(p, f) = group.start
  <2>1. CASE Follows(p, f)
    <3>1. f - 1 \in AnchorsBefore(p, i) /\ Greatest(AnchorsBefore(p, i)) = f - 1
      BY <2>1, NextToPlanningGroup
    <3>2. group.start = AnchorEnd(p, f - 1)
      BY <3>1, PlanningFields
    <3>3. f - 1 \in Slots /\ f - 1 \in Anchored(p)
      BY <3>1 DEF AnchorsBefore, Anchored
    <3>4. E[f - 1] = AnchorEnd(p, f - 1)
      BY <3>3, EarliestEnds
    <3>5. QED
      BY <2>1, <3>2, <3>4 DEF Ready
  <2>2. CASE ~ Follows(p, f)
    <3>1. AnchorsBefore(p, i) = {}
      BY <2>2, NextToPlanningGroup
    <3>2. group.start = SegmentStart[p.segment[i]]
      BY <3>1, PlanningFields
    <3>3. p.segment[f] = p.segment[i]
      <4>1. f <= i
        BY PlanningGroupIsRun
      <4>2. QED
        BY <1>1, <4>1, GroupsRise DEF Beside
    <3>4. QED
      BY <2>2, <3>2, <3>3 DEF Ready
  <2>3. QED
    BY <2>1, <2>2
<1> HIDE DEF group, f, l, E
<1>5. /\ f \in Nat /\ l \in Nat /\ f >= 1
      /\ \A j \in f..l : /\ j \in Slots /\ j \notin Anchored(p) /\ j \in Nat
                         /\ OutputStart[j] \in Nat /\ OutputStart[j + 1] \in Nat
                         /\ SlotMs[j] \in Nat
                         /\ OutputStart[j + 1] = OutputStart[j] + SlotMs[j]
                         /\ E[j] = Ready(p, j) + SlotMs[j]
  <2>1. f \in Nat /\ l \in Nat /\ f >= 1
    BY <1>1, Durations
  <2>2. \A j \in f..l : j \in Slots /\ j \notin Anchored(p) /\ j \in Nat
    BY <1>1, <1>3, <2>1
  <2>3. \A j \in Slots : j \in 1..Len(SlotMs) + 1 /\ j + 1 \in 1..Len(SlotMs) + 1
    BY Durations
  <2>4. \A j \in Slots : /\ OutputStart[j] \in Nat /\ OutputStart[j + 1] \in Nat
                         /\ SlotMs[j] \in Nat
                         /\ OutputStart[j + 1] = OutputStart[j] + SlotMs[j]
    BY <2>3, OutputTimes, Durations
  <2>5. \A j \in f..l : E[j] = Ready(p, j) + SlotMs[j]
    BY <2>2, EarliestEnds DEF E
  <2>6. QED
    BY <2>1, <2>2, <2>4, <2>5
<1>6. f \in S
  <2>1. f \in f..l
    BY <1>1, <1>5
  <2>2. E[f] = group.start + SlotMs[f]
    BY <1>4, <1>5, <2>1
  <2>3. RunMs(f, f) = SlotMs[f]
    BY <1>5, <2>1 DEF RunMs
  <2>4. QED
    BY <2>1, <2>2, <2>3
<1>7. \A j \in f..(l - 1) : j \in S => j + 1 \in S
  <2> SUFFICES ASSUME NEW j \in f..(l - 1), j \in S
               PROVE  j + 1 \in S
    OBVIOUS
  <2>1. j \in f..l /\ j + 1 \in f..l /\ (j + 1) - 1 = j /\ j + 1 # 1
    BY <1>5
  <2>2. GroupOf(p, j) = GroupOf(p, j + 1)
    BY <1>1, <1>3, <2>1
  <2>3. Ready(p, j + 1) = E[j]
    BY <2>1, <2>2 DEF Ready, Follows, E
  <2>4. E[j + 1] = E[j] + SlotMs[j + 1]
    BY <1>5, <2>1, <2>3
  <2>5. E[j] = group.start + RunMs(f, j)
    OBVIOUS
  <2>6. RunMs(f, j + 1) = RunMs(f, j) + SlotMs[j + 1] /\ RunMs(f, j) \in Int
    <3>1. OutputStart[(j + 1) + 1] = OutputStart[j + 1] + SlotMs[j + 1]
      BY <1>5, <2>1
    <3>2. /\ OutputStart[j + 1] \in Nat /\ SlotMs[j + 1] \in Nat /\ OutputStart[f] \in Nat
      BY <1>1, <1>5, <2>1
    <3>3. QED
      BY <3>1, <3>2 DEF RunMs
  <2>7. SlotMs[j + 1] \in Nat
    BY <1>5, <2>1
  <2>8. E[j + 1] = group.start + RunMs(f, j + 1)
    BY <1>2, <2>4, <2>5, <2>6, <2>7
  <2>9. QED
    BY <2>1, <2>8
<1> HIDE DEF S
<1>8. f \in Int /\ l \in Int /\ f <= l
  BY <1>1, <1>5
<1>9. f..l \subseteq S
  BY <1>6, <1>7, <1>8, Ascent
<1>10. l \in S
  BY <1>8, <1>9
<1>11. QED
  BY <1>10 DEF S, group, f, l, E

\* A planning group that is a whole group has room in the segment.
LEMMA WholeGroupHasRoom ==
  ASSUME NEW p, InOrder(p), ArrangementIsLegal(p), NEW i \in Slots \ Anchored(p),
         AnchorsBefore(p, i) = {}, AnchorsAfter(p, i) = {}
  PROVE  HasRoom(PlanningGroupOf(p, i))
<1> DEFINE group == PlanningGroupOf(p, i)
           g == GroupOf(p, i)
           N == Len(SlotMs)
<1>1. group.members = Members(p, g)
  <2>1. Anchored(p) \cap Members(p, g) = {}
    <3> SUFFICES ASSUME NEW k \in Anchored(p), k \in Members(p, g)
                 PROVE  FALSE
      OBVIOUS
    <3>1. k \in Nat /\ i \in Nat /\ k # i /\ GroupOf(p, k) = GroupOf(p, i)
      BY Durations DEF Members
    <3>2. k < i => k \in AnchorsBefore(p, i)
      BY <3>1 DEF AnchorsBefore
    <3>3. k > i => k \in AnchorsAfter(p, i)
      BY <3>1 DEF AnchorsAfter
    <3>4. QED
      BY <3>1, <3>2, <3>3
  <2>2. ASSUME NEW j \in Slots
        PROVE  Beside(p, i, j) <=> GroupOf(p, j) = g
    <3>1. ASSUME GroupOf(p, j) = g, NEW k \in Anchored(p),
                 (i <= k /\ k <= j) \/ (j <= k /\ k <= i)
          PROVE  FALSE
      <4>1. k \in Slots
        BY DEF Anchored
      <4>2. GroupOf(p, k) = g
        BY <3>1, <4>1, GroupsAreConvex
      <4>3. QED
        BY <2>1, <4>1, <4>2 DEF Members
    <3>2. QED
      BY <3>1 DEF Beside
  <2>3. QED
    BY <2>2, PlanningMembers DEF Members
<1>2. group.start = SegmentStart[p.segment[i]] /\ group.end = SegmentEnd(p.segment[i])
  BY PlanningFields
<1>3. g \in GroupNumbers(p)
  <2>1. N \in Nat /\ N \in Slots /\ i \in Nat /\ i <= N
    BY Durations
  <2>2. GroupOf(p, i) <= GroupOf(p, N) /\ GroupOf(p, i) \in Nat /\ GroupOf(p, N) \in Nat
    BY <2>1, GroupsRise, GroupIsNumber
  <2>3. GroupOf(p, i) # 0
    <3>1. p.segment[i] \in Used(p, i)
      <4>1. i \in 1..i
        BY Durations
      <4>2. QED
        BY <4>1 DEF Used
    <3>2. QED
      BY <3>1, GroupIsNumber, FS_EmptySet
  <2>4. QED
    BY <2>2, <2>3 DEF GroupNumbers
<1>4. GroupMs(p, g) <= SegmentMs[SegmentOf(p, g)]
  BY <1>3 DEF ArrangementIsLegal
<1>5. SegmentOf(p, g) = p.segment[i]
  <2>1. Members(p, g) \in SUBSET Slots /\ i \in Members(p, g)
    BY DEF Members
  <2>2. /\ Least(Members(p, g)) \in Slots /\ GroupOf(p, Least(Members(p, g))) = g
        /\ Least(Members(p, g)) <= i
    BY <2>1, LeastSlot DEF Members
  <2>3. QED
    BY <2>2, GroupsRise DEF SegmentOf
<1>6. group.end - group.start = SegmentMs[p.segment[i]]
  <2>1. p.segment[i] \in Segments
    BY SegmentNumbers
  <2>2. /\ SegmentStart[p.segment[i] + 1] = SegmentStart[p.segment[i]] + SegmentMs[p.segment[i]]
        /\ SegmentStart[p.segment[i]] \in Nat /\ SegmentMs[p.segment[i]] \in Nat
    BY <2>1, SegmentTimes, Durations, PictureTimes
  <2>3. QED
    BY <1>2, <2>2 DEF SegmentEnd
<1>7. GroupMs(p, g) = RunMs(Least(group.members), Greatest(group.members))
  BY <1>1 DEF GroupMs
<1>8. QED
  BY <1>4, <1>5, <1>6, <1>7 DEF HasRoom

\* Every planning group of a plan that keeps its anchors has room.
LEMMA PlanningGroupsHaveRoom ==
  ASSUME NEW p, InOrder(p), ArrangementIsLegal(p), KeepsAnchors(p),
         NEW i \in Slots \ Anchored(p)
  PROVE  HasRoom(PlanningGroupOf(p, i))
<1> DEFINE group == PlanningGroupOf(p, i)
           f == Least(group.members)
           l == Greatest(group.members)
<1>1. /\ EarliestEnd(p)[l] = group.start + RunMs(f, l)
      /\ group.start \in Nat /\ group.end \in Nat
  BY PlanningGroupEnds, WindowTimes
<1>2. l \in Slots /\ f \in Slots /\ Beside(p, i, l)
  BY PlanningGroupIsRun
<1>3. RunMs(f, l) \in Int
  <2>1. f \in 1..Len(SlotMs) + 1 /\ l + 1 \in 1..Len(SlotMs) + 1
    <3> HIDE DEF f, l
    <3>1. QED
      BY <1>2, Durations
  <2>2. OutputStart[f] \in Nat /\ OutputStart[l + 1] \in Nat
    BY <2>1, OutputTimes
  <2>3. QED
    BY <2>2 DEF RunMs
<1>4. AnchorsAfter(p, i) # {} => EarliestEnd(p)[l] <= group.end
  <2> SUFFICES ASSUME AnchorsAfter(p, i) # {}
               PROVE  EarliestEnd(p)[l] <= group.end
    OBVIOUS
  <2>1. /\ l + 1 \in Anchored(p) /\ GroupOf(p, l + 1) = GroupOf(p, i)
        /\ Least(AnchorsAfter(p, i)) = l + 1
    BY NextToPlanningGroup
  <2>2. group.end = AnchorStart(p, l + 1)
    BY <2>1, PlanningFields
  <2> HIDE DEF group, f, l
  <2>3. l + 1 \in Slots /\ (l + 1) - 1 = l /\ l + 1 # 1
    BY <1>2, <2>1, Durations DEF Anchored
  <2>4. Ready(p, l + 1) = EarliestEnd(p)[l]
    BY <1>2, <2>1, <2>3 DEF Ready, Follows, Beside
  <2>5. Ready(p, l + 1) <= AnchorStart(p, l + 1)
    BY <2>1, <2>3, NoEarlier
  <2>6. QED
    BY <2>2, <2>4, <2>5
<1>5. AnchorsAfter(p, i) = {} /\ AnchorsBefore(p, i) # {} => EarliestEnd(p)[l] <= group.end
  <2> SUFFICES ASSUME AnchorsAfter(p, i) = {}, NEW a \in AnchorsBefore(p, i)
               PROVE  EarliestEnd(p)[l] <= group.end
    OBVIOUS
  <2>1. LastOf(p, i) = l
    BY NextToPlanningGroup
  <2>2. a \in Anchored(p) /\ a \in Slots /\ GroupOf(p, a) = GroupOf(p, i) /\ a < i
    BY DEF AnchorsBefore, Anchored
  <2>3. a <= i
    <3>1. a \in Nat /\ i \in Nat
      BY <2>2, Durations
    <3>2. QED
      BY <2>2, <3>1
  <2>4. p.segment[a] = p.segment[i]
    BY <2>2, <2>3, GroupsRise
  <2>5. EarliestEnd(p)[Greatest(Members(p, GroupOf(p, a)))] <= SegmentEnd(p.segment[a])
    BY <2>2 DEF KeepsAnchors
  <2>6. group.end = SegmentEnd(p.segment[i])
    BY PlanningFields
  <2> HIDE DEF group, f, l
  <2>7. QED
    BY <2>1, <2>2, <2>4, <2>5, <2>6 DEF LastOf
<1>6. AnchorsAfter(p, i) # {} \/ AnchorsBefore(p, i) # {} => HasRoom(group)
  <2> SUFFICES ASSUME EarliestEnd(p)[l] <= group.end
               PROVE  HasRoom(group)
    BY <1>4, <1>5
  <2>1. RunMs(f, l) <= group.end - group.start
    <3> HIDE DEF group, f, l
    <3>1. QED
      BY <1>1, <1>3
  <2>2. QED
    BY <2>1 DEF HasRoom
<1>7. QED
  BY <1>6, WholeGroupHasRoom

\* The pictures of the anchors stay in their segment.
LEMMA PicturesInSegment ==
  ASSUME NEW p, InOrder(p), KeepsAnchors(p), NEW i \in Anchored(p)
  PROVE  /\ SegmentStart[p.segment[i]] <= AnchorStart(p, i)
         /\ AnchorEnd(p, i) <= SegmentEnd(p.segment[i])
<1>1. i \in Slots
  BY DEF Anchored
<1>2. /\ SegmentStart[p.segment[i]] <= Ready(p, i) /\ Ready(p, i) <= AnchorStart(p, i)
      /\ Ready(p, i) \in Int
  BY <1>1, ReadyInSegment, NoEarlier
<1>3. /\ EarliestEnd(p)[i] = AnchorEnd(p, i)
      /\ EarliestEnd(p)[i] <= EarliestEnd(p)[LastOf(p, i)]
  BY <1>1, EarliestEnds, EndsRise
<1>4. EarliestEnd(p)[LastOf(p, i)] <= SegmentEnd(p.segment[i])
  BY DEF KeepsAnchors, LastOf
<1>5. /\ SegmentStart[p.segment[i]] \in Nat /\ SegmentEnd(p.segment[i]) \in Nat
      /\ AnchorStart(p, i) \in Nat /\ AnchorEnd(p, i) \in Nat
  BY <1>1, PictureTimes
<1>6. EarliestEnd(p)[LastOf(p, i)] \in Int
  BY <1>1, LastOfGroup, NoEarlier
<1>7. SegmentStart[p.segment[i]] <= AnchorStart(p, i)
  BY <1>2, <1>5
<1>8. AnchorEnd(p, i) <= SegmentEnd(p.segment[i])
  BY <1>3, <1>4, <1>5, <1>6
<1>9. QED
  BY <1>7, <1>8

\* The story editor accepts what the arrangement agent accepted.
LEMMA RedesignsCanBeLaidOut ==
  ASSUME NEW p, IsAnchored(p), NEW window, NEW unavailable,
         NEW q \in Redesigns(p, window, unavailable)
  PROVE  AnchorsAreLegal(LaidOut(q))
<1>1. IsArranged(p) /\ AnchorsAreLegal(p)
  BY DEF IsAnchored
<1>2. IsArranged(q) /\ KeepsAnchors(q) /\ q.anchor = p.anchor
  BY <1>1, RedesignsAreArranged
<1>3. InOrder(q) /\ ArrangementIsLegal(q) /\ q \in Plans
  BY <1>2, ArrangedInOrder DEF IsArranged
<1> DEFINE L == LaidOut(q)
<1>4. L.segment = q.segment /\ L.anchor = p.anchor /\ L.groups = PlanningGroups(q)
  <2>1. L = [segment |-> q.segment, contents |-> q.contents, anchor |-> q.anchor,
             groups |-> PlanningGroups(q)]
    BY <1>3, PlanFields DEF LaidOut
  <2>2. QED
    BY <1>2, <2>1
<1> HIDE DEF L
<1>5. /\ Anchored(L) = Anchored(p) /\ Anchored(L) = Anchored(q)
      /\ \A i : AnchorStart(L, i) = AnchorStart(p, i) /\ AnchorEnd(L, i) = AnchorEnd(p, i)
      /\ \A i : AnchorStart(L, i) = AnchorStart(q, i) /\ AnchorEnd(L, i) = AnchorEnd(q, i)
  BY <1>2, <1>4 DEF Anchored, AnchorStart, AnchorEnd
<1>6. /\ Cardinality(Anchored(L)) <= MaxAnchors
      /\ \A i \in Anchored(L) :
           /\ OutputStart[i] + PassageMs[L.anchor[i]] <= OutputStart[Len(SlotMs) + 1]
           /\ \A j \in Anchored(L) : j < i =>
                /\ L.anchor[j] # L.anchor[i]
                /\ OutputStart[j] + PassageMs[L.anchor[j]] <= OutputStart[i]
                /\ AnchorEnd(L, j) <= AnchorStart(L, i)
  BY <1>1, <1>4, <1>5 DEF AnchorsAreLegal
<1>7. \A i \in Anchored(L) :
        /\ SegmentStart[L.segment[i]] <= AnchorStart(L, i)
        /\ AnchorEnd(L, i) <= SegmentEnd(L.segment[i])
  BY <1>2, <1>3, <1>4, <1>5, PicturesInSegment
<1>8. \A i \in Anchored(L) : \A j \in AnchorsBefore(L, i) : AnchorEnd(L, j) <= AnchorStart(L, i)
  BY <1>6 DEF AnchorsBefore
<1>9. \A group \in L.groups : HasRoom(group)
  BY <1>2, <1>3, <1>4, PlanningGroupsHaveRoom DEF PlanningGroups
<1>10. LayoutIsLegal(L)
  BY <1>7, <1>8, <1>9 DEF LayoutIsLegal
<1>11. AnchorsAreLegal(L)
  BY <1>6, <1>10 DEF AnchorsAreLegal
<1>12. QED
  BY <1>11 DEF L

\* The story editor can lay out every redesign that the validation of the
\* arrangement accepts: a repair that was answered is never lost.
THEOREM RepairsAreAccepted == PlanningSpec => []StoryAcceptsEveryRepair
<1>1. IInv => StoryAcceptsEveryRepair
  <2> SUFFICES ASSUME IInv, replan.pending,
                      NEW q \in Redesigns(slots, Window, feedback.unavailable)
               PROVE  AnchorsAreLegal(LaidOut(q))
    BY DEF StoryAcceptsEveryRepair
  <2>1. replan.reuse # NoReuse /\ slots = replan.reuse.slots
    BY DEF IInv, StateIsWhole, Whole, ReplanFits
  <2>2. IsAnchored(slots)
    BY <2>1 DEF IInv, StateIsWhole, Whole, IsReuse
  <2>3. QED
    BY <2>2, RedesignsCanBeLaidOut
<1>2. QED
  BY <1>1, PlanningIsWhole, PTL

-----------------------------------------------------------------------------
(* The windows of a repair. *)

\* The least of some natural numbers.
LEMMA LeastNumber ==
  ASSUME NEW T \in SUBSET Nat, T # {}
  PROVE  Least(T) \in T /\ \A y \in T : Least(T) <= y
<1>1. \E x \in T : \A y \in T : x <= y
  BY NatMin
<1>2. QED
  BY <1>1 DEF Least

\* The greatest of some numbers of an interval.
LEMMA GreatestNumber ==
  ASSUME NEW m \in Int, NEW n \in Int, NEW T \in SUBSET (m..n), T # {}
  PROVE  Greatest(T) \in T /\ \A y \in T : y <= Greatest(T)
<1> DEFINE U == {n - x : x \in T}
<1>1. U \in SUBSET Nat /\ U # {}
  OBVIOUS
<1>2. PICK u \in U : \A v \in U : u <= v
  BY <1>1, NatMin
<1>3. PICK x \in T : u = n - x
  BY <1>2
<1>4. \A y \in T : y <= x
  <2>1. ASSUME NEW y \in T PROVE y <= x
    <3>1. n - y \in U
      OBVIOUS
    <3>2. n - x <= n - y /\ x \in Int /\ y \in Int
      BY <1>2, <1>3, <3>1
    <3>3. QED
      BY <3>2
  <2>2. QED
    BY <2>1
<1>5. \E z \in T : \A y \in T : y <= z
  BY <1>4
<1>6. QED
  BY <1>5 DEF Greatest

\* Every member of a set of numbers is in one of its maximal runs.
LEMMA RunExists ==
  ASSUME NEW n \in Nat, NEW W \in SUBSET (1..n), NEW g \in W
  PROVE  \E w \in WindowsOf(W) : g \in w[1]..w[2]
<1>1. g \in Nat /\ g >= 1 /\ g <= n
  OBVIOUS
<1> DEFINE A == {a \in 1..g : a..g \subseteq W}
           B == {b \in g..n : g..b \subseteq W}
<1>2. g..g \subseteq W
  BY <1>1
<1>3. A \in SUBSET Nat /\ A # {} /\ B \in SUBSET (g..n) /\ B # {}
  BY <1>1, <1>2
<1> DEFINE l == Least(A)
           r == Greatest(B)
<1> HIDE DEF A, B
<1>4. l \in A /\ \A a \in A : l <= a
  BY <1>3, LeastNumber
<1>5. r \in B /\ \A b \in B : b <= r
  <2>1. g \in Int /\ n \in Int
    BY <1>1
  <2>2. QED
    BY <1>3, <2>1, GreatestNumber
<1> HIDE DEF l, r
<1> USE DEF A, B
<1>6. /\ l \in Nat /\ r \in Nat /\ l >= 1 /\ l <= g /\ g <= r /\ r <= n
      /\ l..g \subseteq W /\ g..r \subseteq W
  BY <1>1, <1>4, <1>5
<1>7. l..r \subseteq W /\ l \in W /\ r \in W
  <2>1. \A k \in l..r : k \in l..g \/ k \in g..r
    BY <1>1, <1>6
  <2>2. l \in l..r /\ r \in l..r
    BY <1>1, <1>6
  <2>3. QED
    BY <1>6, <2>1, <2>2
<1>8. l - 1 \notin W
  <2> SUFFICES ASSUME l - 1 \in W PROVE FALSE
    OBVIOUS
  <2>1. l - 1 \in 1..g
    BY <1>1, <1>6
  <2>2. \A k \in (l - 1)..g : k = l - 1 \/ k \in l..g
    BY <1>1, <1>6
  <2>3. l - 1 \in A
    BY <1>6, <2>1, <2>2
  <2>4. l <= l - 1
    BY <1>4, <2>3
  <2>5. QED
    BY <1>6, <2>4
<1>9. r + 1 \notin W
  <2> SUFFICES ASSUME r + 1 \in W PROVE FALSE
    OBVIOUS
  <2>1. r + 1 \in g..n
    BY <1>1, <1>6
  <2>2. \A k \in g..(r + 1) : k = r + 1 \/ k \in g..r
    BY <1>1, <1>6
  <2>3. r + 1 \in B
    BY <1>6, <2>1, <2>2
  <2>4. r + 1 <= r
    BY <1>5, <2>3
  <2>5. QED
    BY <1>6, <2>4
<1>10. <<l, r>> \in WindowsOf(W)
  BY <1>6, <1>7, <1>8, <1>9 DEF WindowsOf
<1>11. g \in l..r
  BY <1>1, <1>6
<1>12. QED
  BY <1>10, <1>11

\* What a maximal run is.
LEMMA RunFields ==
  ASSUME NEW n \in Nat, NEW W \in SUBSET (1..n), NEW w \in WindowsOf(W)
  PROVE  /\ w = <<w[1], w[2]>> /\ w[1] \in 1..n /\ w[2] \in 1..n /\ w[1] <= w[2]
         /\ w[1]..w[2] \subseteq W /\ w[1] - 1 \notin W /\ w[2] + 1 \notin W
<1>1. /\ w \in W \X W /\ w[1] <= w[2] /\ w[1]..w[2] \subseteq W
      /\ w[1] - 1 \notin W /\ w[2] + 1 \notin W
  BY DEF WindowsOf
<1>2. w = <<w[1], w[2]>> /\ w[1] \in W /\ w[2] \in W
  BY <1>1
<1>3. QED
  BY <1>1, <1>2

\* Maximal runs that meet are one.
LEMMA RunsAreApart ==
  ASSUME NEW n \in Nat, NEW W \in SUBSET (1..n), NEW v \in WindowsOf(W), NEW w \in WindowsOf(W),
         NEW g, g \in v[1]..v[2], g \in w[1]..w[2]
  PROVE  v = w
<1>1. /\ v = <<v[1], v[2]>> /\ v[1] \in Int /\ v[2] \in Int
      /\ v[1]..v[2] \subseteq W /\ v[1] - 1 \notin W /\ v[2] + 1 \notin W
  BY RunFields
<1>2. /\ w = <<w[1], w[2]>> /\ w[1] \in Int /\ w[2] \in Int
      /\ w[1]..w[2] \subseteq W /\ w[1] - 1 \notin W /\ w[2] + 1 \notin W
  BY RunFields
<1>3. ~ (v[1] < w[1]) /\ ~ (v[2] > w[2])
  <2>1. w[1] - 1 \notin v[1]..v[2] /\ w[2] + 1 \notin v[1]..v[2]
    BY <1>1, <1>2
  <2>2. QED
    BY <1>1, <1>2, <2>1
<1>4. ~ (w[1] < v[1]) /\ ~ (w[2] > v[2])
  <2>1. v[1] - 1 \notin w[1]..w[2] /\ v[2] + 1 \notin w[1]..w[2]
    BY <1>1, <1>2
  <2>2. QED
    BY <1>1, <1>2, <2>1
<1>5. v[1] = w[1] /\ v[2] = w[2]
  BY <1>1, <1>2, <1>3, <1>4
<1>6. QED
  BY <1>1, <1>2, <1>5

\* The maximal run of W with g in it.
RunOf(W, g) == CHOOSE w \in WindowsOf(W) : g \in w[1]..w[2]

\* Neighbours in W are in one run; a run begins after one and ends before one
\* that is not in W.
LEMMA RunOfNumber ==
  ASSUME NEW n \in Nat, NEW W \in SUBSET (1..n), NEW g \in W
  PROVE  /\ RunOf(W, g) \in WindowsOf(W)
         /\ g \in RunOf(W, g)[1]..RunOf(W, g)[2]
         /\ g - 1 \in W => /\ RunOf(W, g - 1) = RunOf(W, g)
                           /\ g - 1 \in RunOf(W, g)[1]..RunOf(W, g)[2]
         /\ g - 1 \notin W => RunOf(W, g)[1] = g
         /\ g + 1 \notin W => RunOf(W, g)[2] = g
<1>1. \A h \in W : RunOf(W, h) \in WindowsOf(W) /\ h \in RunOf(W, h)[1]..RunOf(W, h)[2]
  <2>1. ASSUME NEW h \in W
        PROVE  RunOf(W, h) \in WindowsOf(W) /\ h \in RunOf(W, h)[1]..RunOf(W, h)[2]
    <3>1. \E w \in WindowsOf(W) : h \in w[1]..w[2]
      BY RunExists
    <3>2. QED
      BY <3>1 DEF RunOf
  <2>2. QED
    BY <2>1
<1> DEFINE w == RunOf(W, g)
<1>2. /\ w \in WindowsOf(W) /\ g \in w[1]..w[2]
  BY <1>1
<1> HIDE DEF w
<1>3. /\ w[1] \in Int /\ w[2] \in Int /\ w[1]..w[2] \subseteq W
      /\ w[1] - 1 \notin W /\ w[2] + 1 \notin W
  BY <1>2, RunFields
<1>4. g \in Int /\ w[1] <= g /\ g <= w[2]
  BY <1>2, <1>3
<1>5. g - 1 \notin W => w[1] = g
  <2>1. w[1] # g => g - 1 \in w[1]..w[2]
    BY <1>3, <1>4
  <2>2. QED
    BY <1>3, <2>1
<1>6. g + 1 \notin W => w[2] = g
  <2>1. w[2] # g => g + 1 \in w[1]..w[2]
    BY <1>3, <1>4
  <2>2. QED
    BY <1>3, <2>1
<1>7. g - 1 \in W => g - 1 \in w[1]..w[2] /\ RunOf(W, g - 1) = w
  <2> SUFFICES ASSUME g - 1 \in W
               PROVE  g - 1 \in w[1]..w[2] /\ RunOf(W, g - 1) = w
    OBVIOUS
  <2>1. w[1] # g
    BY <1>3
  <2>2. g - 1 \in w[1]..w[2]
    BY <1>3, <1>4, <2>1
  <2>3. RunOf(W, g - 1) \in WindowsOf(W)
        /\ g - 1 \in RunOf(W, g - 1)[1]..RunOf(W, g - 1)[2]
    BY <1>1
  <2>4. QED
    BY <1>2, <2>2, <2>3, RunsAreApart
<1>8. QED
  BY <1>2, <1>5, <1>6, <1>7 DEF w

-----------------------------------------------------------------------------
(* The groups of an arrangement, one after the other. *)

\* The first and the last slot of group g.
FirstSlot(p, g) == Least(Members(p, g))
LastSlot(p, g) == Greatest(Members(p, g))

\* The first slot is of group 1, and each slot is of the group of the slot before
\* it or of the next group.
LEMMA GroupsCount ==
  ASSUME NEW p, InOrder(p)
  PROVE  /\ 1 \in Slots /\ GroupOf(p, 1) = 1
         /\ \A i \in Slots : i + 1 \in Slots =>
              GroupOf(p, i + 1) = GroupOf(p, i) \/ GroupOf(p, i + 1) = GroupOf(p, i) + 1
<1>1. 1 \in Slots /\ Slots = 1..Len(SlotMs) /\ Len(SlotMs) \in Nat
  BY Durations
<1>2. GroupOf(p, 1) = 1
  <2>1. Used(p, 1) = {p.segment[1]}
    <3>1. 1..1 = {1}
      OBVIOUS
    <3>2. QED
      BY <3>1 DEF Used
  <2>2. Cardinality(Used(p, 1)) = 1
    BY <2>1, FS_Singleton
  <2>3. QED
    BY <1>1, <2>2, GroupIsNumber
<1>3. ASSUME NEW i \in Slots, i + 1 \in Slots
      PROVE  GroupOf(p, i + 1) = GroupOf(p, i) \/ GroupOf(p, i + 1) = GroupOf(p, i) + 1
  <2>1. Used(p, i + 1) = Used(p, i) \cup {p.segment[i + 1]}
    <3>1. 1..(i + 1) = 1..i \cup {i + 1}
      BY <1>1
    <3>2. QED
      BY <3>1 DEF Used
  <2>2. IsFiniteSet(Used(p, i))
    BY GroupIsNumber
  <2>3. Cardinality(Used(p, i + 1)) = Cardinality(Used(p, i))
          \/ Cardinality(Used(p, i + 1)) = Cardinality(Used(p, i)) + 1
    BY <2>1, <2>2, FS_AddElement
  <2>4. QED
    BY <1>3, <2>3, GroupIsNumber
<1>4. QED
  BY <1>1, <1>2, <1>3

\* How many groups there are, and which have slots.
LEMMA GroupsAreUsed ==
  ASSUME NEW p, InOrder(p)
  PROVE  /\ GroupOf(p, Len(SlotMs)) \in Nat
         /\ \A i \in Slots : GroupOf(p, i) \in GroupNumbers(p)
         /\ \A g \in GroupNumbers(p) : Members(p, g) # {} /\ Members(p, g) \subseteq Slots
<1> DEFINE N == Len(SlotMs)
           C(i) == GroupOf(p, i)
<1>1. N \in Nat /\ N >= 1 /\ Slots = 1..N /\ N \in Slots /\ 1 \in Slots
  BY Durations
<1>2. \A i \in Slots : C(i) \in Nat
  BY GroupIsNumber
<1>3. \A i \in Slots : 1 <= C(i) /\ C(i) <= C(N)
  <2>1. ASSUME NEW i \in Slots PROVE 1 <= C(i) /\ C(i) <= C(N)
    <3>1. 1 <= i /\ i <= N
      BY <1>1
    <3>2. C(1) <= C(i) /\ C(i) <= C(N)
      BY <1>1, <3>1, GroupsRise
    <3>3. QED
      BY <3>2, GroupsCount
  <2>2. QED
    BY <2>1
<1>4. \A i \in Slots : i + 1 \in Slots => C(i + 1) = C(i) \/ C(i + 1) = C(i) + 1
  BY GroupsCount
<1>5. C(1) = 1
  BY GroupsCount
<1> HIDE DEF C, N
<1> DEFINE S == {i \in Slots : \A g \in 1..C(i) : \E j \in Slots : C(j) = g}
<1>6. 1..N \subseteq S
  <2>1. 1 \in S
    BY <1>1, <1>5
  <2>2. ASSUME NEW i \in 1..(N - 1), i \in S PROVE i + 1 \in S
    <3>1. i \in Slots /\ i + 1 \in Slots
      BY <1>1
    <3>2. ASSUME NEW g \in 1..C(i + 1) PROVE \E j \in Slots : C(j) = g
      <4>1. g \in 1..C(i) \/ g = C(i + 1)
        BY <1>2, <1>4, <3>1
      <4>2. QED
        BY <2>2, <3>1, <4>1
    <3>3. QED
      BY <3>1, <3>2
  <2> HIDE DEF S
  <2>3. 1 \in Int /\ N \in Int
    BY <1>1
  <2>4. QED
    BY <2>1, <2>2, <2>3, Ascent
<1>7. \A g \in 1..C(N) : \E j \in Slots : C(j) = g
  BY <1>1, <1>6
<1>8. C(N) \in Nat /\ \A i \in Slots : C(i) \in 1..C(N)
  BY <1>1, <1>2, <1>3
<1>9. QED
  BY <1>7, <1>8 DEF C, N, GroupNumbers, Members

\* The slots of a group follow each other, and the groups do.
LEMMA GroupIsRun ==
  ASSUME NEW p, InOrder(p), NEW g \in GroupNumbers(p)
  PROVE  /\ g \in Nat /\ g >= 1
         /\ FirstSlot(p, g) \in Slots /\ LastSlot(p, g) \in Slots
         /\ GroupOf(p, FirstSlot(p, g)) = g /\ GroupOf(p, LastSlot(p, g)) = g
         /\ \A i \in Slots : GroupOf(p, i) = g <=> FirstSlot(p, g) <= i /\ i <= LastSlot(p, g)
         /\ SegmentOf(p, g) \in Segments
         /\ \A i \in Slots : GroupOf(p, i) = g => p.segment[i] = SegmentOf(p, g)
<1> DEFINE M == Members(p, g)
           f == FirstSlot(p, g)
           l == LastSlot(p, g)
<1>1. g \in Nat /\ g >= 1 /\ M # {} /\ M \subseteq Slots /\ M = {i \in Slots : GroupOf(p, i) = g}
  BY GroupsAreUsed DEF GroupNumbers, Members
<1>2. f \in M /\ \A i \in M : f <= i
  BY <1>1, LeastSlot DEF FirstSlot
<1>3. l \in M /\ \A i \in M : i <= l
  BY <1>1, GreatestSlot DEF LastSlot
<1>4. SegmentOf(p, g) = p.segment[f]
  BY DEF SegmentOf, FirstSlot
<1> HIDE DEF M, f, l
<1>5. f \in Slots /\ l \in Slots /\ GroupOf(p, f) = g /\ GroupOf(p, l) = g
  BY <1>1, <1>2, <1>3
<1>6. ASSUME NEW i \in Slots, f <= i, i <= l PROVE GroupOf(p, i) = g
  BY <1>5, <1>6, GroupsAreConvex
<1>7. ASSUME NEW i \in Slots, GroupOf(p, i) = g PROVE f <= i /\ i <= l
  BY <1>1, <1>2, <1>3, <1>7
<1>8. ASSUME NEW i \in Slots, GroupOf(p, i) = g PROVE p.segment[i] = p.segment[f]
  BY <1>5, <1>7, <1>8, GroupsRise
<1>9. p.segment[f] \in Segments
  BY <1>5, SegmentNumbers
<1>10. QED
  BY <1>1, <1>4, <1>5, <1>6, <1>7, <1>8, <1>9 DEF f, l

\* Group 1 begins with slot 1, every other group after the one before, in a later
\* segment.
LEMMA GroupFollows ==
  ASSUME NEW p, InOrder(p), NEW g \in GroupNumbers(p)
  PROVE  /\ g = 1 => FirstSlot(p, g) = 1
         /\ g # 1 => /\ g - 1 \in GroupNumbers(p)
                     /\ FirstSlot(p, g) - 1 \in Slots
                     /\ GroupOf(p, FirstSlot(p, g) - 1) = g - 1
                     /\ LastSlot(p, g - 1) = FirstSlot(p, g) - 1
                     /\ SegmentOf(p, g - 1) < SegmentOf(p, g)
<1> DEFINE f == FirstSlot(p, g)
<1>1. /\ f \in Slots /\ GroupOf(p, f) = g /\ g \in Nat /\ g >= 1
      /\ \A i \in Slots : GroupOf(p, i) = g => f <= i
      /\ \A i \in Slots : GroupOf(p, i) = g => p.segment[i] = SegmentOf(p, g)
  BY GroupIsRun
<1>2. f \in Nat /\ f >= 1 /\ (f # 1 => f - 1 \in Slots) /\ (f - 1) + 1 = f
  BY <1>1, Durations
<1>3. \A i \in Slots : GroupOf(p, i) \in Nat /\ GroupOf(p, i) >= 1 /\ GroupOf(p, i) \in GroupNumbers(p)
  BY GroupsAreUsed DEF GroupNumbers
<1>4. g # 1 => f # 1
  BY <1>1, GroupsCount
<1>5. ASSUME f # 1 PROVE g # 1 /\ f - 1 \in Slots /\ GroupOf(p, f - 1) = g - 1
  <2>1. f - 1 \in Slots
    BY <1>2, <1>5
  <2>2. GroupOf(p, f) = GroupOf(p, f - 1) \/ GroupOf(p, f) = GroupOf(p, f - 1) + 1
    BY <1>1, <1>2, <2>1, GroupsCount
  <2>3. GroupOf(p, f - 1) # g
    BY <1>1, <1>2, <2>1
  <2>4. QED
    BY <1>1, <1>3, <2>1, <2>2, <2>3
<1>6. ASSUME g # 1
      PROVE  /\ g - 1 \in GroupNumbers(p) /\ LastSlot(p, g - 1) = f - 1
             /\ SegmentOf(p, g - 1) < SegmentOf(p, g)
  <2>1. f - 1 \in Slots /\ GroupOf(p, f - 1) = g - 1
    BY <1>4, <1>5, <1>6
  <2>2. g - 1 \in GroupNumbers(p)
    BY <1>3, <2>1
  <2> DEFINE l == LastSlot(p, g - 1)
  <2>3. /\ l \in Slots /\ GroupOf(p, l) = g - 1 /\ f - 1 <= l
        /\ p.segment[f - 1] = SegmentOf(p, g - 1)
    BY <2>1, <2>2, GroupIsRun
  <2> HIDE DEF l, f
  <2>4. l \in Nat /\ (l >= f => GroupOf(p, f) <= GroupOf(p, l))
    BY <1>1, <2>3, GroupsRise, Durations
  <2>5. l = f - 1
    BY <1>1, <1>2, <2>3, <2>4
  <2>6. f - 1 <= f /\ GroupOf(p, f - 1) # GroupOf(p, f)
    BY <1>1, <1>2, <2>1
  <2>7. p.segment[f - 1] <= p.segment[f] /\ p.segment[f - 1] # p.segment[f]
    BY <1>1, <2>1, <2>6, GroupsRise, SegmentsRise
  <2>8. p.segment[f - 1] \in Nat /\ p.segment[f] \in Nat /\ p.segment[f] = SegmentOf(p, g)
    BY <1>1, <2>1, SegmentNumbers
  <2>9. SegmentOf(p, g - 1) < SegmentOf(p, g)
    BY <2>3, <2>7, <2>8
  <2>10. QED
    BY <2>2, <2>5, <2>9 DEF l
<1>7. QED
  BY <1>4, <1>5, <1>6

\* An anchored plan keeps its anchors where its segments let them be.
LEMMA AnchoredKeeps ==
  ASSUME NEW p, IsAnchored(p)
  PROVE  KeepsAnchors(p)
<1>1. /\ InOrder(p) /\ p.groups = PlanningGroups(p) /\ LayoutIsLegal(p)
  BY ArrangedInOrder DEF IsAnchored, AnchorsAreLegal
<1>2. \A i \in Slots \ Anchored(p) : HasRoom(PlanningGroupOf(p, i))
  BY <1>1 DEF LayoutIsLegal, PlanningGroups
<1>3. ASSUME NEW i \in Slots \ Anchored(p)
      PROVE  LET group == PlanningGroupOf(p, i)
             IN EarliestEnd(p)[Greatest(group.members)] <= group.end
  <2> DEFINE group == PlanningGroupOf(p, i)
             f == Least(group.members)
             l == Greatest(group.members)
  <2>1. EarliestEnd(p)[l] = group.start + RunMs(f, l)
    BY <1>1, PlanningGroupEnds
  <2>2. RunMs(f, l) <= group.end - group.start
    BY <1>2 DEF HasRoom
  <2>3. group.start \in Nat /\ group.end \in Nat
    BY <1>1, WindowTimes
  <2>4. f \in Slots /\ l \in Slots
    BY <1>1, PlanningGroupIsRun
  <2> HIDE DEF group, f, l
  <2>5. RunMs(f, l) \in Int
    <3>1. l + 1 \in 1..Len(SlotMs) + 1 /\ f \in 1..Len(SlotMs) + 1
      BY <2>4, Durations
    <3>2. OutputStart[l + 1] \in Nat /\ OutputStart[f] \in Nat
      BY <3>1, OutputTimes
    <3>3. QED
      BY <3>2 DEF RunMs
  <2>6. EarliestEnd(p)[l] <= group.end
    BY <2>1, <2>2, <2>3, <2>5
  <2>7. QED
    BY <2>6 DEF group, l
<1>4. ASSUME NEW i \in Anchored(p)
      PROVE  /\ AnchorStart(p, i) >= Ready(p, i)
             /\ EarliestEnd(p)[LastOf(p, i)] <= SegmentEnd(p.segment[i])
  <2>1. i \in Slots /\ i \in Nat /\ i >= 1
    BY Durations DEF Anchored
  <2>2. /\ SegmentStart[p.segment[i]] <= AnchorStart(p, i)
        /\ \A j \in AnchorsBefore(p, i) : AnchorEnd(p, j) <= AnchorStart(p, i)
    BY <1>1 DEF LayoutIsLegal
  <2>3. /\ SegmentStart[p.segment[i]] \in Nat /\ SegmentEnd(p.segment[i]) \in Nat
        /\ AnchorStart(p, i) \in Nat
    BY <1>1, <2>1, PictureTimes
  <2>4. ~ Follows(p, i) => Ready(p, i) <= AnchorStart(p, i)
    BY <2>2 DEF Ready
  <2>5. ASSUME Follows(p, i) PROVE EarliestEnd(p)[i - 1] <= AnchorStart(p, i)
    <3>1. i - 1 \in Slots /\ i - 1 < i /\ GroupOf(p, i - 1) = GroupOf(p, i) /\ (i - 1) + 1 = i
      BY <2>1, <2>5, Durations DEF Follows
    <3>2. CASE i - 1 \in Anchored(p)
      <4>1. i - 1 \in AnchorsBefore(p, i)
        BY <3>1, <3>2 DEF AnchorsBefore
      <4>2. EarliestEnd(p)[i - 1] = AnchorEnd(p, i - 1)
        BY <1>1, <3>1, <3>2, EarliestEnds
      <4>3. QED
        BY <2>2, <4>1, <4>2
    <3>3. CASE i - 1 \notin Anchored(p)
      <4> DEFINE k == i - 1
                 group == PlanningGroupOf(p, k)
                 l == Greatest(group.members)
      <4>1. k \in Slots \ Anchored(p)
        BY <3>1, <3>3
      <4>2. i \in AnchorsAfter(p, k)
        BY <3>1 DEF AnchorsAfter
      <4>3. l + 1 = Least(AnchorsAfter(p, k)) /\ l \in Slots /\ k <= l
        <5>1. AnchorsAfter(p, k) # {}
          BY <4>2
        <5>2. Least(AnchorsAfter(p, k)) = l + 1
          BY <1>1, <4>1, <5>1, NextToPlanningGroup
        <5>3. l \in Slots /\ k <= l
          BY <1>1, <4>1, PlanningGroupIsRun
        <5>4. QED
          BY <5>2, <5>3
      <4>4. Least(AnchorsAfter(p, k)) <= i
        <5>1. AnchorsAfter(p, k) # {} /\ AnchorsAfter(p, k) \in SUBSET Slots
          BY <4>2 DEF AnchorsAfter, Anchored
        <5>2. QED
          BY <4>2, <5>1, LeastSlot
      <4>5. l \in Nat
        BY <4>3, Durations
      <4>6. group.end = AnchorStart(p, Least(AnchorsAfter(p, k)))
        BY <4>2, PlanningFields
      <4>7. EarliestEnd(p)[l] <= group.end
        BY <1>3, <4>1
      <4> HIDE DEF l, group
      <4>8. l = k
        BY <2>1, <4>3, <4>4, <4>5
      <4>9. Least(AnchorsAfter(p, k)) = i
        BY <2>1, <4>3, <4>8
      <4>10. QED
        BY <4>6, <4>7, <4>8, <4>9
    <3>4. QED
      BY <3>2, <3>3
  <2>6. AnchorStart(p, i) >= Ready(p, i)
    <3>1. Ready(p, i) \in Int
      BY <1>1, <2>1, EarliestEnds
    <3>2. Follows(p, i) => Ready(p, i) = EarliestEnd(p)[i - 1]
      BY DEF Ready
    <3>3. Ready(p, i) <= AnchorStart(p, i)
      BY <2>4, <2>5, <3>2
    <3>4. QED
      BY <2>3, <3>1, <3>3
  <2>7. EarliestEnd(p)[LastOf(p, i)] <= SegmentEnd(p.segment[i])
    <3> DEFINE l == LastOf(p, i)
    <3>1. /\ l \in Slots /\ GroupOf(p, l) = GroupOf(p, i) /\ p.segment[l] = p.segment[i]
          /\ \A j \in Slots : GroupOf(p, j) = GroupOf(p, i) => j <= l
      BY <1>1, <2>1, LastOfGroup
    <3>2. LastOf(p, l) = l
      BY <3>1 DEF LastOf
    <3> HIDE DEF l
    <3>3. CASE l \in Anchored(p)
      <4>1. EarliestEnd(p)[l] = AnchorEnd(p, l)
        BY <1>1, <3>1, <3>3, EarliestEnds
      <4>2. AnchorEnd(p, l) <= SegmentEnd(p.segment[l])
        BY <1>1, <3>3 DEF LayoutIsLegal
      <4>3. QED
        BY <3>1, <4>1, <4>2 DEF l
    <3>4. CASE l \notin Anchored(p)
      <4>1. AnchorsAfter(p, l) = {}
        <5> SUFFICES ASSUME NEW j \in AnchorsAfter(p, l) PROVE FALSE
          OBVIOUS
        <5>1. j \in Slots /\ j > l /\ GroupOf(p, j) = GroupOf(p, l)
          BY DEF AnchorsAfter, Anchored
        <5>2. j <= l
          BY <3>1, <5>1
        <5>3. j \in Nat /\ l \in Nat
          BY <3>1, <5>1, Durations
        <5>4. QED
          BY <5>1, <5>2, <5>3
      <4>2. l \in Slots \ Anchored(p)
        BY <3>1, <3>4
      <4>3. l = Greatest(PlanningGroupOf(p, l).members)
        BY <1>1, <3>2, <4>1, <4>2, NextToPlanningGroup
      <4>4. PlanningGroupOf(p, l).end = SegmentEnd(p.segment[l])
        BY <4>1, PlanningFields
      <4>5. EarliestEnd(p)[l] <= PlanningGroupOf(p, l).end
        BY <1>3, <4>2, <4>3
      <4>6. QED
        BY <3>1, <4>4, <4>5 DEF l
    <3>5. QED
      BY <3>3, <3>4
  <2>8. QED
    BY <2>6, <2>7
<1>5. QED
  BY <1>4 DEF KeepsAnchors, Ready, Follows, LastOf

\* What is used of the segments around a group is a number.
LEMMA UsedIsNumber ==
  ASSUME NEW p, InOrder(p), NEW g \in GroupNumbers(p), NEW b \in Int
  PROVE  /\ OutputStart[FirstSlot(p, g)] \in Int /\ OutputStart[LastSlot(p, g) + 1] \in Int
         /\ GroupMs(p, g) = OutputStart[LastSlot(p, g) + 1] - OutputStart[FirstSlot(p, g)]
         /\ GroupMs(p, g) \in Int /\ UsedAfter(p, g, b) \in Int
         /\ SegmentStart[SegmentOf(p, g)] \in Int
         /\ EarliestEnd(p)[LastSlot(p, g)] \in Int
<1> DEFINE f == FirstSlot(p, g)
           l == LastSlot(p, g)
<1>1. f \in Slots /\ l \in Slots /\ p.segment[f] = SegmentOf(p, g)
  BY GroupIsRun
<1>2. GroupMs(p, g) = RunMs(f, l) /\ EndOffset(p, g) = EarliestEnd(p)[l] - SegmentStart[SegmentOf(p, g)]
  BY DEF GroupMs, EndOffset, FirstSlot, LastSlot
<1> HIDE DEF f, l
<1>3. OutputStart[f] \in Int /\ OutputStart[l + 1] \in Int
  <2>1. f \in 1..Len(SlotMs) + 1 /\ l + 1 \in 1..Len(SlotMs) + 1
    BY <1>1, Durations
  <2>2. OutputStart[f] \in Nat /\ OutputStart[l + 1] \in Nat
    BY <2>1, OutputTimes
  <2>3. QED
    BY <2>2
<1>4. GroupMs(p, g) = OutputStart[l + 1] - OutputStart[f] /\ GroupMs(p, g) \in Int
  BY <1>2, <1>3 DEF RunMs
<1>5. EarliestEnd(p)[l] \in Int /\ SegmentStart[SegmentOf(p, g)] \in Int
  <2>1. SegmentStart[p.segment[f]] \in Nat
    BY <1>1, PictureTimes
  <2>2. QED
    BY <1>1, <2>1, EarliestEnds
<1>6. EndOffset(p, g) \in Int
  BY <1>2, <1>5
<1>7. UsedAfter(p, g, b) \in Int
  BY <1>4, <1>6 DEF UsedAfter
<1>8. QED
  BY <1>3, <1>4, <1>5, <1>7 DEF f, l

\* Slots without anchor that follow each other end one after the other.
LEMMA EndsAlong ==
  ASSUME NEW q, InOrder(q), NEW f \in Slots, NEW k \in Slots, f <= k,
         \A i \in f..k : i \notin Anchored(q),
         \A i \in (f + 1)..k : Follows(q, i)
  PROVE  EarliestEnd(q)[k] = Ready(q, f) + (OutputStart[k + 1] - OutputStart[f])
<1> DEFINE E == EarliestEnd(q)
           c == Ready(q, f)
           O == OutputStart
           S == {i \in f..k : E[i] = c + (O[i + 1] - O[f])}
<1>1. f \in Nat /\ k \in Nat /\ f..k \subseteq Slots /\ f >= 1
  BY Durations
<1>2. \A i \in f..k : /\ SlotMs[i] \in Int /\ O[i] \in Int /\ O[i + 1] \in Int
                      /\ O[i + 1] = O[i] + SlotMs[i] /\ E[i] \in Int
                      /\ E[i] = Ready(q, i) + SlotMs[i]
  <2>1. ASSUME NEW i \in f..k
        PROVE  /\ SlotMs[i] \in Int /\ O[i] \in Int /\ O[i + 1] \in Int
               /\ O[i + 1] = O[i] + SlotMs[i] /\ E[i] \in Int
               /\ E[i] = Ready(q, i) + SlotMs[i]
    <3>1. i \in Slots /\ i \in 1..Len(SlotMs) + 1 /\ i + 1 \in 1..Len(SlotMs) + 1
      BY <1>1, Durations
    <3>2. O[i] \in Nat /\ O[i + 1] \in Nat /\ O[i + 1] = O[i] + SlotMs[i]
      BY <3>1, OutputTimes
    <3>3. SlotMs[i] \in Nat /\ E[i] \in Int /\ E[i] = Ready(q, i) + SlotMs[i]
      BY <3>1, Durations, EarliestEnds
    <3>4. QED
      BY <3>2, <3>3
  <2>2. QED
    BY <2>1
<1>3. c \in Int
  BY EarliestEnds
<1>4. \A i \in (f + 1)..k : Ready(q, i) = E[i - 1]
  BY DEF Ready
<1>5. Ready(q, f) = c
  OBVIOUS
<1> HIDE DEF E, O, c
<1>6. f..k \subseteq S
  <2>1. f \in S
    <3>1. f \in f..k
      BY <1>1
    <3>2. E[f] = c + SlotMs[f] /\ O[f + 1] = O[f] + SlotMs[f]
      BY <1>2, <1>5, <3>1
    <3>3. QED
      BY <1>2, <1>3, <3>1, <3>2
  <2>2. ASSUME NEW i \in f..(k - 1), i \in S PROVE i + 1 \in S
    <3>1. i \in f..k /\ i + 1 \in f..k /\ i + 1 \in (f + 1)..k /\ (i + 1) - 1 = i
      BY <1>1
    <3>2. E[i + 1] = E[i] + SlotMs[i + 1]
      BY <1>2, <1>4, <3>1
    <3>3. E[i] = c + (O[i + 1] - O[f])
      BY <2>2
    <3>4. /\ O[(i + 1) + 1] = O[i + 1] + SlotMs[i + 1]
          /\ O[(i + 1) + 1] \in Int /\ O[i + 1] \in Int /\ SlotMs[i + 1] \in Int
      BY <1>2, <3>1
    <3>5. O[f] \in Int
      <4>1. f \in f..k
        BY <1>1
      <4>2. QED
        BY <1>2, <4>1
    <3>6. E[i + 1] = c + (O[(i + 1) + 1] - O[f])
      BY <1>3, <3>2, <3>3, <3>4, <3>5
    <3>7. QED
      BY <3>1, <3>6
  <2> HIDE DEF S
  <2>3. f \in Int /\ k \in Int
    BY <1>1
  <2>4. QED
    BY <2>1, <2>2, <2>3, Ascent
<1>7. k \in f..k
  BY <1>1
<1>8. QED
  BY <1>6, <1>7 DEF E, O, c

\* From an anchor on, the slots that follow each other in both of two plans end
\* at the same times in both.
LEMMA EndsAfterAnchor ==
  ASSUME NEW p, InOrder(p), NEW q, InOrder(q), p.anchor = q.anchor,
         NEW a \in Anchored(p), NEW k \in Slots, a <= k,
         \A i \in (a + 1)..k : Follows(p, i) /\ Follows(q, i)
  PROVE  EarliestEnd(q)[k] = EarliestEnd(p)[k]
<1> DEFINE E == EarliestEnd(p)
           F == EarliestEnd(q)
           S == {i \in a..k : F[i] = E[i]}
<1>1. a \in Slots /\ a \in Nat /\ k \in Nat /\ a..k \subseteq Slots
  BY Durations DEF Anchored
<1>2. \A i \in Slots : /\ i \in Anchored(p) <=> i \in Anchored(q)
                       /\ AnchorEnd(p, i) = AnchorEnd(q, i)
  BY DEF Anchored, AnchorEnd
<1>3. \A i \in Slots : i \in Anchored(p) => E[i] = F[i]
  BY <1>2, EarliestEnds
<1>4. \A i \in Slots : i \notin Anchored(p) => /\ E[i] = Ready(p, i) + SlotMs[i]
                                               /\ F[i] = Ready(q, i) + SlotMs[i]
  BY <1>2, EarliestEnds
<1>5. \A i \in (a + 1)..k : Ready(p, i) = E[i - 1] /\ Ready(q, i) = F[i - 1]
  BY DEF Ready
<1> HIDE DEF E, F
<1>6. a..k \subseteq S
  <2>1. a \in S
    BY <1>1, <1>3
  <2>2. ASSUME NEW i \in a..(k - 1), i \in S PROVE i + 1 \in S
    <3>1. i + 1 \in a..k /\ i + 1 \in Slots /\ i + 1 \in (a + 1)..k /\ (i + 1) - 1 = i
      BY <1>1
    <3>2. CASE i + 1 \in Anchored(p)
      BY <1>3, <3>1, <3>2
    <3>3. CASE i + 1 \notin Anchored(p)
      BY <1>4, <1>5, <2>2, <3>1, <3>3
    <3>4. QED
      BY <3>2, <3>3
  <2> HIDE DEF S
  <2>3. a \in Int /\ k \in Int
    BY <1>1
  <2>4. QED
    BY <2>1, <2>2, <2>3, Ascent
<1>7. k \in a..k
  BY <1>1
<1>8. QED
  BY <1>6, <1>7 DEF E, F

\* The slots of a group follow each other; the first one starts it.
LEMMA GroupFollowing ==
  ASSUME NEW p, InOrder(p), NEW g \in GroupNumbers(p)
  PROVE  /\ \A i \in (FirstSlot(p, g) + 1)..LastSlot(p, g) : Follows(p, i)
         /\ Ready(p, FirstSlot(p, g)) = SegmentStart[SegmentOf(p, g)]
<1> DEFINE f == FirstSlot(p, g)
           l == LastSlot(p, g)
<1>1. /\ f \in Slots /\ l \in Slots /\ GroupOf(p, f) = g
      /\ p.segment[f] = SegmentOf(p, g)
      /\ \A i \in Slots : f <= i /\ i <= l => GroupOf(p, i) = g
  BY GroupIsRun
<1>2. f = 1 \/ GroupOf(p, f - 1) # g
  <2>1. g \in Nat
    BY GroupIsRun
  <2>2. QED
    BY <2>1, GroupFollows
<1> HIDE DEF f, l
<1>3. ASSUME NEW i \in (f + 1)..l PROVE Follows(p, i)
  <2>1. i \in Slots /\ i - 1 \in Slots /\ f <= i - 1 /\ f <= i /\ i <= l /\ i - 1 <= l /\ i # 1
    BY <1>1, Durations
  <2>2. QED
    BY <1>1, <2>1 DEF Follows
<1>4. ~ Follows(p, f)
  BY <1>1, <1>2 DEF Follows
<1>5. QED
  BY <1>1, <1>3, <1>4 DEF Ready, f, l

\* The first anchor of a group, and the room before it.
FirstAnchor(p, g) == Least(Members(p, g) \cap Anchored(p))

LEMMA AnchoredGroups ==
  ASSUME NEW p, InOrder(p), NEW g \in GroupNumbers(p), IsAnchoredGroup(p, g)
  PROVE  LET a == FirstAnchor(p, g)
         IN /\ a \in Anchored(p) /\ a \in Slots /\ GroupOf(p, a) = g
            /\ FirstSlot(p, g) <= a /\ a <= LastSlot(p, g)
            /\ \A j \in Anchored(p) : GroupOf(p, j) = g => a <= j
            /\ OutputStart[a] \in Int /\ AnchorStart(p, a) \in Int
            /\ PrefixRoom(p, g) \in Int
            /\ PrefixRoom(p, g) = AnchorStart(p, a) - SegmentStart[SegmentOf(p, g)]
                                    - (OutputStart[a] - OutputStart[FirstSlot(p, g)])
<1> DEFINE A == Members(p, g) \cap Anchored(p)
           a == FirstAnchor(p, g)
           f == FirstSlot(p, g)
<1>1. A # {} /\ A \in SUBSET Slots
  BY DEF IsAnchoredGroup, Members
<1>2. a \in A /\ \A j \in A : a <= j
  BY <1>1, LeastSlot DEF FirstAnchor
<1>3. a \in Anchored(p) /\ a \in Slots /\ GroupOf(p, a) = g
  BY <1>2 DEF Members
<1>4. \A j \in Anchored(p) : GroupOf(p, j) = g => a <= j
  BY <1>2 DEF Members, Anchored
<1>5. f <= a /\ a <= LastSlot(p, g) /\ p.segment[a] = SegmentOf(p, g) /\ f \in Slots
  BY <1>3, GroupIsRun
<1>6. PrefixRoom(p, g) = AnchorStart(p, a) - SegmentStart[p.segment[a]]
                           - (IF f = a THEN 0 ELSE RunMs(f, a - 1))
  BY DEF PrefixRoom, FirstAnchor, FirstSlot
<1> HIDE DEF A, a, f
<1>7. OutputStart[a] \in Int /\ OutputStart[f] \in Int
  <2>1. a \in 1..Len(SlotMs) + 1 /\ f \in 1..Len(SlotMs) + 1
    BY <1>3, <1>5, Durations
  <2>2. OutputStart[a] \in Nat /\ OutputStart[f] \in Nat
    BY <2>1, OutputTimes
  <2>3. QED
    BY <2>2
<1>8. AnchorStart(p, a) \in Int /\ SegmentStart[p.segment[a]] \in Int
  <2>1. AnchorStart(p, a) \in Nat /\ SegmentStart[p.segment[a]] \in Nat
    BY <1>3, PictureTimes
  <2>2. QED
    BY <2>1
<1>9. (IF f = a THEN 0 ELSE RunMs(f, a - 1)) = OutputStart[a] - OutputStart[f]
  <2>1. (a - 1) + 1 = a
    BY <1>3, Durations
  <2>2. RunMs(f, a - 1) = OutputStart[a] - OutputStart[f]
    BY <2>1 DEF RunMs
  <2>3. f = a => OutputStart[a] - OutputStart[f] = 0
    BY <1>7
  <2>4. QED
    BY <2>2, <2>3
<1>10. PrefixRoom(p, g) = AnchorStart(p, a) - SegmentStart[p.segment[a]]
                            - (OutputStart[a] - OutputStart[f])
  BY <1>6, <1>9
<1>11. PrefixRoom(p, g) \in Int
  BY <1>7, <1>8, <1>10
<1>12. QED
  BY <1>3, <1>4, <1>5, <1>7, <1>8, <1>10, <1>11 DEF a, f

\* Segments end where they are as long as they are.
LEMMA SegmentEnds ==
  \A s \in Segments : /\ SegmentEnd(s) = SegmentStart[s] + SegmentMs[s]
                      /\ SegmentStart[s] \in Int /\ SegmentMs[s] \in Int /\ SegmentEnd(s) \in Int
<1> SUFFICES ASSUME NEW s \in Segments
             PROVE  /\ SegmentEnd(s) = SegmentStart[s] + SegmentMs[s]
                    /\ SegmentStart[s] \in Int /\ SegmentMs[s] \in Int /\ SegmentEnd(s) \in Int
  OBVIOUS
<1>1. s \in 1..Len(SegmentMs) + 1
  BY Durations
<1>2. SegmentStart[s] \in Nat /\ SegmentStart[s + 1] = SegmentStart[s] + SegmentMs[s]
  BY <1>1, SegmentTimes
<1>3. SegmentMs[s] \in Nat
  BY Durations
<1>4. QED
  BY <1>2, <1>3 DEF SegmentEnd

\* A group that stays where it is, in a segment no other group uses, has room.
LEMMA UnmovedHasRoom ==
  ASSUME NEW p, IsAnchored(p), NEW g \in GroupNumbers(p)
  PROVE  HasRoomIn(p, g, <<0, 0>>, SegmentOf(p, g))
<1> DEFINE s == SegmentOf(p, g)
           f == FirstSlot(p, g)
           l == LastSlot(p, g)
<1>1. InOrder(p) /\ ArrangementIsLegal(p) /\ KeepsAnchors(p)
  BY ArrangedInOrder, AnchoredKeeps DEF IsAnchored, IsArranged
<1>2. s \in Segments
  BY <1>1, GroupIsRun
<1>3. 0 <= s
  BY <1>2, Durations
<1>4. UsedBefore(<<0, 0>>, s) = 0
  BY DEF UsedBefore
<1>5. ASSUME IsAnchoredGroup(p, g) PROVE 0 <= PrefixRoom(p, g)
  <2> DEFINE a == FirstAnchor(p, g)
             O == OutputStart
  <2>1. /\ a \in Anchored(p) /\ a \in Slots /\ GroupOf(p, a) = g
        /\ f <= a /\ a <= l
        /\ \A j \in Anchored(p) : GroupOf(p, j) = g => a <= j
        /\ O[a] \in Int /\ AnchorStart(p, a) \in Int
        /\ PrefixRoom(p, g) = AnchorStart(p, a) - SegmentStart[s] - (O[a] - O[f])
    BY <1>1, <1>5, AnchoredGroups
  <2>2. /\ O[f] \in Int /\ SegmentStart[s] \in Int /\ f \in Slots
    <3>1. 0 \in Int
      OBVIOUS
    <3>2. QED
      BY <1>1, <3>1, UsedIsNumber, GroupIsRun
  <2>3. Ready(p, f) = SegmentStart[s] /\ \A i \in (f + 1)..l : Follows(p, i)
    BY <1>1, GroupFollowing
  <2>4. Ready(p, a) <= AnchorStart(p, a) /\ Ready(p, a) \in Int
    BY <1>1, <2>1, NoEarlier
  <2>5. \A j \in Slots : GroupOf(p, j) = g <=> f <= j /\ j <= l
    BY <1>1, GroupIsRun
  <2> HIDE DEF a, f, l, s, O
  <2>6. a \in Nat /\ f \in Nat /\ a >= 1 /\ f >= 1 /\ l \in Int
    <3>1. l \in Slots
      BY <1>1, GroupIsRun DEF l
    <3>2. QED
      BY <2>1, <2>2, <3>1, Durations
  <2>7. CASE a = f
    BY <2>1, <2>2, <2>3, <2>4, <2>7
  <2>8. CASE a # f
    <3>1. a - 1 \in Slots /\ f <= a - 1 /\ a - 1 <= l /\ (a - 1) + 1 = a /\ a \in (f + 1)..l
      BY <2>1, <2>6, <2>8, Durations
    <3>2. \A i \in f..(a - 1) : i \notin Anchored(p)
      <4> SUFFICES ASSUME NEW i \in f..(a - 1), i \in Anchored(p) PROVE FALSE
        OBVIOUS
      <4>1. i \in Slots
        BY DEF Anchored
      <4>2. GroupOf(p, i) = g
        BY <2>1, <2>5, <2>6, <4>1
      <4>3. a <= i
        BY <2>1, <4>2
      <4>4. QED
        BY <2>6, <4>3
    <3>3. \A i \in (f + 1)..(a - 1) : Follows(p, i)
      BY <2>3, <2>6, <3>1
    <3>4. EarliestEnd(p)[a - 1] = Ready(p, f) + (O[a] - O[f])
      BY <1>1, <2>2, <3>1, <3>2, <3>3, EndsAlong DEF O
    <3>5. Ready(p, a) = EarliestEnd(p)[a - 1]
      BY <2>3, <3>1 DEF Ready
    <3>6. QED
      BY <2>1, <2>2, <2>3, <2>4, <3>4, <3>5
  <2>9. QED
    BY <2>7, <2>8
<1>6. UsedAfter(p, g, 0) <= SegmentMs[s]
  <2>1. /\ SegmentEnd(s) = SegmentStart[s] + SegmentMs[s]
        /\ SegmentStart[s] \in Int /\ SegmentMs[s] \in Int
    BY <1>2, SegmentEnds
  <2>2. CASE IsAnchoredGroup(p, g)
    <3> DEFINE a == FirstAnchor(p, g)
    <3>1. a \in Anchored(p) /\ GroupOf(p, a) = g /\ a \in Slots
      BY <1>1, <2>2, AnchoredGroups
    <3>2. p.segment[a] = s
      BY <1>1, <3>1, GroupIsRun
    <3>3. EarliestEnd(p)[l] <= SegmentEnd(s)
      BY <1>1, <3>1, <3>2 DEF KeepsAnchors, LastSlot
    <3>4. EarliestEnd(p)[l] \in Int
      <4>1. 0 \in Int
        OBVIOUS
      <4>2. QED
        BY <1>1, <4>1, UsedIsNumber
    <3>5. UsedAfter(p, g, 0) = EarliestEnd(p)[l] - SegmentStart[s]
      BY <2>2 DEF UsedAfter, EndOffset, LastSlot
    <3> HIDE DEF a, l, s
    <3>6. QED
      BY <2>1, <3>3, <3>4, <3>5
  <2>3. CASE ~ IsAnchoredGroup(p, g)
    <3>1. GroupMs(p, g) <= SegmentMs[s]
      BY <1>1 DEF ArrangementIsLegal
    <3>2. GroupMs(p, g) \in Int
      <4>1. 0 \in Int
        OBVIOUS
      <4>2. QED
        BY <1>1, <4>1, UsedIsNumber
    <3>3. UsedAfter(p, g, 0) = 0 + GroupMs(p, g)
      BY <2>3 DEF UsedAfter
    <3> HIDE DEF s
    <3>4. QED
      BY <2>1, <3>1, <3>2, <3>3
  <2>4. QED
    BY <2>2, <2>3
<1>7. QED
  BY <1>3, <1>4, <1>5, <1>6 DEF HasRoomIn

-----------------------------------------------------------------------------
(* Plans whose groups are given segments again. *)

\* Where group g is put, and how much of its segment is used after it.
Before(t, u, g) == IF g = 1 THEN <<0, 0>> ELSE <<t[g - 1], u[g - 1]>>

IsAssigned(p, t, u) ==
  \A g \in GroupNumbers(p) :
    /\ t[g] \in Segments /\ u[g] \in Int
    /\ IsAnchoredGroup(p, g) => t[g] = SegmentOf(p, g)
    /\ HasRoomIn(p, g, Before(t, u, g), t[g])
    /\ u[g] = UsedAfter(p, g, UsedBefore(Before(t, u, g), t[g]))

\* The plan q is p with its groups in the segments t.
IsMoved(p, q, t) ==
  /\ q.segment = [i \in Slots |-> t[GroupOf(p, i)]]
  /\ q.anchor = p.anchor

\* Groups are put in the order of the source, and each stays together.
LEMMA MovedInOrder ==
  ASSUME NEW p, InOrder(p), NEW q, NEW t, NEW u, IsAssigned(p, t, u), IsMoved(p, q, t)
  PROVE  /\ InOrder(q)
         /\ Anchored(q) = Anchored(p)
         /\ \A i \in Slots : AnchorStart(q, i) = AnchorStart(p, i)
         /\ \A i \in Slots : q.segment[i] = t[GroupOf(p, i)]
         /\ \A i \in Slots : Follows(p, i) => Follows(q, i)
<1>1. \A i \in Slots : q.segment[i] = t[GroupOf(p, i)] /\ q.segment[i] \in Segments
  BY GroupsAreUsed DEF IsMoved, IsAssigned
<1>2. q.segment \in [Slots -> Segments]
  BY <1>1 DEF IsMoved
<1>3. ASSUME NEW i \in Slots \ {1} PROVE q.segment[i - 1] <= q.segment[i]
  <2>1. i - 1 \in Slots /\ i \in Slots /\ (i - 1) + 1 = i
    BY Durations
  <2>2. q.segment[i - 1] \in Nat /\ q.segment[i] \in Nat
    BY <1>1, <2>1, Durations
  <2>3. CASE GroupOf(p, i) = GroupOf(p, i - 1)
    BY <1>1, <2>1, <2>2, <2>3
  <2>4. CASE GroupOf(p, i) = GroupOf(p, i - 1) + 1
    <3> DEFINE g == GroupOf(p, i)
    <3>1. g \in GroupNumbers(p) /\ GroupOf(p, i - 1) \in Nat /\ GroupOf(p, i - 1) >= 1
      BY <2>1, GroupsAreUsed DEF GroupNumbers
    <3>2. g # 1 /\ g - 1 = GroupOf(p, i - 1)
      BY <2>4, <3>1
    <3>3. HasRoomIn(p, g, Before(t, u, g), t[g]) /\ Before(t, u, g) = <<t[g - 1], u[g - 1]>>
      BY <3>1, <3>2 DEF IsAssigned, Before
    <3>4. t[g - 1] <= t[g]
      BY <3>3 DEF HasRoomIn
    <3>5. QED
      BY <1>1, <2>1, <3>2, <3>4
  <2>5. QED
    BY <2>1, <2>3, <2>4, GroupsCount
<1>4. InOrder(q)
  BY <1>2, <1>3 DEF InOrder, IsMoved
<1>5. Anchored(q) = Anchored(p) /\ \A i \in Slots : AnchorStart(q, i) = AnchorStart(p, i)
  BY DEF IsMoved, Anchored, AnchorStart
<1>6. ASSUME NEW i \in Slots, Follows(p, i) PROVE Follows(q, i)
  <2>1. i # 1 /\ i - 1 \in Slots /\ i - 1 <= i /\ GroupOf(p, i - 1) = GroupOf(p, i)
    BY <1>6, Durations DEF Follows
  <2>2. q.segment[i - 1] = q.segment[i]
    BY <1>1, <2>1
  <2>3. GroupOf(q, i - 1) = GroupOf(q, i)
    BY <1>4, <2>1, <2>2, GroupsRise
  <2>4. QED
    BY <2>1, <2>3 DEF Follows
<1>7. QED
  BY <1>1, <1>4, <1>5, <1>6

\* A group begins where its segment does or where the group before ends.
LEMMA MovedGroupStarts ==
  ASSUME NEW p, InOrder(p), NEW q, NEW t, NEW u, IsAssigned(p, t, u), IsMoved(p, q, t),
         NEW g \in GroupNumbers(p),
         g # 1 => EarliestEnd(q)[LastSlot(p, g - 1)] = SegmentStart[t[g - 1]] + u[g - 1]
  PROVE  Ready(q, FirstSlot(p, g))
           = SegmentStart[t[g]] + UsedBefore(Before(t, u, g), t[g])
<1> DEFINE f == FirstSlot(p, g)
<1>1. /\ InOrder(q) /\ \A i \in Slots : q.segment[i] = t[GroupOf(p, i)]
      /\ g \in Nat
  BY MovedInOrder, GroupIsRun
<1>2. f \in Slots /\ GroupOf(p, f) = g /\ q.segment[f] = t[g]
  BY <1>1, GroupIsRun
<1>3. t[g] \in Segments /\ SegmentStart[t[g]] \in Int
  BY SegmentEnds DEF IsAssigned
<1>4. CASE g = 1
  <2>1. f = 1
    BY <1>4, GroupFollows
  <2>2. Ready(q, f) = SegmentStart[t[g]]
    BY <1>2, <2>1 DEF Ready, Follows
  <2>3. UsedBefore(Before(t, u, g), t[g]) = 0
    BY <1>4 DEF UsedBefore, Before
  <2>4. QED
    BY <1>3, <2>2, <2>3
<1>5. CASE g # 1
  <2>1. /\ f - 1 \in Slots /\ GroupOf(p, f - 1) = g - 1 /\ LastSlot(p, g - 1) = f - 1
    BY <1>5, GroupFollows
  <2>2. EarliestEnd(q)[f - 1] = SegmentStart[t[g - 1]] + u[g - 1]
    BY <1>5, <2>1
  <2>3. UsedBefore(Before(t, u, g), t[g]) = IF t[g - 1] = t[g] THEN u[g - 1] ELSE 0
    BY <1>5 DEF UsedBefore, Before
  <2>4. q.segment[f - 1] = t[g - 1]
    BY <1>1, <2>1
  <2>5. f # 1 /\ f - 1 <= f
    BY <1>2, <2>1, Durations
  <2>6. Follows(q, f) <=> t[g - 1] = t[g]
    BY <1>1, <1>2, <2>1, <2>4, <2>5, GroupsRise DEF Follows
  <2> HIDE DEF f
  <2>7. ASSUME t[g - 1] = t[g]
        PROVE  Ready(q, f) = SegmentStart[t[g]] + UsedBefore(Before(t, u, g), t[g])
    BY <2>2, <2>3, <2>6, <2>7 DEF Ready
  <2>8. ASSUME t[g - 1] # t[g]
        PROVE  Ready(q, f) = SegmentStart[t[g]] + UsedBefore(Before(t, u, g), t[g])
    BY <1>2, <1>3, <2>3, <2>6, <2>8 DEF Ready
  <2>9. QED
    BY <2>7, <2>8 DEF f
<1>6. QED
  BY <1>4, <1>5

\* A group ends where what is used of its segment does.
LEMMA MovedGroupEnds ==
  ASSUME NEW p, InOrder(p), NEW q, NEW t, NEW u, IsAssigned(p, t, u), IsMoved(p, q, t),
         NEW g \in GroupNumbers(p), NEW b \in Int,
         Ready(q, FirstSlot(p, g)) = SegmentStart[t[g]] + b
  PROVE  EarliestEnd(q)[LastSlot(p, g)] = SegmentStart[t[g]] + UsedAfter(p, g, b)
<1> DEFINE f == FirstSlot(p, g)
           l == LastSlot(p, g)
<1>1. /\ InOrder(q) /\ Anchored(q) = Anchored(p)
      /\ \A i \in Slots : Follows(p, i) => Follows(q, i)
  BY MovedInOrder
<1>2. /\ f \in Slots /\ l \in Slots /\ GroupOf(p, l) = g
      /\ \A i \in Slots : GroupOf(p, i) = g <=> f <= i /\ i <= l
  BY GroupIsRun
<1>3. f <= l /\ f \in Nat /\ l \in Nat /\ f..l \subseteq Slots /\ (f + 1)..l \subseteq Slots
  BY <1>2, Durations
<1>4. \A i \in (f + 1)..l : Follows(p, i) /\ Follows(q, i)
  BY <1>1, <1>3, GroupFollowing
<1>5. /\ OutputStart[f] \in Int /\ OutputStart[l + 1] \in Int
      /\ GroupMs(p, g) = OutputStart[l + 1] - OutputStart[f]
      /\ SegmentStart[SegmentOf(p, g)] \in Int /\ EarliestEnd(p)[l] \in Int
  BY UsedIsNumber
<1>6. SegmentStart[t[g]] \in Int
  BY SegmentEnds DEF IsAssigned
<1>7. CASE IsAnchoredGroup(p, g)
  <2> DEFINE a == FirstAnchor(p, g)
  <2>1. a \in Anchored(p) /\ f <= a /\ a <= l /\ a \in Slots
    BY <1>7, AnchoredGroups
  <2>2. t[g] = SegmentOf(p, g)
    BY <1>7 DEF IsAssigned
  <2>3. EndOffset(p, g) = EarliestEnd(p)[l] - SegmentStart[SegmentOf(p, g)]
    BY DEF EndOffset, LastSlot
  <2>4. UsedAfter(p, g, b) = EndOffset(p, g)
    BY <1>7 DEF UsedAfter
  <2> HIDE DEF f, l, a
  <2>5. \A i \in (a + 1)..l : Follows(p, i) /\ Follows(q, i)
    <3>1. a \in Nat
      BY <2>1, Durations
    <3>2. \A i \in (a + 1)..l : i \in (f + 1)..l
      BY <1>3, <2>1, <3>1
    <3>3. QED
      BY <1>4, <3>2
  <2>6. EarliestEnd(q)[l] = EarliestEnd(p)[l]
    BY <1>1, <1>2, <2>1, <2>5, EndsAfterAnchor DEF IsMoved
  <2>7. EarliestEnd(q)[l] = SegmentStart[t[g]] + UsedAfter(p, g, b)
    BY <1>5, <2>2, <2>3, <2>4, <2>6
  <2>8. QED
    BY <2>7 DEF l
<1>8. CASE ~ IsAnchoredGroup(p, g)
  <2>1. UsedAfter(p, g, b) = b + GroupMs(p, g)
    BY <1>8 DEF UsedAfter
  <2>2. \A i \in f..l : i \notin Anchored(q)
    <3> SUFFICES ASSUME NEW i \in f..l, i \in Anchored(p) PROVE FALSE
      BY <1>1
    <3>1. i \in Slots /\ GroupOf(p, i) = g
      BY <1>2, <1>3
    <3>2. QED
      BY <1>8, <3>1 DEF IsAnchoredGroup, Members
  <2>3. Ready(q, f) = SegmentStart[t[g]] + b
    OBVIOUS
  <2> HIDE DEF f, l
  <2>4. EarliestEnd(q)[l] = Ready(q, f) + (OutputStart[l + 1] - OutputStart[f])
    BY <1>1, <1>2, <1>3, <1>4, <2>2, EndsAlong
  <2>5. EarliestEnd(q)[l] = SegmentStart[t[g]] + UsedAfter(p, g, b)
    BY <1>5, <1>6, <2>1, <2>3, <2>4
  <2>6. QED
    BY <2>5 DEF l
<1>9. QED
  BY <1>7, <1>8

\* What is used before a group is a number.
LEMMA UsedBeforeIsNumber ==
  ASSUME NEW p, InOrder(p), NEW t, NEW u, IsAssigned(p, t, u), NEW g \in GroupNumbers(p)
  PROVE  UsedBefore(Before(t, u, g), t[g]) \in Int
<1>1. g = 1 => UsedBefore(Before(t, u, g), t[g]) = 0
  BY DEF UsedBefore, Before
<1>2. g # 1 => /\ u[g - 1] \in Int
               /\ UsedBefore(Before(t, u, g), t[g]) = IF t[g - 1] = t[g] THEN u[g - 1] ELSE 0
  BY GroupFollows DEF UsedBefore, Before, IsAssigned
<1>3. QED
  BY <1>1, <1>2

\* Every group begins and ends where the assignment puts it.
LEMMA MovedGroups ==
  ASSUME NEW p, InOrder(p), NEW q, NEW t, NEW u, IsAssigned(p, t, u), IsMoved(p, q, t)
  PROVE  \A g \in GroupNumbers(p) :
           /\ Ready(q, FirstSlot(p, g)) = SegmentStart[t[g]] + UsedBefore(Before(t, u, g), t[g])
           /\ EarliestEnd(q)[LastSlot(p, g)] = SegmentStart[t[g]] + u[g]
<1> DEFINE G == GroupOf(p, Len(SlotMs))
           Starts1(g) == Ready(q, FirstSlot(p, g))
                           = SegmentStart[t[g]] + UsedBefore(Before(t, u, g), t[g])
           Ends1(g) == EarliestEnd(q)[LastSlot(p, g)] = SegmentStart[t[g]] + u[g]
           S == {g \in GroupNumbers(p) : Starts1(g) /\ Ends1(g)}
<1>1. G \in Nat /\ GroupNumbers(p) = 1..G
  BY GroupsAreUsed DEF GroupNumbers
<1>2. ASSUME NEW g \in GroupNumbers(p), g # 1 => Ends1(g - 1)
      PROVE  g \in S
  <2>1. Starts1(g)
    BY <1>2, MovedGroupStarts
  <2>2. UsedBefore(Before(t, u, g), t[g]) \in Int
    BY UsedBeforeIsNumber
  <2>3. EarliestEnd(q)[LastSlot(p, g)]
          = SegmentStart[t[g]] + UsedAfter(p, g, UsedBefore(Before(t, u, g), t[g]))
    BY <2>1, <2>2, MovedGroupEnds
  <2>4. u[g] = UsedAfter(p, g, UsedBefore(Before(t, u, g), t[g]))
    BY DEF IsAssigned
  <2>5. Ends1(g)
    BY <2>3, <2>4
  <2>6. QED
    BY <2>1, <2>5
<1> HIDE DEF Starts1, Ends1, G
<1>3. 1..G \subseteq S
  <2>1. 1 <= G => 1 \in S
    BY <1>1, <1>2
  <2>2. ASSUME NEW g \in 1..(G - 1), g \in S PROVE g + 1 \in S
    <3>1. g + 1 \in GroupNumbers(p) /\ (g + 1) - 1 = g
      BY <1>1
    <3>2. QED
      BY <1>2, <2>2, <3>1
  <2> HIDE DEF S
  <2>3. G \in Int /\ 1 \in Int
    BY <1>1
  <2>4. QED
    BY <2>1, <2>2, <2>3, Ascent
<1>4. QED
  BY <1>1, <1>3 DEF Starts1, Ends1

\* No slot of a moved plan ends after its segment.
LEMMA MovedEndsInSegment ==
  ASSUME NEW p, InOrder(p), NEW q, NEW t, NEW u, IsAssigned(p, t, u), IsMoved(p, q, t),
         NEW i \in Slots
  PROVE  EarliestEnd(q)[LastOf(q, i)] <= SegmentEnd(q.segment[i])
<1> DEFINE l == LastOf(q, i)
           g == GroupOf(p, l)
           m == LastSlot(p, g)
<1>1. InOrder(q) /\ \A j \in Slots : q.segment[j] = t[GroupOf(p, j)]
  BY MovedInOrder
<1>2. /\ l \in Slots /\ GroupOf(q, l) = GroupOf(q, i) /\ q.segment[l] = q.segment[i]
      /\ \A j \in Slots : GroupOf(q, j) = GroupOf(q, i) => j <= l
  BY <1>1, LastOfGroup
<1>3. g \in GroupNumbers(p)
  BY <1>2, GroupsAreUsed
<1>4. m \in Slots /\ GroupOf(p, m) = g /\ l <= m
  BY <1>2, <1>3, GroupIsRun
<1>5. q.segment[m] = t[g] /\ q.segment[l] = t[g]
  BY <1>1, <1>2, <1>4
<1>6. EarliestEnd(q)[m] = SegmentStart[t[g]] + u[g]
  BY <1>3, MovedGroups
<1>7. t[g] \in Segments /\ u[g] <= SegmentMs[t[g]] /\ u[g] \in Int
  BY <1>3 DEF IsAssigned, HasRoomIn
<1> HIDE DEF l, g, m
<1>8. m <= l
  <2>1. GroupOf(q, m) = GroupOf(q, l)
    BY <1>1, <1>2, <1>4, <1>5, GroupsRise
  <2>2. QED
    BY <1>2, <1>4, <2>1
<1>9. m = l
  BY <1>2, <1>4, <1>8, Durations
<1>10. /\ SegmentEnd(t[g]) = SegmentStart[t[g]] + SegmentMs[t[g]]
       /\ SegmentStart[t[g]] \in Int /\ SegmentMs[t[g]] \in Int
  BY <1>7, SegmentEnds
<1>11. EarliestEnd(q)[l] <= SegmentEnd(t[g])
  BY <1>6, <1>7, <1>9, <1>10
<1>12. QED
  BY <1>2, <1>5, <1>11 DEF l

\* The anchors of a moved plan can be where they are.
LEMMA MovedKeepsAnchors ==
  ASSUME NEW p, InOrder(p), KeepsAnchors(p), NEW q, NEW t, NEW u, IsAssigned(p, t, u),
         IsMoved(p, q, t)
  PROVE  KeepsAnchors(q)
<1>1. /\ InOrder(q) /\ Anchored(q) = Anchored(p)
      /\ \A i \in Slots : AnchorStart(q, i) = AnchorStart(p, i)
      /\ \A i \in Slots : Follows(p, i) => Follows(q, i)
  BY MovedInOrder
<1>2. ASSUME NEW i \in Anchored(q) PROVE Ready(q, i) <= AnchorStart(p, i)
  <2> DEFINE g == GroupOf(p, i)
             a == FirstAnchor(p, g)
             f == FirstSlot(p, g)
             l == LastSlot(p, g)
             b == UsedBefore(Before(t, u, g), t[g])
             O == OutputStart
  <2>1. i \in Anchored(p) /\ i \in Slots
    BY <1>1 DEF Anchored
  <2>2. g \in GroupNumbers(p) /\ IsAnchoredGroup(p, g)
    BY <2>1, GroupsAreUsed DEF IsAnchoredGroup, Members
  <2>3. /\ a \in Anchored(p) /\ a \in Slots /\ f <= a /\ a <= l
        /\ \A j \in Anchored(p) : GroupOf(p, j) = g => a <= j
        /\ O[a] \in Int /\ AnchorStart(p, a) \in Int
        /\ PrefixRoom(p, g) = AnchorStart(p, a) - SegmentStart[SegmentOf(p, g)] - (O[a] - O[f])
    BY <2>2, AnchoredGroups
  <2>4. /\ f \in Slots /\ l \in Slots /\ f <= i /\ i <= l
        /\ \A j \in Slots : GroupOf(p, j) = g <=> f <= j /\ j <= l
    BY <2>1, <2>2, GroupIsRun
  <2>5. \A j \in (f + 1)..l : Follows(p, j) /\ Follows(q, j) /\ j \in Slots
    <3>1. \A j \in (f + 1)..l : j \in Slots
      BY <2>4, Durations
    <3>2. QED
      BY <1>1, <2>2, <3>1, GroupFollowing
  <2>6. Ready(q, f) = SegmentStart[t[g]] + b /\ b \in Int
    BY <2>2, MovedGroups, UsedBeforeIsNumber
  <2>7. t[g] = SegmentOf(p, g) /\ b <= PrefixRoom(p, g) /\ SegmentStart[t[g]] \in Int
    BY <2>2, SegmentEnds DEF IsAssigned, HasRoomIn
  <2>8. O[f] \in Int
    BY <2>2, <2>6, UsedIsNumber
  <2>9. a <= i
    BY <2>1, <2>3
  <2> HIDE DEF g, a, f, l, b, O
  <2>10. /\ a \in Nat /\ f \in Nat /\ l \in Nat /\ i \in Nat /\ f >= 1
    BY <2>1, <2>3, <2>4, Durations
  <2>11. CASE i = a /\ i = f
    BY <2>3, <2>6, <2>7, <2>8, <2>11
  <2>12. CASE i = a /\ i # f
    <3>1. i - 1 \in Slots /\ f <= i - 1 /\ i - 1 <= l /\ (i - 1) + 1 = i /\ i \in (f + 1)..l
      BY <2>1, <2>4, <2>10, <2>12, Durations
    <3>2. \A j \in f..(i - 1) : j \notin Anchored(q)
      <4> SUFFICES ASSUME NEW j \in f..(i - 1), j \in Anchored(p) PROVE FALSE
        BY <1>1
      <4>1. j \in Slots
        BY DEF Anchored
      <4>2. GroupOf(p, j) = g
        BY <2>4, <2>10, <4>1
      <4>3. i <= j
        BY <2>3, <2>12, <4>2
      <4>4. QED
        BY <2>10, <4>3
    <3>3. \A j \in (f + 1)..(i - 1) : Follows(q, j)
      <4>1. \A j \in (f + 1)..(i - 1) : j \in (f + 1)..l
        BY <2>10, <3>1
      <4>2. QED
        BY <2>5, <4>1
    <3>4. EarliestEnd(q)[i - 1] = Ready(q, f) + (O[i] - O[f])
      BY <1>1, <2>4, <3>1, <3>2, <3>3, EndsAlong DEF O
    <3>5. Ready(q, i) = EarliestEnd(q)[i - 1]
      BY <2>5, <3>1 DEF Ready
    <3>6. QED
      BY <2>3, <2>6, <2>7, <2>8, <2>12, <3>4, <3>5
  <2>13. CASE i # a
    <3>1. i - 1 \in Slots /\ a <= i - 1 /\ i \in (f + 1)..l /\ i - 1 <= l
      BY <2>1, <2>3, <2>4, <2>9, <2>10, <2>13, Durations
    <3>2. \A j \in (a + 1)..(i - 1) : Follows(p, j) /\ Follows(q, j)
      <4>1. \A j \in (a + 1)..(i - 1) : j \in (f + 1)..l
        BY <2>3, <2>10, <3>1
      <4>2. QED
        BY <2>5, <4>1
    <3>3. EarliestEnd(q)[i - 1] = EarliestEnd(p)[i - 1]
      <4>1. InOrder(q) /\ p.anchor = q.anchor
        BY <1>1 DEF IsMoved
      <4> DEFINE k == i - 1
      <4>2. k \in Slots /\ a <= k /\ \A j \in (a + 1)..k : Follows(p, j) /\ Follows(q, j)
        BY <3>1, <3>2
      <4> HIDE DEF k
      <4>3. EarliestEnd(q)[k] = EarliestEnd(p)[k]
        BY <2>3, <4>1, <4>2, EndsAfterAnchor
      <4>4. QED
        BY <4>3 DEF k
    <3>4. Ready(q, i) = EarliestEnd(q)[i - 1] /\ Ready(p, i) = EarliestEnd(p)[i - 1]
      BY <2>5, <3>1 DEF Ready
    <3>5. Ready(p, i) <= AnchorStart(p, i)
      BY <2>1, NoEarlier
    <3>6. QED
      BY <3>3, <3>4, <3>5
  <2>14. QED
    BY <2>11, <2>12, <2>13
<1>3. ASSUME NEW i \in Anchored(q)
      PROVE  /\ AnchorStart(q, i) >= Ready(q, i)
             /\ EarliestEnd(q)[LastOf(q, i)] <= SegmentEnd(q.segment[i])
  <2>1. i \in Slots
    BY DEF Anchored
  <2>2. Ready(q, i) \in Int /\ AnchorStart(p, i) \in Nat
    BY <1>1, <2>1, EarliestEnds, PictureTimes
  <2>3. AnchorStart(q, i) = AnchorStart(p, i) /\ Ready(q, i) <= AnchorStart(p, i)
    BY <1>1, <1>2, <2>1
  <2>4. AnchorStart(q, i) >= Ready(q, i)
    BY <2>2, <2>3
  <2>5. QED
    BY <2>1, <2>4, MovedEndsInSegment
<1>4. QED
  BY <1>3 DEF KeepsAnchors, Ready, Follows, LastOf

\* The groups of a moved plan have room in their segments.
LEMMA MovedIsLegal ==
  ASSUME NEW p, InOrder(p), KeepsAnchors(p), NEW q, NEW t, NEW u, IsAssigned(p, t, u),
         IsMoved(p, q, t)
  PROVE  ArrangementIsLegal(q) /\ KeepsAnchors(q)
<1>1. InOrder(q) /\ KeepsAnchors(q)
  BY MovedInOrder, MovedKeepsAnchors
<1>2. ASSUME NEW g \in GroupNumbers(q) PROVE GroupMs(q, g) <= SegmentMs[SegmentOf(q, g)]
  <2> DEFINE f == FirstSlot(q, g)
             l == LastSlot(q, g)
             s == SegmentOf(q, g)
             O == OutputStart
             E == EarliestEnd(q)
             S == {i \in f..l : SegmentStart[s] + (O[i + 1] - O[f]) <= E[i]}
  <2>1. /\ f \in Slots /\ l \in Slots /\ GroupOf(q, f) = g /\ GroupOf(q, l) = g
        /\ q.segment[l] = s /\ s \in Segments
        /\ (GroupOf(q, l) = g <=> f <= l /\ l <= l)
    BY <1>1, GroupIsRun
  <2>2. /\ \A i \in (f + 1)..l : Follows(q, i)
        /\ Ready(q, f) = SegmentStart[s]
    BY <1>1, GroupFollowing
  <2>3. E[l] <= SegmentEnd(s)
    <3>1. LastOf(q, l) = l
      BY <2>1 DEF LastOf, LastSlot
    <3>2. QED
      BY <2>1, <3>1, MovedEndsInSegment
  <2>4. /\ GroupMs(q, g) = O[l + 1] - O[f] /\ O[f] \in Int /\ O[l + 1] \in Int
    <3>1. 0 \in Int
      OBVIOUS
    <3>2. QED
      BY <1>1, <3>1, UsedIsNumber
  <2>5. /\ SegmentEnd(s) = SegmentStart[s] + SegmentMs[s]
        /\ SegmentStart[s] \in Int /\ SegmentMs[s] \in Int
    BY <2>1, SegmentEnds
  <2>6. /\ f \in Nat /\ l \in Nat /\ f <= l /\ f..l \subseteq Slots
    BY <2>1, Durations
  <2>7. \A i \in f..l : /\ SlotMs[i] \in Int /\ O[i + 1] \in Int
                        /\ O[i + 1] = O[i] + SlotMs[i] /\ O[i] \in Int
                        /\ Ready(q, i) + SlotMs[i] <= E[i] /\ Ready(q, i) \in Int /\ E[i] \in Int
    <3>1. ASSUME NEW i \in f..l
          PROVE  /\ SlotMs[i] \in Int /\ O[i + 1] \in Int
                 /\ O[i + 1] = O[i] + SlotMs[i] /\ O[i] \in Int
                 /\ Ready(q, i) + SlotMs[i] <= E[i] /\ Ready(q, i) \in Int /\ E[i] \in Int
      <4>1. i \in Slots /\ i \in 1..Len(SlotMs) + 1 /\ i + 1 \in 1..Len(SlotMs) + 1
        BY <2>6, Durations
      <4>2. O[i] \in Nat /\ O[i + 1] \in Nat /\ O[i + 1] = O[i] + SlotMs[i]
        BY <4>1, OutputTimes
      <4>3. SlotMs[i] \in Nat
        BY <4>1, Durations
      <4>4. Ready(q, i) + SlotMs[i] <= E[i] /\ Ready(q, i) \in Int /\ E[i] \in Int
        BY <1>1, <4>1, NoEarlier
      <4>5. QED
        BY <4>2, <4>3, <4>4
    <3>2. QED
      BY <3>1
  <2>8. \A i \in (f + 1)..l : Ready(q, i) = E[i - 1]
    BY <2>2 DEF Ready
  <2> HIDE DEF f, l, s, O, E
  <2>9. f..l \subseteq S
    <3>1. f \in S
      <4>1. f \in f..l
        BY <2>6
      <4>2. SegmentStart[s] + SlotMs[f] <= E[f] /\ O[f + 1] = O[f] + SlotMs[f]
        BY <2>2, <2>7, <4>1
      <4>3. SegmentStart[s] + (O[f + 1] - O[f]) <= E[f]
        BY <2>5, <2>7, <4>1, <4>2
      <4>4. QED
        BY <4>1, <4>3
    <3>2. ASSUME NEW i \in f..(l - 1), i \in S PROVE i + 1 \in S
      <4>1. i \in f..l /\ i + 1 \in f..l /\ i + 1 \in (f + 1)..l /\ (i + 1) - 1 = i
        BY <2>6
      <4>2. E[i] + SlotMs[i + 1] <= E[i + 1]
        BY <2>7, <2>8, <4>1
      <4>3. SegmentStart[s] + (O[i + 1] - O[f]) <= E[i]
        BY <3>2
      <4>4. /\ O[(i + 1) + 1] = O[i + 1] + SlotMs[i + 1]
            /\ O[(i + 1) + 1] \in Int /\ O[i + 1] \in Int /\ SlotMs[i + 1] \in Int
            /\ E[i] \in Int /\ E[i + 1] \in Int
        BY <2>7, <4>1
      <4>5. SegmentStart[s] + (O[(i + 1) + 1] - O[f]) <= E[i + 1]
        BY <2>4, <2>5, <4>2, <4>3, <4>4
      <4>6. QED
        BY <4>1, <4>5
    <3> HIDE DEF S
    <3>3. f \in Int /\ l \in Int
      BY <2>6
    <3>4. QED
      BY <3>1, <3>2, <3>3, Ascent
  <2>10. l \in f..l
    BY <2>6
  <2>11. SegmentStart[s] + (O[l + 1] - O[f]) <= E[l] /\ E[l] \in Int
    BY <2>7, <2>9, <2>10
  <2>12. GroupMs(q, g) <= SegmentMs[s]
    BY <2>3, <2>4, <2>5, <2>11
  <2>13. QED
    BY <2>12 DEF s
<1>3. QED
  BY <1>1, <1>2 DEF ArrangementIsLegal, InOrder

-----------------------------------------------------------------------------
(* What the assignment of a window finds. *)

\* What can be reached from the states X by giving group g a segment.
NextStates(p, l, r, unavailable, X, g) ==
  UNION {{<<s, UsedAfter(p, g, UsedBefore(x, s))>> : x \in {y \in X : HasRoomIn(p, g, y, s)}} :
           s \in SegmentsFor(p, l, r, g, unavailable)}

\* The states of groups l to k that lead to one another.
IsTrail(p, l, r, unavailable, h, k) ==
  /\ h[l - 1] = <<0, 0>>
  /\ \A g \in l..k :
       /\ h[g] \in Nat \X Int
       /\ h[g][1] \in SegmentsFor(p, l, r, g, unavailable)
       /\ HasRoomIn(p, g, h[g - 1], h[g][1])
       /\ h[g][2] = UsedAfter(p, g, UsedBefore(h[g - 1], h[g][1]))

\* States are pairs of numbers.
LEMMA StatesArePairs ==
  ASSUME NEW p, InOrder(p), NEW l, NEW r, NEW unavailable, NEW g \in GroupNumbers(p),
         NEW X \in SUBSET (Nat \X Int)
  PROVE  NextStates(p, l, r, unavailable, X, g) \in SUBSET (Nat \X Int)
<1> SUFFICES ASSUME NEW s \in SegmentsFor(p, l, r, g, unavailable), NEW x \in X
             PROVE  <<s, UsedAfter(p, g, UsedBefore(x, s))>> \in Nat \X Int
  BY DEF NextStates
<1>1. s \in Segments
  BY DEF SegmentsFor, SegmentsBetween
<1>2. s \in Nat
  BY <1>1, Durations
<1>3. x[2] \in Int
  OBVIOUS
<1>4. UsedBefore(x, s) \in Int
  BY <1>3 DEF UsedBefore
<1>5. UsedAfter(p, g, UsedBefore(x, s)) \in Int
  BY <1>4, UsedIsNumber
<1>6. QED
  BY <1>2, <1>5

\* The states of a window are what their definition says.
LEMMA AssignmentStates ==
  ASSUME NEW p, InOrder(p), NEW l \in GroupNumbers(p), NEW r \in GroupNumbers(p), l <= r,
         NEW unavailable
  PROVE  LET A == Assignments(p, l, r, unavailable)
         IN /\ A[l - 1] = {<<0, 0>>}
            /\ \A g \in l..r : /\ A[g] = NextStates(p, l, r, unavailable, A[g - 1], g)
                               /\ A[g] \in SUBSET (Nat \X Int)
<1> DEFINE A == Assignments(p, l, r, unavailable)
           T == SUBSET (Nat \X Int)
           V(i, X) == NextStates(p, l, r, unavailable, X, i)
           D(x) == IF x[2] \in l..r THEN V(x[2], x[1]) ELSE {}
           G == [x \in T \X Int |-> D(x)]
           m == l - 1
           c == {<<0, 0>>}
           B(e) == [g \in m..r |-> IF g = m THEN c ELSE V(g, e[g - 1])]
<1>1. /\ l \in Nat /\ r \in Nat /\ l..r \subseteq GroupNumbers(p) /\ m \in Int /\ r \in Int
      /\ m <= r /\ l = m + 1
  BY GroupsAreUsed DEF GroupNumbers
<1>2. \A i \in l..r : \A X \in T : V(i, X) \in T
  <2>1. ASSUME NEW i \in l..r, NEW X \in T PROVE V(i, X) \in T
    <3>1. i \in GroupNumbers(p)
      BY <1>1
    <3>2. QED
      BY <3>1, StatesArePairs
  <2>2. QED
    BY <2>1
<1>3. c \in T
  OBVIOUS
<1>4. A = CHOOSE e : e = B(e)
  BY DEF Assignments, NextStates
<1> HIDE DEF V, T, A
<1>5. G \in [T \X Int -> T]
  <2>1. ASSUME NEW x \in T \X Int PROVE D(x) \in T
    <3>1. x[1] \in T
      OBVIOUS
    <3>2. {} \in T
      BY DEF T
    <3>3. QED
      BY <1>2, <3>1, <3>2
  <2> HIDE DEF D
  <2>2. QED
    BY <2>1
<1>6. \A X \in T, i \in l..r : G[<<X, i>>] = V(i, X)
  <2> SUFFICES ASSUME NEW X \in T, NEW i \in l..r PROVE G[<<X, i>>] = V(i, X)
    OBVIOUS
  <2>1. <<X, i>> \in T \X Int
    BY <1>1
  <2>2. G[<<X, i>>] = D(<<X, i>>)
    BY <2>1
  <2>3. <<X, i>>[1] = X /\ <<X, i>>[2] = i
    OBVIOUS
  <2>4. QED
    BY <2>2, <2>3
<1> HIDE DEF G, c, m
<1>7. PICK h \in [m..r -> T] : Rises(h, m, r, c, G)
  BY <1>1, <1>3, <1>5, UpwardRecursion
<1>8. \A g \in m..r : h[g] = IF g = m THEN c ELSE V(g, h[g - 1])
  <2> SUFFICES ASSUME NEW g \in m..r
               PROVE  h[g] = IF g = m THEN c ELSE V(g, h[g - 1])
    OBVIOUS
  <2>1. h[g] = IF g = m THEN c ELSE G[<<h[g - 1], g>>]
    BY <1>7 DEF Rises
  <2>2. CASE g = m
    BY <2>1, <2>2
  <2>3. CASE g # m
    <3>1. g - 1 \in m..r /\ g \in l..r
      BY <1>1, <2>3
    <3>2. h[g - 1] \in T
      BY <1>7, <3>1
    <3>3. G[<<h[g - 1], g>>] = V(g, h[g - 1])
      BY <1>6, <3>1, <3>2
    <3>4. QED
      BY <2>1, <2>3, <3>3
  <2>4. QED
    BY <2>2, <2>3
<1>9. h = B(h)
  BY <1>7, <1>8
<1>10. A = B(A)
  <2> HIDE DEF B
  <2>1. \E e : e = B(e)
    BY <1>9
  <2>2. QED
    BY <1>4, <2>1
<1>11. \A g \in m..r : A[g] = IF g = m THEN c ELSE V(g, A[g - 1])
  <2>1. ASSUME NEW g \in m..r PROVE B(A)[g] = IF g = m THEN c ELSE V(g, A[g - 1])
    OBVIOUS
  <2> HIDE DEF B
  <2>2. QED
    BY <1>10, <2>1
<1> HIDE DEF B
<1> DEFINE S == {g \in m..r : A[g] \in T}
<1>12. m..r \subseteq S
  <2>1. m \in S
    BY <1>1, <1>3, <1>11
  <2>2. ASSUME NEW g \in m..(r - 1), g \in S PROVE g + 1 \in S
    <3>1. g + 1 \in m..r /\ g + 1 \in l..r /\ (g + 1) - 1 = g /\ g + 1 # m
      BY <1>1
    <3>2. A[g + 1] = V(g + 1, A[g])
      BY <1>11, <3>1
    <3>3. QED
      BY <1>2, <2>2, <3>1, <3>2
  <2> HIDE DEF S
  <2>3. QED
    BY <1>1, <2>1, <2>2, Ascent
<1>13. A[m] = c
  BY <1>1, <1>11
<1>14. \A g \in l..r : A[g] = V(g, A[g - 1]) /\ A[g] \in T
  <2>1. \A g \in l..r : g \in m..r /\ g # m
    BY <1>1
  <2>2. QED
    BY <1>11, <1>12, <2>1
<1>15. QED
  BY <1>13, <1>14 DEF V, T, A, c, m

\* Where a window can be assigned, some states lead from its beginning to its end.
LEMMA TrailExists ==
  ASSUME NEW p, InOrder(p), NEW l \in GroupNumbers(p), NEW r \in GroupNumbers(p), l <= r,
         NEW unavailable, Assignable(p, l, r, unavailable)
  PROVE  \E h : IsTrail(p, l, r, unavailable, h, r)
<1> DEFINE A == Assignments(p, l, r, unavailable)
           m == l - 1
           Trails(k, x) == \E h : IsTrail(p, l, r, unavailable, h, k) /\ h[k] = x
           S == {k \in m..r : \A x \in A[k] : Trails(k, x)}
<1>1. l \in Nat /\ r \in Nat /\ m \in Int /\ r \in Int /\ m <= r /\ l = m + 1
  BY GroupsAreUsed DEF GroupNumbers
<1>2. /\ A[m] = {<<0, 0>>}
      /\ \A g \in l..r : /\ A[g] = NextStates(p, l, r, unavailable, A[g - 1], g)
                         /\ A[g] \in SUBSET (Nat \X Int)
  BY AssignmentStates
<1> HIDE DEF A
<1>3. m \in S
  <2>1. Trails(m, <<0, 0>>)
    <3> DEFINE h == [k \in m..r |-> <<0, 0>>]
    <3>1. h[m] = <<0, 0>>
      BY <1>1
    <3> HIDE DEF h
    <3>2. \A g \in l..m : FALSE
      BY <1>1
    <3>3. IsTrail(p, l, r, unavailable, h, m)
      BY <3>1, <3>2 DEF IsTrail
    <3>4. QED
      BY <3>1, <3>3
  <2> HIDE DEF Trails
  <2>2. QED
    BY <1>1, <1>2, <2>1
<1>4. ASSUME NEW k \in m..(r - 1), k \in S PROVE k + 1 \in S
  <2>1. k \in Int /\ k + 1 \in l..r /\ k + 1 \in m..r /\ (k + 1) - 1 = k /\ m <= k
    BY <1>1
  <2>2. ASSUME NEW x \in A[k + 1] PROVE Trails(k + 1, x)
    <3>1. x \in NextStates(p, l, r, unavailable, A[k], k + 1) /\ x \in Nat \X Int
      BY <1>2, <2>1
    <3>2. PICK s \in SegmentsFor(p, l, r, k + 1, unavailable) :
             \E y \in A[k] : /\ HasRoomIn(p, k + 1, y, s)
                             /\ x = <<s, UsedAfter(p, k + 1, UsedBefore(y, s))>>
      BY <3>1 DEF NextStates
    <3>3. PICK y \in A[k] : /\ HasRoomIn(p, k + 1, y, s)
                            /\ x = <<s, UsedAfter(p, k + 1, UsedBefore(y, s))>>
      BY <3>2
    <3>4. PICK h : IsTrail(p, l, r, unavailable, h, k) /\ h[k] = y
      BY <1>4
    <3> DEFINE n == [g \in m..(k + 1) |-> IF g = k + 1 THEN x ELSE h[g]]
    <3>5. n[k + 1] = x /\ \A g \in m..k : n[g] = h[g]
      BY <2>1
    <3> HIDE DEF n
    <3>6. n[l - 1] = <<0, 0>>
      BY <1>1, <2>1, <3>4, <3>5 DEF IsTrail
    <3>7. ASSUME NEW g \in l..(k + 1)
          PROVE  /\ n[g] \in Nat \X Int
                 /\ n[g][1] \in SegmentsFor(p, l, r, g, unavailable)
                 /\ HasRoomIn(p, g, n[g - 1], n[g][1])
                 /\ n[g][2] = UsedAfter(p, g, UsedBefore(n[g - 1], n[g][1]))
      <4>1. CASE g = k + 1
        <5>1. n[g - 1] = y /\ n[g] = x
          BY <2>1, <3>4, <3>5, <4>1
        <5>2. n[g][1] = s /\ n[g][2] = UsedAfter(p, k + 1, UsedBefore(y, s))
          BY <3>3, <5>1
        <5>3. QED
          BY <3>1, <3>3, <4>1, <5>1, <5>2
      <4>2. CASE g # k + 1
        <5>1. g \in l..k /\ g \in m..k /\ g - 1 \in m..k
          BY <1>1, <2>1, <4>2
        <5>2. n[g] = h[g] /\ n[g - 1] = h[g - 1]
          BY <3>5, <5>1
        <5>3. QED
          BY <3>4, <5>1, <5>2 DEF IsTrail
      <4>3. QED
        BY <4>1, <4>2
    <3>8. IsTrail(p, l, r, unavailable, n, k + 1)
      BY <3>6, <3>7 DEF IsTrail
    <3>9. QED
      BY <3>5, <3>8
  <2>3. QED
    BY <2>1, <2>2
<1>5. m..r \subseteq S
  <2> HIDE DEF S
  <2>1. QED
    BY <1>1, <1>3, <1>4, Ascent
<1>6. r \in S
  BY <1>1, <1>5
<1>7. A[r] # {}
  BY DEF Assignable, A
<1>8. QED
  BY <1>6, <1>7

-----------------------------------------------------------------------------
(* The windows that are chosen. *)

\* The first windows are made of groups.
LEMMA FirstWindowsAreGroups ==
  ASSUME NEW p, InOrder(p), NEW failed \in SUBSET GroupNumbers(p), NEW unavailable
  PROVE  FirstWindows(p, failed, unavailable) \in SUBSET GroupNumbers(p)
<1> DEFINE n == GroupOf(p, Len(SlotMs))
           left(w) == {g \in failed : g < w[1]}
           right(w) == {g \in failed : g > w[2]}
           minLeft(w) == IF left(w) = {} THEN 1 ELSE Greatest(left(w)) + 1
           maxRight(w) == IF right(w) = {} THEN n ELSE Least(right(w)) - 1
           widened(w, e) ==
             <<IF w[1] - e < minLeft(w) THEN minLeft(w) ELSE w[1] - e,
               IF w[2] + e > maxRight(w) THEN maxRight(w) ELSE w[2] + e>>
           enough(w) == {e \in 0..Len(SlotMs) :
                           Assignable(p, widened(w, e)[1], widened(w, e)[2], unavailable)}
           width(w) == IF enough(w) = {} THEN Len(SlotMs) ELSE Least(enough(w))
<1>1. FirstWindows(p, failed, unavailable)
        = UNION {widened(w, width(w))[1]..widened(w, width(w))[2] : w \in WindowsOf(failed)}
  BY DEF FirstWindows
<1>2. n \in Nat /\ GroupNumbers(p) = 1..n /\ Len(SlotMs) \in Nat
  BY GroupsAreUsed, Durations DEF GroupNumbers
<1> HIDE DEF n
<1>3. ASSUME NEW w \in WindowsOf(failed)
      PROVE  widened(w, width(w))[1]..widened(w, width(w))[2] \in SUBSET (1..n)
  <2>1. w[1] \in Int /\ w[2] \in Int
    BY <1>2, RunFields
  <2>2. minLeft(w) \in Int /\ minLeft(w) >= 1
    <3>1. CASE left(w) = {}
      BY <3>1
    <3>2. CASE left(w) # {}
      <4>1. left(w) \in SUBSET (1..n) /\ 1 \in Int /\ n \in Int
        BY <1>2
      <4> DEFINE L == left(w)
      <4> HIDE DEF left
      <4>2. Greatest(L) \in L
        BY <3>2, <4>1, GreatestNumber
      <4>3. Greatest(left(w)) \in 1..n
        BY <4>1, <4>2
      <4>4. QED
        BY <3>2, <4>3
    <3>3. QED
      BY <3>1, <3>2
  <2>3. maxRight(w) \in Int /\ maxRight(w) <= n
    <3>1. CASE right(w) = {}
      BY <1>2, <3>1
    <3>2. CASE right(w) # {}
      <4>1. right(w) \in SUBSET (1..n) /\ right(w) \in SUBSET Nat
        BY <1>2
      <4> HIDE DEF right
      <4>2. Least(right(w)) \in right(w)
        BY <3>2, <4>1, LeastNumber
      <4>3. Least(right(w)) \in 1..n
        BY <4>1, <4>2
      <4>4. QED
        BY <1>2, <3>2, <4>3
    <3>3. QED
      BY <3>1, <3>2
  <2>4. width(w) \in Int
    <3>1. enough(w) \in SUBSET Nat
      BY <1>2
    <3> HIDE DEF enough
    <3>2. enough(w) # {} => Least(enough(w)) \in enough(w)
      BY <3>1, LeastNumber
    <3>3. QED
      BY <1>2, <3>1, <3>2
  <2> HIDE DEF width, minLeft, maxRight
  <2>5. /\ widened(w, width(w))[1] \in Int /\ widened(w, width(w))[1] >= 1
        /\ widened(w, width(w))[2] \in Int /\ widened(w, width(w))[2] <= n
    <3>1. /\ widened(w, width(w))[1] = IF w[1] - width(w) < minLeft(w) THEN minLeft(w)
                                       ELSE w[1] - width(w)
          /\ widened(w, width(w))[2] = IF w[2] + width(w) > maxRight(w) THEN maxRight(w)
                                       ELSE w[2] + width(w)
      OBVIOUS
    <3> HIDE DEF widened
    <3>2. widened(w, width(w))[1] \in Int /\ widened(w, width(w))[1] >= 1
      BY <2>1, <2>2, <2>4, <3>1
    <3>3. widened(w, width(w))[2] \in Int /\ widened(w, width(w))[2] <= n
      BY <1>2, <2>1, <2>3, <2>4, <3>1
    <3>4. QED
      BY <3>2, <3>3
  <2> HIDE DEF widened
  <2>6. QED
    BY <1>2, <2>5
<1> HIDE DEF widened, width
<1>4. QED
  BY <1>1, <1>2, <1>3

\* A window that is chosen is made of groups, and can be assigned.
LEMMA RepairWindowIsAssignable ==
  ASSUME NEW p, InOrder(p), NEW failed \in SUBSET GroupNumbers(p), NEW unavailable,
         RepairWindow(p, failed, unavailable) # {}
  PROVE  LET W == RepairWindow(p, failed, unavailable)
         IN /\ W \in SUBSET GroupNumbers(p)
            /\ \A w \in WindowsOf(W) : Assignable(p, w[1], w[2], unavailable)
<1> DEFINE T == SUBSET GroupNumbers(p)
           N == Len(SlotMs)
           c == FirstWindows(p, failed, unavailable)
           grown(W) == W \cup UNION {(w[1] - 1)..(w[2] + 1) \cap GroupNumbers(p) :
                         w \in {v \in WindowsOf(W) : ~Assignable(p, v[1], v[2], unavailable)}}
           B(e) == [n \in 0..N |-> IF n = 0 THEN c ELSE grown(e[n - 1])]
           R == CHOOSE e : e = B(e)
           G == [x \in T \X Int |-> grown(x[1])]
<1>1. RepairWindow(p, failed, unavailable)
        = IF \A w \in WindowsOf(R[N]) : Assignable(p, w[1], w[2], unavailable) THEN R[N] ELSE {}
  BY DEF RepairWindow
<1>2. N \in Nat /\ 0 \in Int /\ N \in Int /\ c \in T
  BY Durations, FirstWindowsAreGroups
<1>3. \A W \in T : grown(W) \in T
  OBVIOUS
<1> HIDE DEF grown, T, c, N
<1>4. G \in [T \X Int -> T] /\ \A W \in T, n \in Int : G[<<W, n>>] = grown(W)
  <2>1. \A x \in T \X Int : x[1] \in T /\ grown(x[1]) \in T
    BY <1>3
  <2>2. G \in [T \X Int -> T]
    BY <2>1
  <2>3. ASSUME NEW W \in T, NEW n \in Int PROVE G[<<W, n>>] = grown(W)
    <3>1. <<W, n>> \in T \X Int /\ <<W, n>>[1] = W
      OBVIOUS
    <3>2. QED
      BY <3>1
  <2>4. QED
    BY <2>2, <2>3
<1> HIDE DEF G
<1>5. PICK h \in [0..N -> T] : Rises(h, 0, N, c, G)
  BY <1>2, <1>4, UpwardRecursion
<1>6. \A n \in 0..N : h[n] = IF n = 0 THEN c ELSE grown(h[n - 1])
  <2> SUFFICES ASSUME NEW n \in 0..N PROVE h[n] = IF n = 0 THEN c ELSE grown(h[n - 1])
    OBVIOUS
  <2>1. h[n] = IF n = 0 THEN c ELSE G[<<h[n - 1], n>>]
    BY <1>5 DEF Rises
  <2>2. n # 0 => h[n - 1] \in T /\ n \in Int
    <3>1. n # 0 => n - 1 \in 0..N
      BY <1>2
    <3>2. QED
      BY <1>5, <3>1
  <2>3. QED
    BY <1>4, <2>1, <2>2
<1>7. h = B(h)
  BY <1>5, <1>6
<1>8. R = B(R)
  <2> HIDE DEF B
  <2>1. \E e : e = B(e)
    BY <1>7
  <2>2. QED
    BY <2>1
<1> HIDE DEF R
<1>9. \A n \in 0..N : R[n] = IF n = 0 THEN c ELSE grown(R[n - 1])
  <2>1. ASSUME NEW n \in 0..N PROVE B(R)[n] = IF n = 0 THEN c ELSE grown(R[n - 1])
    OBVIOUS
  <2> HIDE DEF B
  <2>2. QED
    BY <1>8, <2>1
<1> DEFINE S == {n \in 0..N : R[n] \in T}
<1>10. 0..N \subseteq S
  <2>1. 0 \in S
    BY <1>2, <1>9
  <2>2. ASSUME NEW n \in 0..(N - 1), n \in S PROVE n + 1 \in S
    <3>1. n + 1 \in 0..N /\ (n + 1) - 1 = n /\ n + 1 # 0
      BY <1>2
    <3>2. QED
      BY <1>3, <1>9, <2>2, <3>1
  <2> HIDE DEF S
  <2>3. QED
    BY <1>2, <2>1, <2>2, Ascent
<1>11. R[N] \in T
  BY <1>2, <1>10
<1>12. QED
  BY <1>1, <1>11 DEF T

\* Nothing is used of a segment that begins after the one before.
LEMMA NothingUsedYet ==
  ASSUME NEW p, NEW g, NEW s \in Nat, NEW a, NEW b, a <= s, a # s,
         HasRoomIn(p, g, <<0, 0>>, s)
  PROVE  /\ HasRoomIn(p, g, <<a, b>>, s)
         /\ UsedBefore(<<a, b>>, s) = UsedBefore(<<0, 0>>, s)
<1>1. UsedBefore(<<a, b>>, s) = 0 /\ UsedBefore(<<0, 0>>, s) = 0
  BY DEF UsedBefore
<1>2. <<a, b>>[1] <= s
  OBVIOUS
<1>3. QED
  BY <1>1, <1>2 DEF HasRoomIn

\* When all windows of W can be assigned, the groups can be put in segments, those
\* of W in new ones.
LEMMA AssignmentExists ==
  ASSUME NEW p, IsAnchored(p), NEW W \in SUBSET GroupNumbers(p), NEW unavailable,
         \A w \in WindowsOf(W) : Assignable(p, w[1], w[2], unavailable)
  PROVE  \E t, u :
           /\ IsAssigned(p, t, u)
           /\ \A g \in W :
                t[g] \in SegmentsFor(p, RunOf(W, g)[1], RunOf(W, g)[2], g, unavailable)
           /\ \A g \in GroupNumbers(p) \ W : t[g] = SegmentOf(p, g)
<1> DEFINE N == GroupNumbers(p)
           Trail(w, h) == IsTrail(p, w[1], w[2], unavailable, h, w[2])
           H(w) == CHOOSE h : Trail(w, h)
           t == [g \in N |-> IF g \in W THEN H(RunOf(W, g))[g][1] ELSE SegmentOf(p, g)]
           u == [g \in N |-> IF g \in W THEN H(RunOf(W, g))[g][2] ELSE UsedAfter(p, g, 0)]
           n == GroupOf(p, Len(SlotMs))
           F(g) == SegmentsFor(p, RunOf(W, g)[1], RunOf(W, g)[2], g, unavailable)
<1>1. InOrder(p) /\ n \in Nat /\ N = 1..n
  BY ArrangedInOrder, GroupsAreUsed DEF IsAnchored, GroupNumbers
<1> HIDE DEF n, N
<1>2. ASSUME NEW w \in WindowsOf(W) PROVE Trail(w, H(w))
  <2>1. W \in SUBSET (1..n)
    BY <1>1 DEF N
  <2>2. w[1] \in 1..n /\ w[2] \in 1..n /\ w[1] <= w[2]
    BY <1>1, <2>1, RunFields
  <2>3. w[1] \in GroupNumbers(p) /\ w[2] \in GroupNumbers(p)
    BY <1>1, <2>2 DEF N
  <2>4. \E h : Trail(w, h)
    BY <1>1, <2>2, <2>3, TrailExists
  <2> HIDE DEF Trail
  <2>5. QED
    BY <2>4
<1>3. \A g \in W : /\ g \in N /\ g \in Nat
                   /\ t[g] = H(RunOf(W, g))[g][1] /\ u[g] = H(RunOf(W, g))[g][2]
  BY <1>1 DEF N
<1>4. \A g \in N \ W : t[g] = SegmentOf(p, g) /\ u[g] = UsedAfter(p, g, 0)
  OBVIOUS
<1> HIDE DEF t, u, H
\* What the trail of its run says of a group of W.
<1>5. ASSUME NEW g \in W
      PROVE  LET w == RunOf(W, g)
                 x == H(w)[g - 1]
             IN /\ w \in WindowsOf(W) /\ w[1] <= g /\ g <= w[2]
                /\ t[g] \in F(g) /\ t[g] \in Segments /\ t[g] \in Nat /\ u[g] \in Int
                /\ HasRoomIn(p, g, x, t[g])
                /\ u[g] = UsedAfter(p, g, UsedBefore(x, t[g]))
                /\ g - 1 \in W => x = <<t[g - 1], u[g - 1]>>
                /\ g - 1 \notin W => w[1] = g /\ x = <<0, 0>>
                /\ g + 1 \notin W => w[2] = g
  <2> DEFINE w == RunOf(W, g)
             h == H(w)
  <2>1. W \in SUBSET (1..n) /\ g \in Nat
    BY <1>1 DEF N
  <2>2. /\ w \in WindowsOf(W) /\ g \in w[1]..w[2]
        /\ g - 1 \in W => RunOf(W, g - 1) = w /\ g - 1 \in w[1]..w[2]
        /\ g - 1 \notin W => w[1] = g
        /\ g + 1 \notin W => w[2] = g
    BY <1>1, <2>1, RunOfNumber
  <2>3. IsTrail(p, w[1], w[2], unavailable, h, w[2])
    BY <1>2, <2>2
  <2>4. w[1] \in Int /\ w[2] \in Int
    BY <1>1, <2>1, <2>2, RunFields
  <2>5. t[g] = h[g][1] /\ u[g] = h[g][2]
    BY <1>3
  <2>6. g - 1 \in W => t[g - 1] = h[g - 1][1] /\ u[g - 1] = h[g - 1][2]
    BY <1>3, <2>2
  <2> HIDE DEF w, h
  <2>7. /\ h[g] \in Nat \X Int
        /\ h[g][1] \in SegmentsFor(p, w[1], w[2], g, unavailable)
        /\ HasRoomIn(p, g, h[g - 1], h[g][1])
        /\ h[g][2] = UsedAfter(p, g, UsedBefore(h[g - 1], h[g][1]))
    BY <2>2, <2>3 DEF IsTrail
  <2>8. g - 1 \in W => h[g - 1] = <<t[g - 1], u[g - 1]>>
    <3> SUFFICES ASSUME g - 1 \in W PROVE h[g - 1] = <<t[g - 1], u[g - 1]>>
      OBVIOUS
    <3>1. h[g - 1] \in Nat \X Int
      BY <2>2, <2>3 DEF IsTrail
    <3>2. QED
      BY <2>6, <3>1
  <2>9. g - 1 \notin W => h[g - 1] = <<0, 0>>
    BY <2>2, <2>3 DEF IsTrail
  <2>10. t[g] \in Segments /\ t[g] \in Nat /\ u[g] \in Int
    <3>1. t[g] \in Segments
      BY <2>5, <2>7 DEF SegmentsFor, SegmentsBetween
    <3>2. QED
      BY <2>5, <2>7, <3>1
  <2>11. t[g] \in F(g)
    BY <2>5, <2>7 DEF w
  <2>12. w[1] <= g /\ g <= w[2]
    BY <2>2, <2>4
  <2>13. QED
    BY <2>2, <2>5, <2>7, <2>8, <2>9, <2>10, <2>11, <2>12 DEF w, h
<1>6. \A g \in W : t[g] \in F(g)
  BY <1>5
\* A group of W is put after the group before it.
<1>7. ASSUME NEW g \in W
      PROVE  /\ HasRoomIn(p, g, Before(t, u, g), t[g])
             /\ u[g] = UsedAfter(p, g, UsedBefore(Before(t, u, g), t[g]))
  <2> DEFINE x == H(RunOf(W, g))[g - 1]
  <2>1. /\ t[g] \in F(g) /\ t[g] \in Nat
        /\ HasRoomIn(p, g, x, t[g]) /\ u[g] = UsedAfter(p, g, UsedBefore(x, t[g]))
        /\ g - 1 \in W => x = <<t[g - 1], u[g - 1]>>
        /\ g - 1 \notin W => RunOf(W, g)[1] = g /\ x = <<0, 0>>
    BY <1>5
  <2>2. g \in Nat /\ g >= 1 /\ g \in N /\ 0 \notin N
    BY <1>1 DEF N
  <2>3. CASE g = 1
    <3>1. g - 1 = 0 /\ 0 \notin W
      BY <2>2, <2>3 DEF N
    <3>2. x = <<0, 0>> /\ Before(t, u, g) = <<0, 0>>
      BY <2>1, <2>3, <3>1 DEF Before
    <3>3. QED
      BY <2>1, <3>2
  <2>4. CASE g # 1 /\ g - 1 \in W
    <3>1. Before(t, u, g) = x
      BY <2>1, <2>4 DEF Before
    <3>2. QED
      BY <2>1, <3>1
  <2>5. CASE g # 1 /\ g - 1 \notin W
    <3>1. Before(t, u, g) = <<t[g - 1], u[g - 1]>> /\ x = <<0, 0>> /\ RunOf(W, g)[1] = g
      BY <2>1, <2>5 DEF Before
    <3>2. g - 1 \in N
      BY <1>1, <2>2, <2>5
    <3>3. t[g - 1] = SegmentOf(p, g - 1)
      BY <1>4, <2>5, <3>2
    <3>4. t[g] \in SegmentsBetween(p, g, RunOf(W, g)[2])
      BY <2>1, <3>1 DEF SegmentsFor
    <3>5. g > 1
      BY <2>2, <2>5
    <3>6. t[g - 1] < t[g]
      BY <3>3, <3>4, <3>5 DEF SegmentsBetween
    <3>7. t[g - 1] \in Nat
      <4>1. SegmentOf(p, g - 1) \in Segments
        BY <1>1, <3>2, GroupIsRun DEF N
      <4>2. QED
        BY <3>3, <4>1, Durations
    <3>8. t[g - 1] <= t[g] /\ t[g - 1] # t[g]
      BY <2>1, <3>6, <3>7
    <3>9. HasRoomIn(p, g, <<0, 0>>, t[g]) /\ u[g] = UsedAfter(p, g, UsedBefore(<<0, 0>>, t[g]))
      BY <2>1, <3>1
    <3>10. /\ HasRoomIn(p, g, <<t[g - 1], u[g - 1]>>, t[g])
           /\ UsedBefore(<<t[g - 1], u[g - 1]>>, t[g]) = UsedBefore(<<0, 0>>, t[g])
      BY <2>1, <3>8, <3>9, NothingUsedYet
    <3>11. QED
      BY <3>1, <3>9, <3>10
  <2>6. QED
    BY <2>3, <2>4, <2>5
\* A group that stays is in a later segment than the group before it.
<1>8. ASSUME NEW g \in N \ W
      PROVE  /\ t[g] \in Segments /\ u[g] \in Int
             /\ HasRoomIn(p, g, Before(t, u, g), t[g])
             /\ u[g] = UsedAfter(p, g, UsedBefore(Before(t, u, g), t[g]))
  <2>1. t[g] = SegmentOf(p, g) /\ u[g] = UsedAfter(p, g, 0) /\ g \in Nat /\ g >= 1
    BY <1>1, <1>4
  <2>2. t[g] \in Segments /\ t[g] \in Nat
    <3>1. SegmentOf(p, g) \in Segments
      BY <1>1, GroupIsRun DEF N
    <3>2. QED
      BY <2>1, <3>1, Durations
  <2>3. u[g] \in Int
    <3>1. 0 \in Int
      OBVIOUS
    <3>2. UsedAfter(p, g, 0) \in Int
      BY <1>1, <3>1, UsedIsNumber DEF N
    <3>3. QED
      BY <2>1, <3>2
  <2>4. HasRoomIn(p, g, <<0, 0>>, t[g]) /\ UsedBefore(<<0, 0>>, t[g]) = 0
    <3>1. HasRoomIn(p, g, <<0, 0>>, SegmentOf(p, g))
      BY UnmovedHasRoom DEF N
    <3>2. QED
      BY <2>1, <3>1 DEF UsedBefore
  <2>5. CASE g = 1
    <3>1. Before(t, u, g) = <<0, 0>>
      BY <2>5 DEF Before
    <3>2. QED
      BY <2>1, <2>2, <2>3, <2>4, <3>1
  <2>6. CASE g # 1
    <3>1. Before(t, u, g) = <<t[g - 1], u[g - 1]>> /\ g - 1 \in N
      BY <1>1, <2>1, <2>6 DEF Before
    <3>2. SegmentOf(p, g - 1) < SegmentOf(p, g) /\ SegmentOf(p, g - 1) \in Segments
      BY <1>1, <2>6, <3>1, GroupFollows, GroupIsRun DEF N
    <3>3. t[g - 1] < t[g] /\ t[g - 1] \in Nat
      <4>1. CASE g - 1 \in W
        <5> DEFINE w == RunOf(W, g - 1)
        <5>1. (g - 1) + 1 = g
          BY <2>1
        <5>2. w[2] = g - 1 /\ t[g - 1] \in F(g - 1) /\ t[g - 1] \in Nat
          BY <1>5, <4>1, <5>1
        <5>3. t[g - 1] \in SegmentsBetween(p, w[1], g - 1)
          BY <5>2 DEF SegmentsFor
        <5>4. t[g - 1] < SegmentOf(p, g)
          BY <5>1, <5>3 DEF SegmentsBetween, N
        <5>5. QED
          BY <2>1, <5>2, <5>4
      <4>2. CASE g - 1 \notin W
        <5>1. t[g - 1] = SegmentOf(p, g - 1)
          BY <1>4, <3>1, <4>2
        <5>2. QED
          BY <2>1, <3>2, <5>1, Durations
      <4>3. QED
        BY <4>1, <4>2
    <3>4. t[g - 1] <= t[g] /\ t[g - 1] # t[g]
      BY <2>2, <3>3
    <3>5. /\ HasRoomIn(p, g, <<t[g - 1], u[g - 1]>>, t[g])
          /\ UsedBefore(<<t[g - 1], u[g - 1]>>, t[g]) = UsedBefore(<<0, 0>>, t[g])
      BY <2>2, <2>4, <3>4, NothingUsedYet
    <3>6. QED
      BY <2>1, <2>2, <2>3, <2>4, <3>1, <3>5
  <2>7. QED
    BY <2>5, <2>6
<1>9. ASSUME NEW g \in N, IsAnchoredGroup(p, g) PROVE t[g] = SegmentOf(p, g)
  BY <1>4, <1>6, <1>9 DEF SegmentsFor
<1>10. IsAssigned(p, t, u)
  <2>1. ASSUME NEW g \in N
        PROVE  /\ t[g] \in Segments /\ u[g] \in Int
               /\ IsAnchoredGroup(p, g) => t[g] = SegmentOf(p, g)
               /\ HasRoomIn(p, g, Before(t, u, g), t[g])
               /\ u[g] = UsedAfter(p, g, UsedBefore(Before(t, u, g), t[g]))
    BY <1>5, <1>7, <1>8, <1>9
  <2>2. QED
    BY <2>1 DEF IsAssigned, N
<1>11. QED
  BY <1>4, <1>6, <1>10 DEF N

\* When the window of a repair is not empty, some redesign of it is accepted.
LEMMA RepairExists ==
  ASSUME NEW p, IsAnchored(p), NEW failed \in SUBSET GroupNumbers(p), NEW unavailable,
         RepairWindow(p, failed, unavailable) # {}
  PROVE  Redesigns(p, RepairWindow(p, failed, unavailable), unavailable) # {}
<1> DEFINE W == RepairWindow(p, failed, unavailable)
<1>1. p \in Plans /\ InOrder(p) /\ KeepsAnchors(p)
  BY ArrangedInOrder, AnchoredKeeps DEF IsAnchored, IsArranged
<1>2. /\ W \in SUBSET GroupNumbers(p)
      /\ \A w \in WindowsOf(W) : Assignable(p, w[1], w[2], unavailable)
  BY <1>1, RepairWindowIsAssignable
<1> HIDE DEF W
<1>3. PICK t, u :
        /\ IsAssigned(p, t, u)
        /\ \A g \in W : t[g] \in SegmentsFor(p, RunOf(W, g)[1], RunOf(W, g)[2], g, unavailable)
        /\ \A g \in GroupNumbers(p) \ W : t[g] = SegmentOf(p, g)
  BY <1>2, AssignmentExists
<1> DEFINE f == [g \in W |-> t[g]]
           s == [i \in Slots |-> IF GroupOf(p, i) \in W THEN f[GroupOf(p, i)] ELSE p.segment[i]]
           c == p.contents
           q == [Moved(p, W, f) EXCEPT !.contents = c]
<1>4. f \in [W -> Segments]
  <2>1. \A g \in W : t[g] \in Segments
    BY <1>2, <1>3 DEF IsAssigned
  <2>2. QED
    BY <2>1
<1>5. \A g \in W : f[g] \in SegmentsFor(p, RunOf(W, g)[1], RunOf(W, g)[2], g, unavailable)
  BY <1>3
<1>6. s = [i \in Slots |-> t[GroupOf(p, i)]]
  <2>1. ASSUME NEW i \in Slots PROVE s[i] = t[GroupOf(p, i)]
    <3>1. GroupOf(p, i) \in GroupNumbers(p)
      BY <1>1, GroupsAreUsed
    <3>2. CASE GroupOf(p, i) \in W
      BY <3>2
    <3>3. CASE GroupOf(p, i) \notin W
      <4>1. p.segment[i] = SegmentOf(p, GroupOf(p, i))
        BY <1>1, <3>1, GroupIsRun
      <4>2. QED
        BY <1>3, <3>1, <3>3, <4>1
    <3>4. QED
      BY <3>2, <3>3
  <2>2. QED
    BY <2>1
<1>7. Moved(p, W, f) = [p EXCEPT !.segment = s]
  BY DEF Moved
<1>8. c \in [Slots -> Contents]
  BY <1>1, PlanFields
<1> HIDE DEF f, s, c
<1>9. q.segment = s /\ q.anchor = p.anchor
  <2>1. p = [segment |-> p.segment, contents |-> c, anchor |-> p.anchor, groups |-> p.groups]
    BY <1>1, PlanFields DEF c
  <2>2. Moved(p, W, f)
          = [segment |-> s, contents |-> c, anchor |-> p.anchor, groups |-> p.groups]
    BY <1>7, <2>1
  <2>3. q = [segment |-> s, contents |-> c, anchor |-> p.anchor, groups |-> p.groups]
    BY <2>2
  <2>4. QED
    BY <2>3
<1>10. IsMoved(p, q, t)
  <2> HIDE DEF q
  <2>1. QED
    BY <1>6, <1>9 DEF IsMoved
<1>11. ArrangementIsLegal(q) /\ KeepsAnchors(q)
  <2> HIDE DEF q
  <2>1. QED
    BY <1>1, <1>3, <1>10, MovedIsLegal
<1>12. q \in Redesigns(p, W, unavailable)
  <2> DEFINE windowOf(g) == CHOOSE w \in WindowsOf(W) : g \in w[1]..w[2]
             moves == {m \in [W -> Segments] : \A g \in W :
                         m[g] \in SegmentsFor(p, windowOf(g)[1], windowOf(g)[2], g, unavailable)}
             rewordings == {d \in [Slots -> Contents] : \A i \in Slots :
                              (GroupOf(p, i) \notin W \/ i \in Anchored(p)) => d[i] = p.contents[i]}
             answers == UNION {{[Moved(p, W, m) EXCEPT !.contents = d] : d \in rewordings} :
                                 m \in moves}
  <2>1. f \in moves
    BY <1>4, <1>5 DEF RunOf
  <2>2. c \in rewordings
    BY <1>8 DEF c
  <2>3. Redesigns(p, W, unavailable) = {x \in answers : ArrangementIsLegal(x) /\ KeepsAnchors(x)}
    BY DEF Redesigns
  <2> HIDE DEF moves, rewordings
  <2>4. q \in answers
    BY <2>1, <2>2
  <2> HIDE DEF answers, q
  <2>5. QED
    BY <1>11, <2>3, <2>4
<1>13. QED
  BY <1>12 DEF W

\* The groups that failed are groups of the plan that is repaired.
LEMMA FailedAreGroups ==
  ASSUME NEW p, IsAnchored(p), NEW failed \in SUBSET GroupIds(p)
  PROVE  {id[1] : id \in failed} \in SUBSET GroupNumbers(p)
<1>1. InOrder(p) /\ p.groups = PlanningGroups(p)
  BY ArrangedInOrder DEF IsAnchored
<1>2. ASSUME NEW id \in failed PROVE id[1] \in GroupNumbers(p)
  <2>1. PICK group \in PlanningGroups(p) : id = group.id
    BY <1>1 DEF GroupIds
  <2>2. PICK i \in Slots \ Anchored(p) : group = PlanningGroupOf(p, i)
    BY DEF PlanningGroups
  <2>3. id[1] = GroupOf(p, i)
    BY <2>1, <2>2, PlanningFields
  <2>4. QED
    BY <1>1, <2>3, GroupsAreUsed
<1>3. QED
  BY <1>2

\* A repair is asked for only where one exists: the assignment of a window that
\* group by group looks at segments and room finds only what the redesign's own
\* validation, slot by slot and anchor by anchor, accepts.
THEOREM RepairsExist == PlanningSpec => []RepairWindowAdmitsARepair
<1>1. IInv => RepairWindowAdmitsARepair
  <2> SUFFICES ASSUME IInv, replan.pending, Window # {}
               PROVE  Redesigns(slots, Window, feedback.unavailable) # {}
    BY DEF RepairWindowAdmitsARepair
  <2>1. replan.reuse # NoReuse /\ slots = replan.reuse.slots
    BY DEF IInv, StateIsWhole, Whole, ReplanFits
  <2>2. IsAnchored(slots) /\ feedback.failed \in SUBSET GroupIds(slots)
    BY <2>1 DEF IInv, StateIsWhole, Whole, IsReuse
  <2>3. FailedParents \in SUBSET GroupNumbers(slots)
    BY <2>2, FailedAreGroups DEF FailedParents
  <2>4. QED
    BY <2>2, <2>3, RepairExists DEF Window
<1>2. QED
  BY <1>1, PlanningIsWhole, PTL
=============================================================================
