--------------------------- MODULE PhysicsProofs ---------------------------
(***************************************************************************)
(* Proofs about a step of the engine's physics.                            *)
(*                                                                         *)
(* Collisions, for every number of bodies and every set of masses,         *)
(* positions and momenta: the pass keeps its types, it never kills the     *)
(* last living body, ghosts notwithstanding, it misses no pair in contact, *)
(* and without ghosts it conserves mass and momentum.                      *)
(*                                                                         *)
(* QuadTree, for every number of bodies, all positive masses, every grid   *)
(* of coordinates and a stack deep enough to tell any two of them apart:   *)
(* every node weighs the bodies in its square, every body is in one leaf,  *)
(* only coincident bodies make the recursion endless, and a body is        *)
(* attracted by every other exactly once.                                  *)
(***************************************************************************)
EXTENDS Collisions, QuadTree, FiniteSetTheorems, SequenceTheorems,
        WellFoundedInduction, TLAPS

-----------------------------------------------------------------------------
(* The collision pass *)

\* A body of positive mass has a positive radius.
LEMMA RadiusPositive ==
  ASSUME NEW m \in Nat \ {0}
  PROVE  RadiusFromMass(m) \in Nat \ {0}
<1> DEFINE R == {r \in 1 .. m : r * r * r <= m}
<1>1. IsFiniteSet(R)
  BY FS_Interval, FS_Subset, 1 \in Int, m \in Int, R \subseteq 1 .. m
<1>2. 1 \in R
  BY 1 * 1 * 1 = 1
<1>3. Cardinality(R) \in Nat /\ Cardinality(R) # 0
  BY <1>1, <1>2, FS_CardinalityType, FS_EmptySet
<1>4. QED BY <1>3 DEF RadiusFromMass

LEMMA UploadedBodyType ==
  ASSUME NEW m \in Mass, NEW p \in Mom, NEW x \in Pos,
         NEW g \in BOOLEAN, NEW a \in BOOLEAN
  PROVE  UploadedBody(m, p, x, g, a) \in Body
<1>1. m \in Nat \ {0} /\ p \in Int /\ x \in Int
  BY CollisionsAssumption
<1>2. RadiusFromMass(m) \in Nat \ {0}
  BY <1>1, RadiusPositive
<1>3. (IF g THEN 2 * RadiusFromMass(m) ELSE RadiusFromMass(m)) \in Nat \ {0}
  BY <1>2
<1>4. QED BY <1>1, <1>3 DEF UploadedBody, Body

LEMMA MergedType ==
  ASSUME NEW a \in Body, NEW b \in Body
  PROVE  Merged(a, b) \in Body /\ Merged(a, b).alive = a.alive
<1>1. a.mass + b.mass \in Nat \ {0} /\ a.mom + b.mom \in Int
      /\ a.pos \in Int /\ a.alive \in BOOLEAN
  BY DEF Body
<1>2. RadiusFromMass(a.mass + b.mass) \in Nat \ {0}
  BY <1>1, RadiusPositive
<1>3. QED BY <1>1, <1>2 DEF Merged, Body

\* Moving, accelerating or killing a body leaves a body.
LEMMA AtType ==
  ASSUME NEW b \in Body, NEW x \in Int, NEW p \in Int
  PROVE  At(b, x, p) \in Body
BY DEF Body, At

LEMMA KilledType ==
  ASSUME NEW b \in Body
  PROVE  [b EXCEPT !.alive = FALSE] \in Body
         /\ ~[b EXCEPT !.alive = FALSE].alive
BY DEF Body

\* What one merge does to the array: types are kept, only b is killed.
LEMMA AbsorbEffect ==
  ASSUME bodies \in [1 .. N -> Body], NEW a \in 1 .. N, NEW b \in 1 .. N,
         a # b, Absorb(a, b)
  PROVE  /\ bodies' \in [1 .. N -> Body]
         /\ ~bodies'[b].alive
         /\ \A k \in 1 .. N : k # b => bodies'[k].alive = bodies[k].alive
<1>1. Merged(bodies[a], bodies[b]) \in Body
      /\ Merged(bodies[a], bodies[b]).alive = bodies[a].alive
  BY MergedType
<1>2. [bodies[b] EXCEPT !.alive = FALSE] \in Body
      /\ ~[bodies[b] EXCEPT !.alive = FALSE].alive
  BY KilledType
<1>3. QED BY <1>1, <1>2 DEF Absorb

-----------------------------------------------------------------------------
(* The inductive invariant *)

\* While a row is scanned, its own body is alive or one of the columns already
\* passed is: the killer of a row's body is never revisited in that row.
RowKeepsAlive ==
  phase = "pair" =>
    /\ i \in 1 .. N
    /\ j > i
    /\ bodies[i].alive \/ \E k \in i + 1 .. j - 1 : bodies[k].alive

IInv == TypeOK /\ RowKeepsAlive /\ SomeoneSurvives

LEMMA IInvInit == Init => IInv
<1> SUFFICES ASSUME Init PROVE IInv
  OBVIOUS
<1>1. bodies \in [1 .. N -> Body]
  BY UploadedBodyType DEF Init
<1>n. 1 \in 1 .. N + 1 /\ 2 \in 2 .. N + 1
  BY CollisionsAssumption
<1>2. TypeOK
  BY <1>1, <1>n, Zenon DEF Init, TypeOK
<1>3. QED BY <1>2 DEF Init, IInv, RowKeepsAlive, SomeoneSurvives

\* A living body in a row that is being scanned settles SomeoneSurvives.
LEMMA AliveInRange ==
  ASSUME NEW bs, NEW k \in 1 .. N, bs[k].alive
  PROVE  Alive(bs) # {}
BY DEF Alive

LEMMA IInvNext == IInv /\ [Next]_vars => IInv'
<1> SUFFICES ASSUME IInv, [Next]_vars PROVE IInv'
  OBVIOUS
<1> USE DEF IInv
<1>n. N \in Nat \ {0}
  BY CollisionsAssumption
<1>1. CASE Rk4Step
  <2>1. PICK pos \in [1 .. N -> Pos], mom \in [1 .. N -> Mom] :
          bodies' = Moved(pos, mom)
    BY <1>1 DEF Rk4Step
  <2>2. \A k \in 1 .. N : pos[k] \in Int /\ mom[k] \in Int
    BY CollisionsAssumption
  <2>3. ASSUME NEW k \in 1 .. N
        PROVE  bodies'[k] \in Body
    <3>1. bodies[k] \in Body /\ pos[k] \in Int /\ mom[k] \in Int
          /\ bodies[k].pos \in Int
      BY <2>2 DEF TypeOK, Body
    <3>2. /\ At(bodies[k], pos[k], mom[k]) \in Body
          /\ At(bodies[k], bodies[k].pos, 0) \in Body
      BY <3>1, AtType
    <3>3. QED BY <2>1, <3>2 DEF Moved
  <2>4. bodies' \in [1 .. N -> Body]
    BY <2>1, <2>3 DEF Moved
  <2>5. TypeOK'
    <3>1. 1 \in 1 .. N + 1
      BY <1>n
    <3>2. QED BY <1>1, <2>4, <3>1, Zenon DEF Rk4Step, TypeOK
  <2>6. QED BY <1>1, <2>5 DEF Rk4Step, RowKeepsAlive, SomeoneSurvives
<1>2. CASE EnterRow
  <2>1. i \in 1 .. N /\ j' = i + 1 /\ bodies[i].alive
    BY <1>2, <1>n DEF EnterRow, FirstColumn, TypeOK
  <2>2. TypeOK'
    BY <1>2, <1>n, <2>1 DEF EnterRow, TypeOK
  <2>3. QED
    BY <1>2, <2>1, <2>2 DEF EnterRow, RowKeepsAlive, SomeoneSurvives, TypeOK
<1>3. CASE SkipDeadRow
  BY <1>3, <1>n DEF SkipDeadRow, TypeOK, RowKeepsAlive, SomeoneSurvives
<1>4. CASE Merge
  <2>1. /\ i \in 1 .. N /\ j \in 1 .. N /\ j > i
        /\ bodies[j].alive
        /\ bodies[i].alive \/ \E k \in i + 1 .. j - 1 : bodies[k].alive
        /\ j' = j + 1
        /\ UNCHANGED <<phase, i, before>>
        /\ phase = "pair"
    BY <1>4, <1>n DEF Merge, Collides, TypeOK, RowKeepsAlive
  <2>a. i \in 1 .. N /\ j \in 1 .. N /\ j > i /\ j' = j + 1
    BY <2>1
  <2>2. ghostMerge' \in BOOLEAN
    BY <1>4, <2>1 DEF Merge, TypeOK
  <2>3. PICK w \in i .. j : bodies' \in [1 .. N -> Body] /\ bodies'[w].alive
    <3>1. CASE bodies[j].mass > bodies[i].mass
      <4>1. Absorb(j, i)
        BY <1>4, <3>1 DEF Merge
      <4>2. bodies' \in [1 .. N -> Body] /\ bodies'[j].alive
        BY <2>1, <4>1, AbsorbEffect DEF TypeOK
      <4>3. QED BY <2>1, <4>2
    <3>2. CASE ~(bodies[j].mass > bodies[i].mass)
      <4>1. Absorb(i, j)
        BY <1>4, <3>2 DEF Merge
      <4>2. /\ bodies' \in [1 .. N -> Body]
            /\ \A k \in 1 .. N : k # j => bodies'[k].alive = bodies[k].alive
        BY <2>1, <4>1, AbsorbEffect DEF TypeOK
      <4>3. PICK k \in i .. j - 1 : bodies[k].alive
        BY <2>1
      <4>4. k \in 1 .. N /\ k # j /\ k \in i .. j
        BY <2>a, <1>n
      <4>5. QED BY <4>2, <4>3, <4>4
    <3>3. QED BY <3>1, <3>2
  <2>4. w \in 1 .. N /\ (w = i \/ w \in i + 1 .. j' - 1)
    BY <2>a, <1>n
  <2>5. TypeOK'
    BY <1>n, <2>1, <2>2, <2>3 DEF TypeOK
  <2>6. RowKeepsAlive'
    BY <2>1, <2>3, <2>4 DEF RowKeepsAlive
  <2>7. SomeoneSurvives'
    BY <2>3, <2>4, AliveInRange DEF SomeoneSurvives
  <2>8. QED BY <2>5, <2>6, <2>7
<1>5. CASE NoCollision
  <2>1. TypeOK'
    BY <1>5, <1>n DEF NoCollision, TypeOK
  <2>2. RowKeepsAlive'
    BY <1>5, <1>n DEF NoCollision, TypeOK, RowKeepsAlive
  <2>3. QED BY <1>5, <2>1, <2>2 DEF NoCollision, SomeoneSurvives
<1>6. CASE EndRow
  <2>1. TypeOK'
    BY <1>6, <1>n DEF EndRow, TypeOK, RowKeepsAlive
  <2>2. QED BY <1>6, <2>1 DEF EndRow, RowKeepsAlive, SomeoneSurvives
<1>7. CASE EndPass
  BY <1>7 DEF EndPass, TypeOK, RowKeepsAlive, SomeoneSurvives
<1>8. CASE UNCHANGED vars
  BY <1>8 DEF vars, TypeOK, RowKeepsAlive, SomeoneSurvives, Alive
<1>9. QED
  BY <1>1, <1>2, <1>3, <1>4, <1>5, <1>6, <1>7, <1>8 DEF Next

\* The bodies, the loop counters and the history keep their types.
THEOREM CollisionTypes == Spec => []TypeOK
BY IInvInit, IInvNext, PTL DEF Spec, IInv

\* No collision pass kills the last living body of a scene.
THEOREM LastBodySurvives == Spec => []SomeoneSurvives
BY IInvInit, IInvNext, PTL DEF Spec, IInv

-----------------------------------------------------------------------------
(* No pair in contact is missed *)

\* The pass has compared row k with column l, or passed over the pair.
Visited(k, l) == k < i \/ (k = i /\ phase = "pair" /\ l < j)

\* A body that was b when the pass began has died or grown to a; neither is
\* ever undone.
Grown(a, b) == ~a.alive \/ a.mass > b.mass

Marked(k) == Grown(bodies[k], before[k])

\* A body is as it was when the pass began or marked, and two unmarked bodies
\* whose pair was visited are apart.
PairsSettled ==
  phase # "integrate" =>
    /\ \A k \in 1 .. N : bodies[k] = before[k] \/ Marked(k)
    /\ \A k, l \in 1 .. N :
         (k < l /\ Visited(k, l) /\ ~Marked(k) /\ ~Marked(l)) =>
            ~Overlap(bodies[k], bodies[l])

LEMMA OverlapSymmetric ==
  ASSUME NEW a \in Body, NEW b \in Body
  PROVE  Overlap(a, b) <=> Overlap(b, a)
<1>1. a.pos \in Int /\ b.pos \in Int /\ a.radius \in Int /\ b.radius \in Int
  BY DEF Body
<1>2. (a.pos - b.pos) * (a.pos - b.pos) = (b.pos - a.pos) * (b.pos - a.pos)
  BY <1>1
<1>3. a.radius + b.radius = b.radius + a.radius
  BY <1>1
<1>4. QED BY <1>2, <1>3 DEF Overlap

\* A merge marks both bodies and leaves the others alone.
LEMMA AbsorbMarks ==
  ASSUME TypeOK, NEW a \in 1 .. N, NEW b \in 1 .. N, a # b, Absorb(a, b),
         before' = before,
         \A k \in 1 .. N : bodies[k] = before[k] \/ Marked(k)
  PROVE  /\ Grown(bodies'[a], before[a]) /\ Grown(bodies'[b], before[b])
         /\ \A k \in 1 .. N : k # a /\ k # b => bodies'[k] = bodies[k]
<1>1. /\ bodies[a] \in Body /\ bodies[b] \in Body /\ before[a] \in Body
      /\ bodies'[a] = Merged(bodies[a], bodies[b])
      /\ ~bodies'[b].alive
      /\ \A k \in 1 .. N : k # a /\ k # b => bodies'[k] = bodies[k]
  BY AbsorbEffect DEF TypeOK, Absorb
<1>2. bodies[a].mass >= before[a].mass \/ ~bodies[a].alive
  BY <1>1 DEF Marked, Grown, Body
<1>3. bodies'[a].mass > before[a].mass \/ ~bodies'[a].alive
  BY <1>1, <1>2 DEF Merged, Body
<1>4. QED BY <1>1, <1>3 DEF Grown

LEMMA PairsSettledNext ==
  ASSUME IInv, PairsSettled, [Next]_vars
  PROVE  PairsSettled'
<1>n. /\ N \in Nat \ {0}
      /\ i \in 1 .. N + 1 /\ j \in 2 .. N + 1
      /\ TypeOK
      /\ phase = "pair" => i \in 1 .. N /\ j > i
  BY CollisionsAssumption DEF IInv, TypeOK, RowKeepsAlive
<1>1. CASE Rk4Step
  BY <1>1, <1>n DEF Rk4Step, PairsSettled, Visited
\* The steps that touch no body: nothing but Visited can change.
<1>2. ASSUME UNCHANGED <<bodies, before>>, phase # "integrate",
             \A k, l \in 1 .. N :
               (k < l /\ Visited(k, l)') =>
                 \/ Visited(k, l)
                 \/ ~bodies[k].alive \/ ~bodies[l].alive
                 \/ ~Overlap(bodies[k], bodies[l])
      PROVE  PairsSettled'
  BY <1>2 DEF PairsSettled, Marked, Grown
<1>3. CASE EnterRow
  <2>1. i' = i /\ j' = i + 1 /\ phase = "row" /\ UNCHANGED <<bodies, before>>
    BY <1>3 DEF EnterRow, FirstColumn
  <2>2. ASSUME NEW k \in 1 .. N, NEW l \in 1 .. N, k < l, Visited(k, l)'
        PROVE  Visited(k, l)
    BY <2>1, <2>2, <1>n DEF Visited
  <2>3. QED BY <2>1, <2>2, <1>2
<1>4. CASE SkipDeadRow
  <2>1. /\ i' = i + 1 /\ phase = "row" /\ phase' = "row" /\ ~bodies[i].alive
        /\ UNCHANGED <<bodies, before>>
    BY <1>4 DEF SkipDeadRow
  <2>2. ASSUME NEW k \in 1 .. N, NEW l \in 1 .. N, k < l, Visited(k, l)'
        PROVE  Visited(k, l) \/ ~bodies[k].alive
    BY <2>1, <2>2, <1>n DEF Visited
  <2>3. QED BY <2>1, <2>2, <1>2
<1>5. CASE NoCollision
  <2>1. /\ i' = i /\ j' = j + 1 /\ phase = "pair" /\ phase' = "pair"
        /\ ~bodies[j].alive \/ ~Overlap(bodies[i], bodies[j])
        /\ UNCHANGED <<bodies, before>>
    BY <1>5 DEF NoCollision, Collides
  <2>2. ASSUME NEW k \in 1 .. N, NEW l \in 1 .. N, k < l, Visited(k, l)'
        PROVE  Visited(k, l) \/ (k = i /\ l = j)
    BY <2>1, <2>2, <1>n DEF Visited
  <2>3. QED BY <2>1, <2>2, <1>2
<1>6. CASE EndRow
  <2>1. /\ i' = i + 1 /\ j > N /\ phase = "pair" /\ phase' = "row"
        /\ UNCHANGED <<bodies, before>>
    BY <1>6 DEF EndRow
  <2>2. ASSUME NEW k \in 1 .. N, NEW l \in 1 .. N, k < l, Visited(k, l)'
        PROVE  Visited(k, l)
    BY <2>1, <2>2, <1>n DEF Visited
  <2>3. QED BY <2>1, <2>2, <1>2
<1>7. CASE Merge
  <2>1. /\ i \in 1 .. N /\ j \in 1 .. N /\ j > i /\ j' = j + 1
        /\ UNCHANGED <<phase, i, before>>
        /\ phase = "pair"
    BY <1>7, <1>n DEF Merge
  <2>2. \A k \in 1 .. N : bodies[k] = before[k] \/ Marked(k)
    BY <2>1 DEF PairsSettled
  <2>3. /\ Grown(bodies'[i], before[i]) /\ Grown(bodies'[j], before[j])
        /\ \A k \in 1 .. N : k # i /\ k # j => bodies'[k] = bodies[k]
    <3>1. CASE bodies[j].mass > bodies[i].mass
      <4>1. Absorb(j, i)
        BY <1>7, <3>1 DEF Merge
      <4>2. QED BY <4>1, <1>n, <2>1, <2>2, AbsorbMarks
    <3>2. CASE ~(bodies[j].mass > bodies[i].mass)
      <4>1. Absorb(i, j)
        BY <1>7, <3>2 DEF Merge
      <4>2. QED BY <4>1, <1>n, <2>1, <2>2, AbsorbMarks
    <3>3. QED BY <3>1, <3>2
  <2>4. ASSUME NEW k \in 1 .. N, ~Marked(k)'
        PROVE  k # i /\ k # j /\ bodies'[k] = bodies[k] /\ ~Marked(k)
    BY <2>1, <2>3, <2>4 DEF Marked
  <2>5. ASSUME NEW k \in 1 .. N PROVE bodies'[k] = before'[k] \/ Marked(k)'
    BY <2>1, <2>2, <2>4
  <2>6. ASSUME NEW k \in 1 .. N, NEW l \in 1 .. N, k < l, Visited(k, l)',
               ~Marked(k)', ~Marked(l)'
        PROVE  ~Overlap(bodies'[k], bodies'[l])
    <3>1. k # i /\ k # j /\ l # i /\ l # j /\ ~Marked(k) /\ ~Marked(l)
          /\ bodies'[k] = bodies[k] /\ bodies'[l] = bodies[l]
      BY <2>4, <2>6
    <3>2. Visited(k, l)
      BY <2>1, <2>6, <3>1, <1>n DEF Visited
    <3>3. QED BY <2>1, <2>6, <3>1, <3>2 DEF PairsSettled
  <2>7. QED BY <2>5, <2>6 DEF PairsSettled
<1>8. CASE EndPass
  BY <1>8 DEF EndPass, PairsSettled
<1>9. CASE UNCHANGED vars
  BY <1>9 DEF vars, PairsSettled, Visited, Marked
<1>10. QED
  BY <1>1, <1>3, <1>4, <1>5, <1>6, <1>7, <1>8, <1>9 DEF Next

\* When a pass ends, two living bodies in contact were not both in the scene
\* as they are when it began: resolve_collisions misses no pair.
THEOREM NoContactMissed == Spec => []OverlapsAreNew
<1>1. Init => PairsSettled
  BY DEF Init, PairsSettled
<1>2. IInv /\ PairsSettled => OverlapsAreNew
  <2> SUFFICES ASSUME IInv, PairsSettled, phase = "row", i = N + 1,
                      NEW k \in Alive(bodies), NEW l \in Alive(bodies),
                      k # l, Overlap(bodies[k], bodies[l]),
                      bodies[k] = before[k], bodies[l] = before[l]
               PROVE  FALSE
    BY DEF OverlapsAreNew
  <2>1. /\ k \in 1 .. N /\ l \in 1 .. N /\ bodies[k] \in Body /\ bodies[l] \in Body
        /\ ~Marked(k) /\ ~Marked(l)
    BY DEF Alive, Marked, Grown, IInv, TypeOK, Body
  <2>2. N \in Nat
    BY CollisionsAssumption
  <2>3. Visited(k, l) /\ Visited(l, k) /\ (k < l \/ l < k)
    BY <2>1, <2>2 DEF Visited
  <2>4. Overlap(bodies[l], bodies[k])
    BY <2>1, OverlapSymmetric
  <2>5. QED BY <2>1, <2>3, <2>4 DEF PairsSettled
<1>3. QED
  BY <1>1, <1>2, IInvInit, IInvNext, PairsSettledNext, PTL DEF Spec

-----------------------------------------------------------------------------
(* Sums over sets.  The fold of the community modules is a recursive        *)
(* function on the subsets of a set; what it computes is established by     *)
(* looking at a smallest subset for which a claim would fail.               *)

\* The element a community-module fold over a set takes first.
Pick(s) == CHOOSE x \in s : TRUE

\* g adds f up over every subset of U, in the order Pick takes the elements.
Adds(g, f, U) ==
  \A s \in SUBSET U :
    g[s] = IF s = {} THEN 0 ELSE f[Pick(s)] + g[s \ {Pick(s)}]

\* A nonempty collection of subsets of a finite set has a smallest member: what
\* fails for some subset fails for one all of whose strict subsets satisfy it.
LEMMA SmallestSet ==
  ASSUME NEW U, IsFiniteSet(U), NEW B \in SUBSET (SUBSET U), B # {}
  PROVE  \E T \in B : \A V \in B : V \subseteq T => V = T
<1>1. IsWellFoundedOn(StrictSubsetOrdering(U), SUBSET U)
  BY FS_StrictSubsetOrderingWellFounded, FS_FiniteSubsetsOfFinite
<1>2. PICK T \in B : \A V \in B : ~(<<V, T>> \in StrictSubsetOrdering(U))
  BY <1>1, WFMin
<1>3. ASSUME NEW V \in B, V \subseteq T, V # T PROVE FALSE
  <2>1. <<V, T>> \in (SUBSET U) \X (SUBSET U)
    OBVIOUS
  <2>2. <<V, T>> \in StrictSubsetOrdering(U)
    BY <1>3, <2>1 DEF StrictSubsetOrdering
  <2>3. QED BY <1>2, <1>3, <2>2
<1>4. QED BY <1>2, <1>3

LEMMA PickIn ==
  ASSUME NEW s, s # {}
  PROVE  Pick(s) \in s
BY DEF Pick

\* There is one way to add up.
LEMMA AddsUnique ==
  ASSUME NEW U, IsFiniteSet(U), NEW f, NEW g, NEW h,
         Adds(g, f, U), Adds(h, f, U)
  PROVE  \A s \in SUBSET U : g[s] = h[s]
<1> DEFINE B == {s \in SUBSET U : g[s] # h[s]}
<1> SUFFICES ASSUME B # {} PROVE FALSE
  OBVIOUS
<1>1. PICK T \in B : \A V \in B : V \subseteq T => V = T
  <2>1. B \in SUBSET (SUBSET U)
    OBVIOUS
  <2> HIDE DEF B
  <2>2. QED BY <2>1, SmallestSet
<1>2. T # {}
  BY DEF Adds
<1>3. Pick(T) \in T
  BY <1>2, PickIn
<1>4. T \ {Pick(T)} \in SUBSET U /\ T \ {Pick(T)} \notin B
  BY <1>1, <1>3
<1>5. g[T \ {Pick(T)}] = h[T \ {Pick(T)}]
  BY <1>4
<1>6. QED BY <1>2, <1>5 DEF Adds

\* There is a way to add up.
LEMMA AddsExists ==
  ASSUME NEW U, IsFiniteSet(U), NEW f, \A x \in U : f[x] \in Int
  PROVE  \E g \in [SUBSET U -> Int] : Adds(g, f, U)
<1> DEFINE Good(T) == \E g \in [SUBSET T -> Int] : Adds(g, f, T)
           B == {T \in SUBSET U : ~Good(T)}
<1> SUFFICES ASSUME B # {} PROVE FALSE
  BY U \in SUBSET U
<1>1. PICK T \in B : \A V \in B : V \subseteq T => V = T
  <2>1. B \in SUBSET (SUBSET U)
    OBVIOUS
  <2> HIDE DEF B
  <2>2. QED BY <2>1, SmallestSet
<1>2. T \in SUBSET U /\ ~Good(T)
  OBVIOUS
<1>3. \A V \in SUBSET T : V # T => Good(V)
  BY <1>1, <1>2
<1> DEFINE G(V) == CHOOSE g \in [SUBSET V -> Int] : Adds(g, f, V)
<1>4. ASSUME NEW V \in SUBSET T, V # T
      PROVE  G(V) \in [SUBSET V -> Int] /\ Adds(G(V), f, V)
  BY <1>3, <1>4
<1> HIDE DEF G
<1> DEFINE rest(s) == s \ {Pick(s)}
           h == [s \in SUBSET T |->
                   IF s = {} THEN 0 ELSE f[Pick(s)] + G(rest(s))[rest(s)]]
<1>5. ASSUME NEW s \in SUBSET T, s # {}
      PROVE  /\ Pick(s) \in T /\ f[Pick(s)] \in Int
             /\ rest(s) \in SUBSET T /\ rest(s) # T
             /\ rest(s) \subseteq s
             /\ G(rest(s))[rest(s)] \in Int
  <2>1. Pick(s) \in s /\ rest(s) \in SUBSET T /\ rest(s) # T /\ rest(s) \subseteq s
    BY <1>5, PickIn
  <2> HIDE DEF rest
  <2>2. QED BY <1>2, <1>4, <2>1
<1>6. h \in [SUBSET T -> Int]
  BY <1>5
<1>7. ASSUME NEW s \in SUBSET T, s # {}
      PROVE  h[rest(s)] = G(rest(s))[rest(s)]
  <2> DEFINE r == rest(s)
  <2>1. r \in SUBSET T /\ r # T /\ IsFiniteSet(r)
    <3>1. r \in SUBSET T /\ r # T /\ r \in SUBSET U
      BY <1>2, <1>5, <1>7
    <3>2. QED BY <3>1, FS_Subset
  <2>2. Adds(G(r), f, r)
    BY <1>4, <2>1
  <2>3. CASE r = {}
    <3>1. G(r)[r] = 0
      BY <2>2, <2>3 DEF Adds
    <3>2. QED BY <2>1, <2>3, <3>1
  <2>4. CASE r # {}
    <3> DEFINE q == rest(r)
    <3>1. q \in SUBSET T /\ q # T /\ q \subseteq r
      BY <1>5, <2>1, <2>4
    <3>2. Adds(G(q), f, q) /\ Adds(G(r), f, q)
      BY <1>4, <2>2, <3>1 DEF Adds
    <3>3. IsFiniteSet(q)
      BY <2>1, <3>1, FS_Subset
    <3>4. G(q)[q] = G(r)[q]
      BY <3>2, <3>3, AddsUnique
    <3>5. G(r)[r] = f[Pick(r)] + G(r)[q]
      BY <2>2, <2>4 DEF Adds
    <3>6. h[r] = f[Pick(r)] + G(q)[q]
      BY <2>1, <2>4
    <3>7. QED BY <3>4, <3>5, <3>6
  <2>5. QED BY <2>3, <2>4
<1>8. Adds(h, f, T)
  <2>1. ASSUME NEW s \in SUBSET T
        PROVE  h[s] = IF s = {} THEN 0 ELSE f[Pick(s)] + h[s \ {Pick(s)}]
    BY <1>7
  <2> HIDE DEF h
  <2>2. QED BY <2>1 DEF Adds
<1>9. QED BY <1>2, <1>6, <1>8

\* g adds f up over every subset of U, whichever element is taken first.
AddsFirst(g, f, U) == \A T \in SUBSET U : \A x \in T : g[T] = f[x] + g[T \ {x}]

\* The order of addition does not matter.
LEMMA AddsAnyOrder ==
  ASSUME NEW U, IsFiniteSet(U), NEW f, \A x \in U : f[x] \in Int,
         NEW g \in [SUBSET U -> Int], Adds(g, f, U)
  PROVE  AddsFirst(g, f, U)
<1> DEFINE B == {T \in SUBSET U : \E x \in T : g[T] # f[x] + g[T \ {x}]}
<1> SUFFICES ASSUME B # {} PROVE FALSE
  BY DEF AddsFirst
<1>1. PICK T \in B : \A V \in B : V \subseteq T => V = T
  <2>1. B \in SUBSET (SUBSET U)
    OBVIOUS
  <2> HIDE DEF B
  <2>2. QED BY <2>1, SmallestSet
<1>2. PICK x \in T : g[T] # f[x] + g[T \ {x}]
  OBVIOUS
<1> DEFINE p == Pick(T)
<1>3. p \in T /\ T \in SUBSET U
  BY PickIn
<1>4. g[T] = f[p] + g[T \ {p}]
  BY <1>3 DEF Adds
<1>5. p # x
  BY <1>2, <1>4
<1>6. /\ T \ {p} \in SUBSET U /\ T \ {p} \notin B /\ x \in T \ {p}
      /\ T \ {x} \in SUBSET U /\ T \ {x} \notin B /\ p \in T \ {x}
  BY <1>1, <1>2, <1>3, <1>5
<1>7. g[T \ {p}] = f[x] + g[(T \ {p}) \ {x}]
  BY <1>6
<1>8. g[T \ {x}] = f[p] + g[(T \ {x}) \ {p}]
  BY <1>6
<1>9. (T \ {p}) \ {x} = (T \ {x}) \ {p}
  OBVIOUS
<1> HIDE DEF B, p
<1> DEFINE c == g[(T \ {x}) \ {p}]
<1>10. /\ f[p] \in Int /\ f[x] \in Int /\ c \in Int
  BY <1>3
<1>11. /\ g[T] = f[p] + (f[x] + c)
       /\ g[T] # f[x] + (f[p] + c)
  BY <1>2, <1>4, <1>7, <1>8, <1>9
<1> HIDE DEF c
<1>12. QED BY <1>10, <1>11

\* The sum of f over U.
Total(f, U) == (CHOOSE g \in [SUBSET U -> Int] : Adds(g, f, U))[U]

\* However it is computed, the sum is the same.
LEMMA TotalIs ==
  ASSUME NEW U, IsFiniteSet(U), NEW f, \A x \in U : f[x] \in Int
  PROVE  /\ Total(f, U) \in Int
         /\ \A W, g : (U \subseteq W /\ Adds(g, f, W)) => g[U] = Total(f, U)
<1> DEFINE t == CHOOSE g \in [SUBSET U -> Int] : Adds(g, f, U)
<1>1. t \in [SUBSET U -> Int] /\ Adds(t, f, U)
  BY AddsExists
<1>2. Total(f, U) = t[U]
  BY DEF Total
<1> HIDE DEF t
<1>3. ASSUME NEW W, NEW g, U \subseteq W, Adds(g, f, W)
      PROVE  g[U] = t[U]
  <2>1. Adds(g, f, U)
    BY <1>3 DEF Adds
  <2>2. QED BY <1>1, <2>1, AddsUnique
<1>4. QED BY <1>1, <1>2, <1>3

\* Any element can be taken out of a sum.
LEMMA TotalWithout ==
  ASSUME NEW U, IsFiniteSet(U), NEW f, \A x \in U : f[x] \in Int, NEW x \in U
  PROVE  Total(f, U) = f[x] + Total(f, U \ {x})
<1>1. PICK g \in [SUBSET U -> Int] : Adds(g, f, U)
  BY AddsExists
<1>2. g[U] = f[x] + g[U \ {x}]
  <2>1. AddsFirst(g, f, U)
    BY <1>1, AddsAnyOrder
  <2>2. QED BY <2>1, U \in SUBSET U DEF AddsFirst
<1>3. IsFiniteSet(U \ {x}) /\ U \ {x} \subseteq U
  BY FS_RemoveElement
<1>4. g[U] = Total(f, U)
  BY <1>1, TotalIs
<1>5. g[U \ {x}] = Total(f, U \ {x})
  BY <1>1, <1>3, TotalIs
<1>6. QED BY <1>2, <1>4, <1>5

\* A sum depends on the values over its set only.
LEMMA TotalSame ==
  ASSUME NEW U, IsFiniteSet(U), NEW f, NEW h,
         \A x \in U : f[x] \in Int /\ h[x] = f[x]
  PROVE  Total(h, U) = Total(f, U)
<1>1. PICK g \in [SUBSET U -> Int] : Adds(g, f, U)
  BY AddsExists
<1>2. Adds(g, h, U)
  <2>1. ASSUME NEW s \in SUBSET U, s # {} PROVE f[Pick(s)] = h[Pick(s)]
    BY <2>1, PickIn
  <2>2. QED BY <1>1, <2>1 DEF Adds
<1>3. g[U] = Total(f, U) /\ g[U] = Total(h, U)
  BY <1>1, <1>2, TotalIs
<1>4. QED BY <1>3

\* The folds of module Collisions are such sums.
LEMMA MassIsTotal ==
  ASSUME NEW bs, Alive(bs) \subseteq 1 .. N, IsFiniteSet(Alive(bs)),
         \A k \in 1 .. N : bs[k].mass \in Int
  PROVE  TotalMass(bs) = Total([k \in 1 .. N |-> bs[k].mass], Alive(bs))
<1> DEFINE f == [k \in 1 .. N |-> bs[k].mass]
           S == Alive(bs)
<1>1. PICK g \in [SUBSET S -> Int] : Adds(g, f, S)
  BY AddsExists
<1> DEFINE Def(it) == [s \in SUBSET S |->
                 IF s = {} THEN 0
                 ELSE bs[CHOOSE x \in s : TRUE].mass + it[s \ {CHOOSE x \in s : TRUE}]]
<1>2. ASSUME NEW it, it = Def(it)
      PROVE  Adds(it, f, S)
  <2>1. ASSUME NEW s \in SUBSET S, s # {}
        PROVE  f[Pick(s)] = bs[Pick(s)].mass
    BY <2>1, PickIn
  <2>2. QED BY <1>2, <2>1 DEF Adds, Pick
<1>3. g = Def(g)
  <2>1. ASSUME NEW s \in SUBSET S
        PROVE  g[s] = Def(g)[s]
    <3>1. s # {} => f[Pick(s)] = bs[Pick(s)].mass
      BY <2>1, PickIn
    <3>2. QED BY <1>1, <3>1 DEF Adds, Pick
  <2>2. QED BY <1>1, <2>1
<1>4. TotalMass(bs) = (CHOOSE it : it = Def(it))[S]
  BY DEF TotalMass, MapThenSumSet, MapThenFoldSet
<1> HIDE DEF Def
<1>5. Adds(CHOOSE it : it = Def(it), f, S)
  BY <1>2, <1>3
<1>6. \A x \in S : f[x] \in Int
  OBVIOUS
<1> HIDE DEF f, S
<1>7. QED BY <1>4, <1>5, <1>6, TotalIs DEF S, f
LEMMA MomentumIsTotal ==
  ASSUME NEW bs, Alive(bs) \subseteq 1 .. N, IsFiniteSet(Alive(bs)),
         \A k \in 1 .. N : bs[k].mom \in Int
  PROVE  TotalMomentum(bs) = Total([k \in 1 .. N |-> bs[k].mom], Alive(bs))
<1> DEFINE f == [k \in 1 .. N |-> bs[k].mom]
           S == Alive(bs)
<1>1. PICK g \in [SUBSET S -> Int] : Adds(g, f, S)
  BY AddsExists
<1> DEFINE Def(it) == [s \in SUBSET S |->
                 IF s = {} THEN 0
                 ELSE bs[CHOOSE x \in s : TRUE].mom + it[s \ {CHOOSE x \in s : TRUE}]]
<1>2. ASSUME NEW it, it = Def(it)
      PROVE  Adds(it, f, S)
  <2>1. ASSUME NEW s \in SUBSET S, s # {}
        PROVE  f[Pick(s)] = bs[Pick(s)].mom
    BY <2>1, PickIn
  <2>2. QED BY <1>2, <2>1 DEF Adds, Pick
<1>3. g = Def(g)
  <2>1. ASSUME NEW s \in SUBSET S
        PROVE  g[s] = Def(g)[s]
    <3>1. s # {} => f[Pick(s)] = bs[Pick(s)].mom
      BY <2>1, PickIn
    <3>2. QED BY <1>1, <3>1 DEF Adds, Pick
  <2>2. QED BY <1>1, <2>1
<1>4. TotalMomentum(bs) = (CHOOSE it : it = Def(it))[S]
  BY DEF TotalMomentum, MapThenSumSet, MapThenFoldSet
<1> HIDE DEF Def
<1>5. Adds(CHOOSE it : it = Def(it), f, S)
  BY <1>2, <1>3
<1>6. \A x \in S : f[x] \in Int
  OBVIOUS
<1> HIDE DEF f, S
<1>7. QED BY <1>4, <1>5, <1>6, TotalIs DEF S, f

\* What f has on A, h has on B, which is A without b: what f has at b is added
\* to what it has at a.
Moves(f, A, h, B, a, b) ==
  /\ a \in A /\ b \in A /\ a # b /\ B = A \ {b}
  /\ h[a] = f[a] + f[b]
  /\ \A x \in A : x # a /\ x # b => h[x] = f[x]

\* Merging two elements of a set into one of them keeps a total.
LEMMA TotalMerged ==
  ASSUME NEW A, IsFiniteSet(A), NEW f, \A x \in A : f[x] \in Int,
         NEW h, NEW B, NEW a, NEW b, Moves(f, A, h, B, a, b)
  PROVE  Total(h, B) = Total(f, A)
<1> DEFINE R == (A \ {b}) \ {a}
<1>0. a \in A /\ b \in A /\ a # b /\ B = A \ {b}
  BY DEF Moves
<1>1. IsFiniteSet(A \ {b}) /\ IsFiniteSet(R)
  BY FS_RemoveElement
<1>2. Total(f, A) = f[b] + Total(f, A \ {b})
  BY <1>0, TotalWithout
<1>3. Total(f, A \ {b}) = f[a] + Total(f, R)
  BY <1>0, <1>1, TotalWithout
<1>4. \A x \in A \ {b} : h[x] \in Int
  <2>1. f[a] \in Int /\ f[b] \in Int
    BY <1>0
  <2>2. h[a] \in Int
    BY <2>1 DEF Moves
  <2>3. QED BY <2>2 DEF Moves
<1>5. Total(h, A \ {b}) = h[a] + Total(h, R)
  BY <1>0, <1>1, <1>4, TotalWithout
<1>6. \A x \in R : f[x] \in Int /\ h[x] = f[x]
  BY DEF Moves
<1> HIDE DEF R
<1>7. Total(h, R) = Total(f, R) /\ Total(f, R) \in Int
  BY <1>1, <1>6, TotalSame, TotalIs
<1>8. f[a] \in Int /\ f[b] \in Int
  BY <1>0
<1>9. QED BY <1>0, <1>2, <1>3, <1>5, <1>7, <1>8 DEF Moves

LEMMA AliveFinite ==
  ASSUME NEW bs
  PROVE  Alive(bs) \subseteq 1 .. N /\ IsFiniteSet(Alive(bs))
<1>1. Alive(bs) \subseteq 1 .. N
  BY DEF Alive
<1>2. IsFiniteSet(1 .. N)
  BY CollisionsAssumption, FS_Interval
<1>3. QED BY <1>1, <1>2, FS_Subset

\* A merge of two living bodies moves mass and momentum from one to the other.
LEMMA AbsorbConserves ==
  ASSUME TypeOK, NEW a \in 1 .. N, NEW b \in 1 .. N, a # b,
         bodies[a].alive, bodies[b].alive, Absorb(a, b)
  PROVE  /\ TotalMass(bodies') = TotalMass(bodies)
         /\ TotalMomentum(bodies') = TotalMomentum(bodies)
<1> DEFINE A == Alive(bodies)
           B == Alive(bodies')
           m == [k \in 1 .. N |-> bodies[k].mass]
           n == [k \in 1 .. N |-> bodies'[k].mass]
           p == [k \in 1 .. N |-> bodies[k].mom]
           q == [k \in 1 .. N |-> bodies'[k].mom]
<1>1. /\ bodies \in [1 .. N -> Body]
      /\ bodies' \in [1 .. N -> Body]
      /\ ~bodies'[b].alive
      /\ \A k \in 1 .. N : k # b => bodies'[k].alive = bodies[k].alive
  BY AbsorbEffect DEF TypeOK
<1>2. /\ bodies'[a] = Merged(bodies[a], bodies[b])
      /\ bodies'[b] = [bodies[b] EXCEPT !.alive = FALSE]
      /\ \A k \in 1 .. N : k # a /\ k # b => bodies'[k] = bodies[k]
  BY DEF Absorb
<1>3. B = A \ {b} /\ a \in A /\ b \in A
  BY <1>1 DEF Alive
<1>4. \A k \in 1 .. N : /\ bodies[k].mass \in Int /\ bodies[k].mom \in Int
                        /\ bodies'[k].mass \in Int /\ bodies'[k].mom \in Int
  BY <1>1 DEF Body
<1>5. A \subseteq 1 .. N /\ IsFiniteSet(A)
      /\ B \subseteq 1 .. N /\ IsFiniteSet(B)
  BY AliveFinite
<1>6. /\ TotalMass(bodies) = Total(m, A)
      /\ TotalMass(bodies') = Total(n, B)
      /\ TotalMomentum(bodies) = Total(p, A)
      /\ TotalMomentum(bodies') = Total(q, B)
  BY <1>3, <1>4, <1>5, MassIsTotal, MomentumIsTotal
<1>7. /\ \A k \in A : m[k] \in Int
      /\ \A k \in A : p[k] \in Int
      /\ Moves(m, A, n, B, a, b) /\ Moves(p, A, q, B, a, b)
  <2>1. n[a] = m[a] + m[b] /\ q[a] = p[a] + p[b]
    BY <1>2 DEF Merged
  <2>2. \A k \in A : k # a /\ k # b => n[k] = m[k] /\ q[k] = p[k]
    BY <1>2, <1>5
  <2>3. QED BY <1>3, <1>4, <1>5, <2>1, <2>2 DEF Moves
<1> HIDE DEF A, B, m, n, p, q
<1>8. Total(n, B) = Total(m, A)
  <2>1. IsFiniteSet(A) /\ (\A k \in A : m[k] \in Int) /\ Moves(m, A, n, B, a, b)
    BY <1>5, <1>7
  <2>2. QED BY ONLY <2>1, TotalMerged
<1>9. Total(q, B) = Total(p, A)
  <2>1. IsFiniteSet(A) /\ (\A k \in A : p[k] \in Int) /\ Moves(p, A, q, B, a, b)
    BY <1>5, <1>7
  <2>2. QED BY ONLY <2>1, TotalMerged
<1>10. QED BY <1>6, <1>8, <1>9

-----------------------------------------------------------------------------
(* Mass and momentum *)

\* Every prefix of a pass in which no ghost took part conserves the mass and
\* the momentum of the living: a merge of two living bodies moves both, and a
\* pair that does not collide changes neither.
THEOREM MassAndMomentumConserved == Spec => []ConservedWithoutGhosts
<1>1. Init => ConservedWithoutGhosts
  BY DEF Init, ConservedWithoutGhosts
<1>2. IInv /\ ConservedWithoutGhosts /\ [Next]_vars => ConservedWithoutGhosts'
  <2> SUFFICES ASSUME IInv, ConservedWithoutGhosts, [Next]_vars
               PROVE  ConservedWithoutGhosts'
    OBVIOUS
  <2>1. CASE Rk4Step
    BY <2>1 DEF Rk4Step, ConservedWithoutGhosts
  <2>2. CASE Merge
    <3> SUFFICES ASSUME ~ghostMerge' PROVE ConservedWithoutGhosts'
      BY DEF ConservedWithoutGhosts
    <3>1. /\ i \in 1 .. N /\ j \in 1 .. N /\ j # i
          /\ bodies[i].alive /\ bodies[j].alive
          /\ phase = "pair" /\ ~ghostMerge
          /\ UNCHANGED <<phase, before>>
          /\ TypeOK
      <4>1. N \in Nat /\ TypeOK /\ RowKeepsAlive
        BY CollisionsAssumption DEF IInv
      <4>2. /\ phase = "pair" /\ j <= N /\ Collides(i, j)
            /\ ~ghostMerge /\ bodies[i].alive
            /\ UNCHANGED <<phase, before>>
        BY <2>2, Zenon DEF Merge
      <4>3. i \in 1 .. N /\ j \in 1 .. N /\ j # i
        BY <4>1, <4>2 DEF TypeOK, RowKeepsAlive
      <4>4. QED BY <4>1, <4>2, <4>3 DEF Collides
    <3>2. TotalMass(bodies') = TotalMass(bodies)
          /\ TotalMomentum(bodies') = TotalMomentum(bodies)
      <4>1. CASE bodies[j].mass > bodies[i].mass
        <5>1. Absorb(j, i)
          BY <2>2, <4>1 DEF Merge
        <5>2. QED BY <3>1, <5>1, AbsorbConserves
      <4>2. CASE ~(bodies[j].mass > bodies[i].mass)
        <5>1. Absorb(i, j)
          BY <2>2, <4>2 DEF Merge
        <5>2. QED BY <3>1, <5>1, AbsorbConserves
      <4>3. QED BY <4>1, <4>2
    <3>3. QED BY <3>1, <3>2 DEF ConservedWithoutGhosts
  <2>3. CASE EnterRow \/ SkipDeadRow \/ NoCollision \/ EndRow
    <3>1. UNCHANGED <<bodies, before, ghostMerge>> /\ phase # "integrate"
      BY <2>3 DEF EnterRow, SkipDeadRow, NoCollision, EndRow
    <3>2. QED BY <3>1 DEF ConservedWithoutGhosts
  <2>4. CASE EndPass
    BY <2>4 DEF EndPass, ConservedWithoutGhosts
  <2>5. CASE UNCHANGED vars
    BY <2>5 DEF vars, ConservedWithoutGhosts
  <2>6. QED BY <2>1, <2>2, <2>3, <2>4, <2>5 DEF Next
<1>3. QED BY <1>1, <1>2, IInvInit, IInvNext, PTL DEF Spec

-----------------------------------------------------------------------------
(* The quadtree: its inductive invariant *)

NodeType ==
  [x : Int, y : Int, width : Nat \ {0}, mass : Nat, mx : Int, my : Int,
   body : 0 .. NumBodies, internal : BOOLEAN]

TreeTypeOK ==
  /\ m_bodies \in [1 .. NumBodies -> [x : Coord, y : Coord, alive : BOOLEAN]]
  /\ DOMAIN nodes \subseteq Seq(Quadrant)
  /\ nodes \in [DOMAIN nodes -> NodeType]
  /\ next \in 1 .. NumBodies + 1
  /\ calls \in Seq([body : 1 .. NumBodies, path : Seq(Quadrant)])
  /\ crashed \in BOOLEAN
  /\ target \in 0 .. NumBodies
  /\ visits \in Seq(Seq(Quadrant))
  /\ counted \in Nat

\* A square at depth d can be halved down to the bound.
WidthOK(w, d) ==
  LET unit == Pow2[MaxDepth - d] IN
  w > 0 /\ w % (2 * unit) = 0 /\ w <= Unit * unit

SameSquare(n, m) == n.x = m.x /\ n.y = m.y /\ n.width = m.width

\* The nodes are the squares of a quadtree.
Squares ==
  /\ << >> \in DOMAIN nodes
  /\ \A p \in DOMAIN nodes :
       /\ Len(p) <= MaxDepth
       /\ WidthOK(nodes[p].width, Len(p))
       /\ nodes[p].internal =>
            /\ Len(p) < MaxDepth
            /\ nodes[p].body = NoBody
            /\ \A q \in Quadrant :
                 /\ Append(p, q) \in DOMAIN nodes
                 /\ SameSquare(nodes[Append(p, q)], Child(nodes[p], q))

\* What is below a node is below an internal node of the tree.
Rooted(p, q) ==
  Append(p, q) \in DOMAIN nodes => p \in DOMAIN nodes /\ nodes[p].internal

\* The nodes whose square a body is in form a path from the root to a leaf.
OnePath(b) ==
  /\ Inside(nodes[<< >>], b)
  /\ \E p \in DOMAIN nodes : ~nodes[p].internal /\ Inside(nodes[p], b)
  /\ \A p, r \in DOMAIN nodes :
       Inside(nodes[p], b) /\ Inside(nodes[r], b) =>
         /\ Len(p) = Len(r) => p = r
         /\ ~nodes[p].internal => Len(r) <= Len(p)

\* The pending calls for b are below depth d: its nodes down to d have been given b.
Passed(b, d) ==
  \A k \in 1 .. Len(calls) : calls[k].body = b => d < Len(calls[k].path)

\* The bodies a node has been given so far.
Given(p) == {b \in Inserted : Inside(nodes[p], b) /\ Passed(b, Len(p))}

\* Twice the distance of the centre of mass to the middle is at most the width.
Centred(n) ==
  /\ 2 * (n.mx - n.mass * n.x) <= n.mass * n.width
  /\ 2 * (n.mx - n.mass * n.x) >= -(n.mass * n.width)
  /\ 2 * (n.my - n.mass * n.y) <= n.mass * n.width
  /\ 2 * (n.my - n.mass * n.y) >= -(n.mass * n.width)

\* A node weighs what it was given, and a leaf has been given its body only.
Weighs(p) ==
  LET n == nodes[p] IN
  /\ n.mass = MassOf(Given(p))
  /\ n.mx = MomentX(m_bodies, Given(p))
  /\ n.my = MomentY(m_bodies, Given(p))
  /\ n.mass = 0 => Given(p) = {}
  /\ Centred(n)
  /\ ~n.internal => Given(p) = IF n.body = NoBody THEN {} ELSE {n.body}

\* A call is for an inserted body, at a node around it.
CallOK(c) ==
  /\ c.body \in Inserted
  /\ c.path \in DOMAIN nodes
  /\ Inside(nodes[c.path], c.body)

\* Each pending call is at a node around its body; the second one waits while the
\* body that was in the leaf before goes into an empty subtree.
Pending ==
  /\ Len(calls) <= 2
  /\ \A k \in 1 .. Len(calls) : CallOK(calls[k])
  /\ Len(calls) = 2 =>
       /\ calls[1].body # calls[2].body
       /\ ~nodes[calls[1].path].internal
       /\ nodes[calls[1].path].body = NoBody

\* Two living bodies in the same place.
Coincident ==
  \E b, c \in Living :
    b # c /\ m_bodies[b].x = m_bodies[c].x /\ m_bodies[b].y = m_bodies[c].y

\* The bodies in the squares of some nodes.
Under(vs) == {b \in Living : \E k \in 1 .. Len(vs) : Inside(nodes[vs[k]], b)}

\* Nothing has been lost: the mass c that was counted and the bodies of s make up
\* all bodies but the target; or all bodies, when the target is no longer in s and
\* an internal node around it is narrow enough to have been taken as a whole.
Paid(c, s) ==
  \/ c + MassOf(s \ {target}) = MassOf(Living \ {target})
  \/ SoftenedNodes # {} /\ target \notin s /\ c + MassOf(s) = MassOf(Living)

\* No body is under two nodes still to visit, and those nodes and what was counted
\* make up the whole.
Traversal ==
  /\ target # NoBody => Built /\ target \in Living
  /\ target = NoBody => visits = << >>
  /\ \A k \in 1 .. Len(visits) : visits[k] \in DOMAIN nodes
  /\ \A k, l \in 1 .. Len(visits) : \A b \in Living :
       Inside(nodes[visits[k]], b) /\ Inside(nodes[visits[l]], b) => k = l
  /\ target # NoBody => Paid(counted, Under(visits))

TreeShape ==
  /\ Squares
  /\ \A p \in Seq(Quadrant), q \in Quadrant : Rooted(p, q)
  /\ \A b \in Living : OnePath(b)

TreeInv ==
  /\ TreeShape
  /\ ~crashed => Pending /\ \A p \in DOMAIN nodes : Weighs(p)
  /\ crashed => calls = << >> /\ Coincident
  /\ Traversal

-----------------------------------------------------------------------------
(* Powers of two *)

\* A set of natural numbers that holds 0 and, with every number, its successor
\* holds them all.
LEMMA NatSetInduction ==
  ASSUME NEW S, 0 \in S, \A n \in Nat : n \in S => n + 1 \in S
  PROVE  Nat \subseteq S
<1> DEFINE B == Nat \ S
<1> SUFFICES ASSUME B # {} PROVE FALSE
  OBVIOUS
<1>1. PICK m \in B : \A k \in B : ~(<<k, m>> \in OpToRel(<, Nat))
  BY NatLessThanWellFounded, WFMin
<1>2. m - 1 \in Nat /\ m - 1 \in B
  BY DEF B
<1>3. <<m - 1, m>> \in OpToRel(<, Nat)
  BY <1>2 DEF OpToRel
<1>4. QED BY <1>1, <1>2, <1>3

\* Pow2 is the function its equation describes.
LEMMA Pow2Values ==
  /\ Pow2[0] = 1
  /\ \A d \in 0 .. MaxDepth : Pow2[d] \in Nat \ {0}
  /\ \A d \in 0 .. MaxDepth : d # 0 => Pow2[d] = 2 * Pow2[d - 1]
<1> DEFINE Doubles(g, m) ==
             /\ g \in [0 .. m -> Nat \ {0}]
             /\ \A d \in 0 .. m : g[d] = IF d = 0 THEN 1 ELSE 2 * g[d - 1]
           S == {m \in Nat : \E g : Doubles(g, m)}
<1>1. 0 \in S
  <2>1. Doubles([d \in 0 .. 0 |-> 1], 0)
    OBVIOUS
  <2>2. QED BY <2>1
<1>2. ASSUME NEW m \in Nat, m \in S PROVE m + 1 \in S
  <2>1. PICK g : Doubles(g, m)
    BY <1>2
  <2> DEFINE h == [d \in 0 .. m + 1 |-> IF d = m + 1 THEN 2 * g[m] ELSE g[d]]
  <2>2. h \in [0 .. m + 1 -> Nat \ {0}]
    BY <2>1
  <2>3. ASSUME NEW d \in 0 .. m + 1
        PROVE  h[d] = IF d = 0 THEN 1 ELSE 2 * h[d - 1]
    <3>1. CASE d = m + 1
      BY <2>1, <3>1
    <3>2. CASE d # m + 1
      BY <2>1, <3>2
    <3>3. QED BY <3>1, <3>2
  <2> HIDE DEF h
  <2>4. Doubles(h, m + 1)
    BY <2>2, <2>3
  <2> HIDE DEF Doubles
  <2>5. QED BY <2>4
<1>3. MaxDepth \in S
  <2> HIDE DEF S
  <2>1. Nat \subseteq S
    BY <1>1, <1>2, NatSetInduction
  <2>2. QED BY <2>1, QuadTreeAssumption
<1>4. PICK g : Doubles(g, MaxDepth)
  BY <1>3
<1> DEFINE Def(it) == [d \in 0 .. MaxDepth |-> IF d = 0 THEN 1 ELSE 2 * it[d - 1]]
<1>5. g = Def(g)
  BY <1>4
<1>6. Pow2 = (CHOOSE it : it = Def(it))
  BY DEF Pow2
<1> HIDE DEF Def
<1>7. Pow2 = Def(Pow2)
  BY <1>5, <1>6
<1>8. \A d \in 0 .. MaxDepth : Pow2[d] = IF d = 0 THEN 1 ELSE 2 * Pow2[d - 1]
  BY <1>7 DEF Def
<1> DEFINE R == {m \in Nat : m <= MaxDepth => Pow2[m] \in Nat \ {0}}
<1>9. Nat \subseteq R
  <2>1. 0 \in R
    BY <1>8, QuadTreeAssumption
  <2>2. ASSUME NEW m \in Nat, m \in R PROVE m + 1 \in R
    <3>1. m + 1 <= MaxDepth => Pow2[m + 1] = 2 * Pow2[m] /\ Pow2[m] \in Nat \ {0}
      BY <1>8, <2>2, QuadTreeAssumption
    <3>2. QED BY <3>1
  <2> HIDE DEF R
  <2>3. QED BY <2>1, <2>2, NatSetInduction
<1>10. QED BY <1>8, <1>9, QuadTreeAssumption

LEMMA UnitPositive == Unit \in Nat \ {0}
BY Pow2Values, QuadTreeAssumption DEF Unit

-----------------------------------------------------------------------------
(* Squares *)

LEMMA MultipleOf ==
  ASSUME NEW a \in Nat \ {0}, NEW c \in Int
  PROVE  (a * c) % a = 0
OBVIOUS

\* The width of a square above the bound is a multiple of 4, and its half is the
\* width of a square one level below.
LEMMA WidthHalves ==
  ASSUME NEW w \in Int, NEW d \in Nat, d < MaxDepth, WidthOK(w, d)
  PROVE  w % 4 = 0 /\ WidthOK(w \div 2, d + 1)
<1> DEFINE u == Pow2[MaxDepth - (d + 1)]
<1>1. u \in Nat \ {0} /\ Pow2[MaxDepth - d] = 2 * u
  BY Pow2Values, QuadTreeAssumption
<1>2. w > 0 /\ w % (2 * (2 * u)) = 0 /\ w <= Unit * (2 * u)
  BY <1>1 DEF WidthOK
<1>3. PICK c \in Int : w = (2 * (2 * u)) * c
  <2>1. 2 * (2 * u) \in Nat \ {0}
    BY <1>1
  <2>2. w = (2 * (2 * u)) * (w \div (2 * (2 * u)))
    BY <1>2, <2>1
  <2>3. QED BY <2>1, <2>2
<1>4. u * c \in Int /\ w = 4 * (u * c)
  BY <1>1, <1>3
<1>5. w % 4 = 0 /\ w \div 2 = 2 * (u * c)
  BY <1>4
<1>6. (w \div 2) % (2 * u) = 0
  <2>1. w \div 2 = (2 * u) * c
    BY <1>1, <1>5
  <2>2. ((2 * u) * c) % (2 * u) = 0
    <3>1. 2 * u \in Nat \ {0}
      BY <1>1
    <3>2. QED BY <3>1, MultipleOf
  <2>3. QED BY <2>1, <2>2
<1>7. w \div 2 > 0
  BY <1>2, <1>4, <1>5
<1>8. w \div 2 <= Unit * u
  <2>1. Unit * u \in Nat
    BY <1>1, UnitPositive
  <2>2. Unit * (2 * u) = 2 * (Unit * u)
    BY <1>1, UnitPositive
  <2>3. QED BY <1>2, <2>1, <2>2
<1> HIDE DEF u
<1>9. QED BY <1>5, <1>6, <1>7, <1>8 DEF WidthOK, u

\* Two bodies on the grid in a square at the bound are in the same place.
LEMMA SameLine ==
  ASSUME NEW x \in Coord, NEW y \in Coord, NEW c \in Int, NEW w \in Int,
         WidthOK(w, MaxDepth),
         2 * (x - c) >= -w, 2 * (x - c) < w, 2 * (y - c) >= -w, 2 * (y - c) < w
  PROVE  x = y
<1>1. x \in Int /\ y \in Int /\ x % Unit = 0 /\ y % Unit = 0
  BY QuadTreeAssumption, GridAssumption
<1>2. w <= Unit
  BY UnitPositive, Pow2Values, QuadTreeAssumption DEF WidthOK
<1>3. x - y < Unit /\ y - x < Unit
  BY <1>1, <1>2, UnitPositive
<1> DEFINE a == x \div Unit
           b == y \div Unit
<1>4. a \in Int /\ b \in Int /\ x = Unit * a /\ y = Unit * b
  BY <1>1, UnitPositive
<1> HIDE DEF a, b
<1>5. Unit * (a - b) < Unit /\ Unit * (b - a) < Unit
  BY <1>3, <1>4, UnitPositive
<1>6. a - b < 1 /\ b - a < 1
  BY <1>4, <1>5, UnitPositive
<1>7. QED BY <1>4, <1>6

SquareType(n) == n.x \in Int /\ n.y \in Int /\ n.width \in Nat \ {0}

LEMMA Coordinates ==
  ASSUME TreeTypeOK, NEW b \in 1 .. NumBodies
  PROVE  /\ m_bodies[b].x \in Int /\ m_bodies[b].y \in Int
         /\ m_bodies[b].x \in Coord /\ m_bodies[b].y \in Coord
BY QuadTreeAssumption DEF TreeTypeOK

LEMMA QuadrantOfType ==
  ASSUME NEW n, NEW b
  PROVE  QuadrantOf(n, b) \in Quadrant
<1>1. (IF m_bodies[b].x < n.x THEN 0 ELSE 1) \in 0 .. 1
      /\ (IF m_bodies[b].y < n.y THEN 0 ELSE 2) \in {0, 2}
  OBVIOUS
<1>2. QED BY <1>1 DEF QuadrantOf, Quadrant

\* The four squares of a subdivision part their square: a body is in the one
\* that getQuadrant says, if it is in the square at all, and in no other.
LEMMA ChildSquares ==
  ASSUME NEW n, SquareType(n), n.width % 4 = 0, NEW q \in Quadrant,
         NEW b, m_bodies[b].x \in Int, m_bodies[b].y \in Int
  PROVE  Inside(Child(n, q), b) <=> Inside(n, b) /\ q = QuadrantOf(n, b)
<1> DEFINE k == n.width \div 4
           dx == m_bodies[b].x - n.x
           dy == m_bodies[b].y - n.y
           west == q \in {0, 2}
           north == q \in {0, 1}
<1>1. /\ k \in Nat \ {0} /\ n.width = 4 * k /\ n.width \div 2 = 2 * k
      /\ dx \in Int /\ dy \in Int /\ n.x \in Int /\ n.y \in Int
  BY DEF SquareType
<1>2. Inside(n, b) <=> dx >= -2 * k /\ dx < 2 * k /\ dy >= -2 * k /\ dy < 2 * k
  <2>1. Inside(n, b) <=> 2 * dx >= -(4 * k) /\ 2 * dx < 4 * k
                         /\ 2 * dy >= -(4 * k) /\ 2 * dy < 4 * k
    BY <1>1 DEF Inside
  <2> HIDE DEF k, dx, dy
  <2>2. QED BY <1>1, <2>1
<1>3. /\ Child(n, q).x = IF west THEN n.x - k ELSE n.x + k
      /\ Child(n, q).y = IF north THEN n.y - k ELSE n.y + k
      /\ Child(n, q).width = 2 * k
  BY <1>1 DEF Child, Node
<1>4. q = QuadrantOf(n, b) <=> (west <=> dx < 0) /\ (north <=> dy < 0)
  <2>1. QuadrantOf(n, b) = (IF dx < 0 THEN 0 ELSE 1) + (IF dy < 0 THEN 0 ELSE 2)
    BY <1>1 DEF QuadrantOf
  <2> HIDE DEF dx, dy
  <2>2. QED BY <1>1, <2>1 DEF Quadrant
<1>5. Inside(Child(n, q), b)
        <=> /\ IF west THEN dx >= -2 * k /\ dx < 0 ELSE dx >= 0 /\ dx < 2 * k
            /\ IF north THEN dy >= -2 * k /\ dy < 0 ELSE dy >= 0 /\ dy < 2 * k
  <2>1. /\ m_bodies[b].x - Child(n, q).x = IF west THEN dx + k ELSE dx - k
        /\ m_bodies[b].y - Child(n, q).y = IF north THEN dy + k ELSE dy - k
    BY <1>1, <1>3
  <2> DEFINE ex == m_bodies[b].x - Child(n, q).x
             ey == m_bodies[b].y - Child(n, q).y
  <2>2. Inside(Child(n, q), b) <=> 2 * ex >= -(2 * k) /\ 2 * ex < 2 * k
                                   /\ 2 * ey >= -(2 * k) /\ 2 * ey < 2 * k
    BY <1>3 DEF Inside
  <2> HIDE DEF ex, ey, k, dx, dy, west, north
  <2>3. ex = IF west THEN dx + k ELSE dx - k
    BY <2>1 DEF ex
  <2>4. ey = IF north THEN dy + k ELSE dy - k
    BY <2>1 DEF ey
  <2>5. QED BY <1>1, <2>2, <2>3, <2>4
<1> HIDE DEF k, dx, dy, west, north
<1>6. QED BY <1>1, <1>2, <1>4, <1>5

LEMMA ChildType ==
  ASSUME NEW n, SquareType(n), n.width % 4 = 0, NEW q \in Quadrant
  PROVE  /\ Child(n, q) \in NodeType
         /\ Child(n, q).width = n.width \div 2
         /\ Child(n, q).mass = 0 /\ Child(n, q).mx = 0 /\ Child(n, q).my = 0
         /\ Child(n, q).body = NoBody /\ ~Child(n, q).internal
<1>1. n.width \div 2 \in Nat \ {0} /\ n.width \div 4 \in Nat
  BY DEF SquareType
<1>2. NoBody \in 0 .. NumBodies
  BY QuadTreeAssumption DEF NoBody
<1>3. ASSUME NEW x \in Int, NEW y \in Int, NEW w \in Nat \ {0}
      PROVE  /\ Node(x, y, w) \in NodeType
             /\ Node(x, y, w).width = w
             /\ Node(x, y, w).mass = 0 /\ Node(x, y, w).mx = 0 /\ Node(x, y, w).my = 0
             /\ Node(x, y, w).body = NoBody /\ ~Node(x, y, w).internal
  BY <1>2, FALSE \in BOOLEAN DEF Node, NodeType
<1> DEFINE x == IF q \in {0, 2} THEN n.x - (n.width \div 4) ELSE n.x + (n.width \div 4)
           y == IF q \in {0, 1} THEN n.y - (n.width \div 4) ELSE n.y + (n.width \div 4)
<1>4. x \in Int /\ y \in Int
  BY <1>1 DEF SquareType
<1>5. Child(n, q) = Node(x, y, n.width \div 2)
  BY DEF Child
<1> HIDE DEF x, y
<1>6. QED BY <1>1, <1>3, <1>4, <1>5

-----------------------------------------------------------------------------
(* The root *)

\* A finite nonempty set of integers has a greatest and a least member.
LEMMA Extremes ==
  ASSUME NEW U, IsFiniteSet(U), U # {}
  PROVE  U \subseteq Int =>
         /\ Max(U) \in U /\ \A x \in U : x <= Max(U)
         /\ Min(U) \in U /\ \A x \in U : Min(U) <= x
<1>a. \A C \in SUBSET (SUBSET U) :
        C # {} => \E T \in C : \A V \in C : V \subseteq T => V = T
  BY SmallestSet
<1> SUFFICES ASSUME U \subseteq Int
             PROVE  /\ Max(U) \in U /\ \A x \in U : x <= Max(U)
                    /\ Min(U) \in U /\ \A x \in U : Min(U) <= x
  OBVIOUS
<1> DEFINE Great(s) == \E m \in s : \A x \in s : x <= m
           Least(s) == \E m \in s : \A x \in s : m <= x
           B == {s \in SUBSET U : s # {} /\ ~(Great(s) /\ Least(s))}
<1>0. B \in SUBSET (SUBSET U)
  OBVIOUS
<1> HIDE DEF B
<1>1. ASSUME B # {} PROVE FALSE
  <2>1. PICK T \in B : \A V \in B : V \subseteq T => V = T
    BY <1>0, <1>1, <1>a
  <2>2. PICK a \in T : TRUE
    BY DEF B
  <2>3. a \in Int /\ T \in SUBSET Int
    BY DEF B
  <2>4. CASE T = {a}
    BY <2>3, <2>4 DEF B
  <2>5. CASE T # {a}
    <3>1. T \ {a} # {} /\ T \ {a} \in SUBSET U /\ T \ {a} # T
      BY <2>2, <2>5 DEF B
    <3>2. Great(T \ {a}) /\ Least(T \ {a})
      BY <2>1, <3>1 DEF B
    <3>3. PICK m \in T \ {a} : \A x \in T \ {a} : x <= m
      BY <3>2
    <3>4. PICK l \in T \ {a} : \A x \in T \ {a} : l <= x
      BY <3>2
    <3>5. m \in Int /\ l \in Int
      BY <2>3
    <3>6. Great(T)
      <4>1. CASE a <= m
        BY <3>3, <4>1
      <4>2. CASE ~(a <= m)
        <5>1. \A x \in T : x <= a
          BY <2>3, <3>3, <3>5, <4>2
        <5>2. QED BY <5>1, <2>2
      <4>3. QED BY <4>1, <4>2
    <3>7. Least(T)
      <4>1. CASE l <= a
        BY <3>4, <4>1
      <4>2. CASE ~(l <= a)
        <5>1. \A x \in T : a <= x
          BY <2>3, <3>4, <3>5, <4>2
        <5>2. QED BY <5>1, <2>2
      <4>3. QED BY <4>1, <4>2
    <3>8. QED BY <3>6, <3>7, <2>1 DEF B
  <2>6. QED BY <2>4, <2>5
<1> HIDE DEF Great, Least
<1>2. Great(U) /\ Least(U)
  BY <1>1 DEF B
<1>3. /\ \E m \in U : \A x \in U : m >= x
      /\ \E l \in U : \A x \in U : l <= x
  BY <1>2 DEF Great, Least
<1>5. Max(U) \in U /\ \A x \in U : Max(U) >= x
  BY <1>3 DEF Max
<1>6. Min(U) \in U /\ \A x \in U : Min(U) <= x
  BY <1>3 DEF Min
<1>7. QED BY <1>5, <1>6

\* The greater of two numbers.
LEMMA MaxOfTwo ==
  ASSUME NEW a \in Int, NEW b \in Int
  PROVE  Max({a, b}) = IF a >= b THEN a ELSE b
<1>1. {a, b} \in SUBSET Int /\ {a, b} # {}
  OBVIOUS
<1>4. IsFiniteSet({a, b})
  <2>1. IsFiniteSet({a})
    BY FS_Singleton
  <2>2. IsFiniteSet({a} \cup {b})
    BY <2>1, FS_AddElement
  <2>3. {a} \cup {b} = {a, b}
    OBVIOUS
  <2>4. QED BY <2>2, <2>3
<1>2. Max({a, b}) \in {a, b} /\ a <= Max({a, b}) /\ b <= Max({a, b})
  BY <1>1, <1>4, Extremes
<1>3. QED BY <1>2

LEMMA UnitEven == \E v \in Nat : Unit = 2 * v
<1>1. ASSUME MaxDepth = 0 PROVE FALSE
  <2>1. Unit = 1
    BY <1>1, Pow2Values DEF Unit
  <2>2. MinWidth % 2 = 0 /\ MinWidth <= 1
    BY <2>1, GridAssumption
  <2>3. QED BY <2>2, QuadTreeAssumption
<1>2. MaxDepth \in 0 .. MaxDepth /\ MaxDepth - 1 \in 0 .. MaxDepth
  BY <1>1, QuadTreeAssumption
<1>3. Unit = 2 * Pow2[MaxDepth - 1] /\ Pow2[MaxDepth - 1] \in Nat
  BY <1>1, <1>2, Pow2Values DEF Unit
<1>4. QED BY <1>3

LEMMA LivingFinite ==
  Living \subseteq 1 .. NumBodies /\ IsFiniteSet(Living)
<1>1. Living \subseteq 1 .. NumBodies
  BY DEF Living
<1>2. IsFiniteSet(1 .. NumBodies)
  BY QuadTreeAssumption, FS_Interval
<1>3. QED BY <1>1, <1>2, FS_Subset

\* A coordinate between lo and hi is in an interval of width w around the middle
\* of lo and hi, if w is a positive multiple of 4 and at least twice as wide.
LEMMA InMiddle ==
  ASSUME NEW lo \in Int, NEW hi \in Int, NEW x \in Int, NEW w \in Nat \ {0},
         lo <= x, x <= hi, w % 4 = 0, w >= 2 * (hi - lo)
  PROVE  /\ 2 * (x - ((lo + hi) \div 2)) >= -w
         /\ 2 * (x - ((lo + hi) \div 2)) < w
<1> DEFINE c == (lo + hi) \div 2
<1>1. c \in Int /\ 2 * c <= lo + hi /\ lo + hi <= 2 * c + 1
  OBVIOUS
<1> HIDE DEF c
<1>2. 2 * (x - c) >= -w
  BY <1>1
<1>3. 2 * (x - c) <= hi - lo + 1
  BY <1>1
<1>4. w >= 4
  OBVIOUS
<1>5. 2 * (x - c) < w
  BY <1>1, <1>3, <1>4
<1>6. QED BY <1>2, <1>5 DEF c

\* The root is as wide as the stack can halve, and all living bodies are in it.
LEMMA RootHolds ==
  ASSUME m_bodies \in [1 .. NumBodies -> [x : Coord, y : Coord, alive : BOOLEAN]]
  PROVE  /\ Root(m_bodies) \in NodeType
         /\ WidthOK(Root(m_bodies).width, 0)
         /\ \A b \in Living : Inside(Root(m_bodies), b)
         /\ Root(m_bodies).mass = 0
         /\ Root(m_bodies).mx = 0 /\ Root(m_bodies).my = 0
         /\ Root(m_bodies).body = NoBody /\ ~Root(m_bodies).internal
<1> DEFINE alive == {b \in 1 .. NumBodies : m_bodies[b].alive}
           xs == {m_bodies[b].x : b \in alive}
           ys == {m_bodies[b].y : b \in alive}
           dx == Max(xs) - Min(xs)
           dy == Max(ys) - Min(ys)
           span == Max({dx, dy})
           width == Max({2 * span, MinWidth})
<1>1. ASSUME NEW x \in Int, NEW y \in Int, NEW w \in Nat \ {0}
      PROVE  /\ Node(x, y, w) \in NodeType
             /\ Node(x, y, w).x = x /\ Node(x, y, w).y = y
             /\ Node(x, y, w).width = w
             /\ Node(x, y, w).mass = 0 /\ Node(x, y, w).mx = 0 /\ Node(x, y, w).my = 0
             /\ Node(x, y, w).body = NoBody /\ ~Node(x, y, w).internal
  <2>1. NoBody \in 0 .. NumBodies
    BY QuadTreeAssumption DEF NoBody
  <2>2. QED BY <2>1, FALSE \in BOOLEAN DEF Node, NodeType
<1>2. ASSUME NEW w \in Nat \ {0}, w % (2 * Unit) = 0, w <= Unit * Unit
      PROVE  WidthOK(w, 0)
  BY <1>2, QuadTreeAssumption DEF WidthOK, Unit
<1>3. alive = Living
  BY DEF Living
<1>4. CASE alive = {}
  <2>1. Root(m_bodies) = Node(0, 0, MinWidth)
    BY <1>4 DEF Root
  <2>2. MinWidth \in Nat \ {0} /\ WidthOK(MinWidth, 0)
    BY <1>2, QuadTreeAssumption, GridAssumption
  <2>3. \A b \in Living : FALSE
    BY <1>3, <1>4
  <2> HIDE DEF alive
  <2>4. QED BY <1>1, <2>1, <2>2, <2>3
<1>5. CASE alive # {}
  <2>1. /\ xs \in SUBSET Coord /\ ys \in SUBSET Coord
        /\ xs # {} /\ ys # {}
    BY <1>5
  <2>2. IsFiniteSet(xs) /\ IsFiniteSet(ys)
    <3>1. IsFiniteSet(alive)
      BY <1>3, LivingFinite
    <3> DEFINE fx == [b \in alive |-> m_bodies[b].x]
               fy == [b \in alive |-> m_bodies[b].y]
    <3>2. fx \in Surjection(alive, xs) /\ fy \in Surjection(alive, ys)
      BY DEF Surjection
    <3> HIDE DEF alive, xs, ys, fx, fy
    <3>3. QED BY <3>1, <3>2, FS_Surjection
  <2>3. /\ Max(xs) \in xs /\ Min(xs) \in xs /\ Max(ys) \in ys /\ Min(ys) \in ys
        /\ \A x \in xs : Min(xs) <= x /\ x <= Max(xs)
        /\ \A y \in ys : Min(ys) <= y /\ y <= Max(ys)
    <3>1. xs \in SUBSET Int /\ ys \in SUBSET Int
      BY <2>1, QuadTreeAssumption
    <3> HIDE DEF xs, ys
    <3>2. QED BY <2>1, <2>2, <3>1, Extremes
  <2> DEFINE x0 == Min(xs)
             x1 == Max(xs)
             y0 == Min(ys)
             y1 == Max(ys)
  <2>4. /\ x0 \in Coord /\ x1 \in Coord /\ y0 \in Coord /\ y1 \in Coord
        /\ x0 \in Int /\ x1 \in Int /\ y0 \in Int /\ y1 \in Int
    BY <2>1, <2>3, QuadTreeAssumption
  <2>5. x0 <= x1 /\ y0 <= y1
    BY <2>3
  <2>6. /\ dx = x1 - x0 /\ dy = y1 - y0
        /\ dx \in Nat /\ dy \in Nat
    BY <2>4, <2>5
  <2>7. span \in {dx, dy} /\ dx <= span /\ dy <= span /\ span \in Nat
    <3>0. span = Max({dx, dy})
      OBVIOUS
    <3> HIDE DEF dx, dy, span
    <3>1. span = IF dx >= dy THEN dx ELSE dy
      BY <2>6, <3>0, MaxOfTwo, Nat \subseteq Int
    <3>2. QED BY <2>6, <3>1
  <2>8. width \in {2 * span, MinWidth} /\ 2 * span <= width /\ width \in Nat \ {0}
    <3> HIDE DEF span
    <3>1. width = IF 2 * span >= MinWidth THEN 2 * span ELSE MinWidth
      <4> HIDE DEF width
      <4>1. 2 * span \in Int /\ MinWidth \in Int
        BY <2>7, QuadTreeAssumption
      <4>2. QED BY <4>1, MaxOfTwo DEF width
    <3> HIDE DEF width
    <3>2. QED BY <2>7, <3>1, QuadTreeAssumption
  <2>9. Root(m_bodies) = Node((x0 + x1) \div 2, (y0 + y1) \div 2, width)
    BY <1>5 DEF Root
  <2>10. ASSUME NEW lo \in Coord, NEW hi \in Coord
         PROVE  (2 * (hi - lo)) % (2 * Unit) = 0 /\ 2 * (hi - lo) <= Unit * Unit
    <3>1. lo \in Int /\ hi \in Int /\ lo % Unit = 0 /\ hi % Unit = 0
      BY QuadTreeAssumption, GridAssumption
    <3> DEFINE a == lo \div Unit
               b == hi \div Unit
    <3>2. a \in Int /\ b \in Int /\ lo = Unit * a /\ hi = Unit * b
      BY <3>1, UnitPositive
    <3> HIDE DEF a, b
    <3>3. 2 * (hi - lo) = (2 * Unit) * (b - a)
      BY <3>2, UnitPositive
    <3>4. 2 * Unit \in Nat \ {0} /\ b - a \in Int
      BY <3>2, UnitPositive
    <3>5. ((2 * Unit) * (b - a)) % (2 * Unit) = 0
      BY <3>4, MultipleOf
    <3>6. QED BY <3>3, <3>5, GridAssumption
  <2>11. width % (2 * Unit) = 0 /\ width <= Unit * Unit
    <3> HIDE DEF width, span
    <3>1. (2 * span) % (2 * Unit) = 0 /\ 2 * span <= Unit * Unit
      BY <2>4, <2>6, <2>7, <2>10
    <3>2. QED BY <2>8, <3>1, GridAssumption
  <2>12. width % 4 = 0
    <3> HIDE DEF width
    <3>1. 2 * Unit \in Nat \ {0}
      BY UnitPositive
    <3>2. PICK k \in Int : width = (2 * Unit) * k
      <4>1. width = (2 * Unit) * (width \div (2 * Unit))
        BY <2>8, <2>11, <3>1
      <4>2. QED BY <2>8, <3>1, <4>1
    <3>3. PICK v \in Nat : Unit = 2 * v
      BY UnitEven
    <3>4. v * k \in Int /\ width = 4 * (v * k)
      BY <3>2, <3>3
    <3>5. QED BY <3>4
  <2>13. ASSUME NEW b \in Living
         PROVE  Inside(Root(m_bodies), b)
    <3>1. m_bodies[b].x \in xs /\ m_bodies[b].y \in ys
      BY <1>3
    <3> DEFINE x == m_bodies[b].x
               y == m_bodies[b].y
    <3>2. /\ x \in Int /\ y \in Int
          /\ x0 <= x /\ x <= x1 /\ y0 <= y /\ y <= y1
      BY <2>1, <2>3, <3>1, QuadTreeAssumption
    <3>3. width >= 2 * (x1 - x0) /\ width >= 2 * (y1 - y0)
      <4> HIDE DEF width, span, dx, dy, x0, x1, y0, y1
      <4>1. QED BY <2>4, <2>6, <2>7, <2>8
    <3>4. /\ Root(m_bodies).x = (x0 + x1) \div 2
          /\ Root(m_bodies).y = (y0 + y1) \div 2
          /\ Root(m_bodies).width = width
      <4> HIDE DEF width, x0, x1, y0, y1
      <4>1. (x0 + x1) \div 2 \in Int /\ (y0 + y1) \div 2 \in Int
        BY <2>4
      <4>2. QED BY <1>1, <2>8, <2>9, <4>1
    <3> HIDE DEF x, y, x0, x1, y0, y1, width
    <3>5. /\ 2 * (x - ((x0 + x1) \div 2)) >= -width
          /\ 2 * (x - ((x0 + x1) \div 2)) < width
      BY <2>4, <2>8, <2>12, <3>2, <3>3, InMiddle
    <3>6. /\ 2 * (y - ((y0 + y1) \div 2)) >= -width
          /\ 2 * (y - ((y0 + y1) \div 2)) < width
      BY <2>4, <2>8, <2>12, <3>2, <3>3, InMiddle
    <3>7. QED BY <3>4, <3>5, <3>6 DEF Inside, x, y
  <2>14. WidthOK(width, 0)
    <3> HIDE DEF width
    <3>1. QED BY <1>2, <2>8, <2>11
  <2> HIDE DEF width, x0, x1, y0, y1
  <2>15. (x0 + x1) \div 2 \in Int /\ (y0 + y1) \div 2 \in Int
    BY <2>4
  <2>16. QED BY <1>1, <2>8, <2>9, <2>13, <2>14, <2>15
<1>6. QED BY <1>4, <1>5

-----------------------------------------------------------------------------
(* What a set of bodies weighs *)

\* Nothing adds up to 0.
LEMMA TotalEmpty ==
  ASSUME NEW f
  PROVE  Total(f, {}) = 0
<1>1. IsFiniteSet({}) /\ \A x \in {} : f[x] \in Int
  BY FS_EmptySet
<1>2. PICK g \in [SUBSET {} -> Int] : Adds(g, f, {})
  BY <1>1, AddsExists
<1>3. g[{}] = 0
  BY <1>2, {} \in SUBSET {} DEF Adds
<1>4. QED BY <1>1, <1>2, <1>3, TotalIs

\* The three folds of module QuadTree are sums over a set.
WeightX == [b \in 1 .. NumBodies |-> BodyMass[b] * m_bodies[b].x]

WeightY == [b \in 1 .. NumBodies |-> BodyMass[b] * m_bodies[b].y]

LEMMA WeightTypes ==
  ASSUME TreeTypeOK, NEW b \in 1 .. NumBodies
  PROVE  /\ BodyMass[b] \in Int /\ BodyMass[b] > 0
         /\ WeightX[b] \in Int /\ WeightX[b] = BodyMass[b] * m_bodies[b].x
         /\ WeightY[b] \in Int /\ WeightY[b] = BodyMass[b] * m_bodies[b].y
<1>1. BodyMass[b] \in Nat \ {0}
  BY QuadTreeAssumption
<1>2. m_bodies[b].x \in Int /\ m_bodies[b].y \in Int
  BY Coordinates
<1>3. QED BY <1>1, <1>2 DEF WeightX, WeightY

LEMMA PartFinite ==
  ASSUME NEW s, s \subseteq 1 .. NumBodies
  PROVE  IsFiniteSet(s)
<1>1. IsFiniteSet(1 .. NumBodies)
  BY QuadTreeAssumption, FS_Interval
<1>2. QED BY <1>1, FS_Subset

LEMMA MassOfIsTotal ==
  ASSUME TreeTypeOK, NEW S, S \subseteq 1 .. NumBodies
  PROVE  MassOf(S) = Total(BodyMass, S)
<1>0. IsFiniteSet(S) /\ \A x \in S : BodyMass[x] \in Int
  BY PartFinite, WeightTypes
<1>1. PICK g \in [SUBSET S -> Int] : Adds(g, BodyMass, S)
  BY <1>0, AddsExists
<1> DEFINE Def(it) == [s \in SUBSET S |->
                 IF s = {} THEN 0
                 ELSE BodyMass[CHOOSE x \in s : TRUE]
                        + it[s \ {CHOOSE x \in s : TRUE}]]
<1>2. ASSUME NEW s \in SUBSET S, s # {}
      PROVE  BodyMass[Pick(s)] = BodyMass[Pick(s)]
  BY <1>2, PickIn, WeightTypes
<1>3. ASSUME NEW it, it = Def(it)
      PROVE  Adds(it, BodyMass, S)
  BY <1>2, <1>3 DEF Adds, Pick
<1>4. g = Def(g)
  <2>1. ASSUME NEW s \in SUBSET S
        PROVE  g[s] = Def(g)[s]
    BY <1>1, <1>2 DEF Adds, Pick
  <2>2. QED BY <1>1, <2>1
<1>5. MassOf(S) = (CHOOSE it : it = Def(it))[S]
  BY DEF MassOf, MapThenSumSet, MapThenFoldSet
<1> HIDE DEF Def
<1>6. Adds(CHOOSE it : it = Def(it), BodyMass, S)
  BY <1>3, <1>4
<1>7. QED BY <1>0, <1>5, <1>6, TotalIs

LEMMA MomentXIsTotal ==
  ASSUME TreeTypeOK, NEW S, S \subseteq 1 .. NumBodies
  PROVE  MomentX(m_bodies, S) = Total(WeightX, S)
<1>0. IsFiniteSet(S) /\ \A x \in S : WeightX[x] \in Int
  BY PartFinite, WeightTypes
<1>1. PICK g \in [SUBSET S -> Int] : Adds(g, WeightX, S)
  BY <1>0, AddsExists
<1> DEFINE Def(it) == [s \in SUBSET S |->
                 IF s = {} THEN 0
                 ELSE BodyMass[CHOOSE x \in s : TRUE] * m_bodies[CHOOSE x \in s : TRUE].x
                        + it[s \ {CHOOSE x \in s : TRUE}]]
<1>2. ASSUME NEW s \in SUBSET S, s # {}
      PROVE  WeightX[Pick(s)] = BodyMass[Pick(s)] * m_bodies[Pick(s)].x
  BY <1>2, PickIn, WeightTypes
<1>3. ASSUME NEW it, it = Def(it)
      PROVE  Adds(it, WeightX, S)
  BY <1>2, <1>3 DEF Adds, Pick
<1>4. g = Def(g)
  <2>1. ASSUME NEW s \in SUBSET S
        PROVE  g[s] = Def(g)[s]
    BY <1>1, <1>2 DEF Adds, Pick
  <2>2. QED BY <1>1, <2>1
<1>5. MomentX(m_bodies, S) = (CHOOSE it : it = Def(it))[S]
  BY DEF MomentX, MapThenSumSet, MapThenFoldSet
<1> HIDE DEF Def
<1>6. Adds(CHOOSE it : it = Def(it), WeightX, S)
  BY <1>3, <1>4
<1>7. QED BY <1>0, <1>5, <1>6, TotalIs

LEMMA MomentYIsTotal ==
  ASSUME TreeTypeOK, NEW S, S \subseteq 1 .. NumBodies
  PROVE  MomentY(m_bodies, S) = Total(WeightY, S)
<1>0. IsFiniteSet(S) /\ \A x \in S : WeightY[x] \in Int
  BY PartFinite, WeightTypes
<1>1. PICK g \in [SUBSET S -> Int] : Adds(g, WeightY, S)
  BY <1>0, AddsExists
<1> DEFINE Def(it) == [s \in SUBSET S |->
                 IF s = {} THEN 0
                 ELSE BodyMass[CHOOSE x \in s : TRUE] * m_bodies[CHOOSE x \in s : TRUE].y
                        + it[s \ {CHOOSE x \in s : TRUE}]]
<1>2. ASSUME NEW s \in SUBSET S, s # {}
      PROVE  WeightY[Pick(s)] = BodyMass[Pick(s)] * m_bodies[Pick(s)].y
  BY <1>2, PickIn, WeightTypes
<1>3. ASSUME NEW it, it = Def(it)
      PROVE  Adds(it, WeightY, S)
  BY <1>2, <1>3 DEF Adds, Pick
<1>4. g = Def(g)
  <2>1. ASSUME NEW s \in SUBSET S
        PROVE  g[s] = Def(g)[s]
    BY <1>1, <1>2 DEF Adds, Pick
  <2>2. QED BY <1>1, <2>1
<1>5. MomentY(m_bodies, S) = (CHOOSE it : it = Def(it))[S]
  BY DEF MomentY, MapThenSumSet, MapThenFoldSet
<1> HIDE DEF Def
<1>6. Adds(CHOOSE it : it = Def(it), WeightY, S)
  BY <1>3, <1>4
<1>7. QED BY <1>0, <1>5, <1>6, TotalIs

\* What a set of bodies weighs when one body joins it.
LEMMA Joined ==
  ASSUME TreeTypeOK, NEW s, s \subseteq 1 .. NumBodies,
         NEW b \in 1 .. NumBodies, b \notin s
  PROVE  /\ MassOf(s \cup {b}) = MassOf(s) + BodyMass[b]
         /\ MomentX(m_bodies, s \cup {b})
              = MomentX(m_bodies, s) + BodyMass[b] * m_bodies[b].x
         /\ MomentY(m_bodies, s \cup {b})
              = MomentY(m_bodies, s) + BodyMass[b] * m_bodies[b].y
         /\ MassOf(s) \in Int /\ MomentX(m_bodies, s) \in Int /\ MomentY(m_bodies, s) \in Int
<1> DEFINE t == s \cup {b}
<1>1. /\ t \subseteq 1 .. NumBodies /\ b \in t /\ t \ {b} = s
      /\ IsFiniteSet(t) /\ IsFiniteSet(s)
  BY PartFinite
<1>2. \A x \in t : BodyMass[x] \in Int /\ WeightX[x] \in Int /\ WeightY[x] \in Int
  BY <1>1, WeightTypes
<1> HIDE DEF t
<1>3. /\ Total(BodyMass, t) = BodyMass[b] + Total(BodyMass, s)
      /\ Total(WeightX, t) = WeightX[b] + Total(WeightX, s)
      /\ Total(WeightY, t) = WeightY[b] + Total(WeightY, s)
  BY <1>1, <1>2, TotalWithout
<1>4. \A x \in s : BodyMass[x] \in Int /\ WeightX[x] \in Int /\ WeightY[x] \in Int
  BY <1>2 DEF t
<1>5. Total(BodyMass, s) \in Int /\ Total(WeightX, s) \in Int /\ Total(WeightY, s) \in Int
  BY <1>1, <1>4, TotalIs
<1>6. /\ MassOf(t) = Total(BodyMass, t) /\ MassOf(s) = Total(BodyMass, s)
      /\ MomentX(m_bodies, t) = Total(WeightX, t) /\ MomentX(m_bodies, s) = Total(WeightX, s)
      /\ MomentY(m_bodies, t) = Total(WeightY, t) /\ MomentY(m_bodies, s) = Total(WeightY, s)
  BY <1>1, MassOfIsTotal, MomentXIsTotal, MomentYIsTotal
<1>7. /\ BodyMass[b] \in Int
      /\ WeightX[b] \in Int /\ WeightX[b] = BodyMass[b] * m_bodies[b].x
      /\ WeightY[b] \in Int /\ WeightY[b] = BodyMass[b] * m_bodies[b].y
  BY WeightTypes
<1>8. QED BY <1>3, <1>5, <1>6, <1>7 DEF t

LEMMA NobodyWeighs ==
  ASSUME TreeTypeOK
  PROVE  MassOf({}) = 0 /\ MomentX(m_bodies, {}) = 0 /\ MomentY(m_bodies, {}) = 0
BY TotalEmpty, MassOfIsTotal, MomentXIsTotal, MomentYIsTotal

LEMMA MassOfType ==
  ASSUME TreeTypeOK, NEW s, s \subseteq 1 .. NumBodies
  PROVE  MassOf(s) \in Int
<1>1. \A x \in s : BodyMass[x] \in Int
  BY WeightTypes
<1>2. Total(BodyMass, s) \in Int
  BY <1>1, PartFinite, TotalIs
<1>3. QED BY <1>2, MassOfIsTotal

\* What two sets of bodies without a common body weigh together.
LEMMA TogetherWeigh ==
  ASSUME TreeTypeOK, NEW s, s \subseteq 1 .. NumBodies,
         NEW t, t \subseteq 1 .. NumBodies, s \cap t = {}
  PROVE  MassOf(s \cup t) = MassOf(s) + MassOf(t)
<1> DEFINE U == 1 .. NumBodies
           B == {v \in SUBSET U :
                   s \cap v = {} /\ MassOf(s \cup v) # MassOf(s) + MassOf(v)}
<1> SUFFICES ASSUME B # {} PROVE FALSE
  OBVIOUS
<1>0. IsFiniteSet(U)
  BY PartFinite
<1>1. PICK T \in B : \A V \in B : V \subseteq T => V = T
  <2>1. B \in SUBSET (SUBSET U)
    OBVIOUS
  <2> HIDE DEF B, U
  <2>2. QED BY <1>0, <2>1, SmallestSet
<1>2. /\ T \subseteq 1 .. NumBodies /\ s \cap T = {}
      /\ MassOf(s \cup T) # MassOf(s) + MassOf(T)
  OBVIOUS
<1>3. CASE T = {}
  <2>1. MassOf(T) = 0 /\ MassOf(s) \in Int
    BY <1>3, NobodyWeighs, MassOfType
  <2>2. s \cup T = s
    BY <1>3
  <2>3. MassOf(s \cup T) = MassOf(s)
    BY <2>2
  <2>4. QED BY <1>2, <2>1, <2>3
<1>4. CASE T # {}
  <2>1. PICK b \in T : TRUE
    BY <1>4
  <2> DEFINE V == T \ {b}
             u == s \cup V
  <2>2. /\ s \cap V = {} /\ V # T /\ V \subseteq T /\ b \notin V
        /\ V \cup {b} = T /\ u \cup {b} = s \cup T /\ b \notin u
        /\ b \in 1 .. NumBodies
        /\ V \subseteq 1 .. NumBodies /\ u \subseteq 1 .. NumBodies
    BY <1>2, <2>1
  <2>3. V \notin B
    BY <1>1, <2>2
  <2>4. MassOf(u) = MassOf(s) + MassOf(V)
    BY <2>2, <2>3
  <2> HIDE DEF V, u
  <2>5. /\ MassOf(T) = MassOf(V) + BodyMass[b] /\ MassOf(V) \in Int
        /\ MassOf(s \cup T) = MassOf(u) + BodyMass[b]
    BY <2>2, Joined
  <2>6. MassOf(s) \in Int /\ BodyMass[b] \in Int
    BY <2>2, MassOfType, WeightTypes
  <2>7. QED BY <1>2, <2>4, <2>5, <2>6
<1>5. QED BY <1>3, <1>4

-----------------------------------------------------------------------------
(* The steps of insert *)

LEMMA InsideSame ==
  ASSUME NEW n, NEW m, SameSquare(n, m), NEW b
  PROVE  Inside(n, b) <=> Inside(m, b)
BY DEF SameSquare, Inside

Call == [body : 1 .. NumBodies, path : Seq(Quadrant)]

LEMMA InsertType ==
  ASSUME NEW b \in 1 .. NumBodies, NEW p \in Seq(Quadrant)
  PROVE  /\ Insert(b, p) \in Call
         /\ Insert(b, p).body = b /\ Insert(b, p).path = p
BY DEF Insert, Call

LEMMA AppendType ==
  ASSUME NEW p \in Seq(Quadrant), NEW q \in Quadrant
  PROVE  /\ Append(p, q) \in Seq(Quadrant)
         /\ Len(Append(p, q)) = Len(p) + 1
         /\ Append(p, q)[Len(p) + 1] = q
         /\ Append(p, q) # p /\ Append(p, q) # << >>
         /\ \A r \in Seq(Quadrant), s \in Quadrant :
              Append(p, q) = Append(r, s) => p = r /\ q = s
<1>1. /\ Append(p, q) \in Seq(Quadrant) /\ Len(Append(p, q)) = Len(p) + 1
      /\ Append(p, q)[Len(p) + 1] = q
  BY AppendProperties
<1>2. ASSUME NEW r \in Seq(Quadrant), NEW s \in Quadrant, Append(p, q) = Append(r, s)
      PROVE  p = r /\ q = s
  BY <1>2, AppendInjective
<1>3. Len(p) \in Nat
  BY LenProperties
<1>4. Append(p, q) # p /\ Append(p, q) # << >>
  BY <1>1, <1>3
<1>5. QED BY <1>1, <1>2, <1>4

\* What weighing a body changes of a node.
LEMMA WeighedFields ==
  ASSUME TreeTypeOK, NEW n \in NodeType, NEW b \in 1 .. NumBodies
  PROVE  /\ Weighed(n, b) \in NodeType
         /\ Weighed(n, b).mass = n.mass + BodyMass[b]
         /\ Weighed(n, b).mx = n.mx + BodyMass[b] * m_bodies[b].x
         /\ Weighed(n, b).my = n.my + BodyMass[b] * m_bodies[b].y
         /\ SameSquare(Weighed(n, b), n)
         /\ Weighed(n, b).body = n.body /\ Weighed(n, b).internal = n.internal
<1> DEFINE a == n.mass + BodyMass[b]
           x == n.mx + BodyMass[b] * m_bodies[b].x
           y == n.my + BodyMass[b] * m_bodies[b].y
<1>1. a \in Nat /\ x \in Int /\ y \in Int
  <2>1. /\ BodyMass[b] \in Nat /\ m_bodies[b].x \in Int /\ m_bodies[b].y \in Int
    BY Coordinates, QuadTreeAssumption
  <2>2. n.mass \in Nat /\ n.mx \in Int /\ n.my \in Int
    BY DEF NodeType
  <2>3. QED BY <2>1, <2>2
<1>2. Weighed(n, b) = [n EXCEPT !.mass = a, !.mx = x, !.my = y]
  BY DEF Weighed, NodeType
<1> HIDE DEF a, x, y
<1>3. /\ Weighed(n, b) \in NodeType
      /\ Weighed(n, b).mass = a /\ Weighed(n, b).mx = x /\ Weighed(n, b).my = y
      /\ Weighed(n, b).x = n.x /\ Weighed(n, b).y = n.y /\ Weighed(n, b).width = n.width
      /\ Weighed(n, b).body = n.body /\ Weighed(n, b).internal = n.internal
  BY <1>1, <1>2 DEF NodeType
<1>4. QED BY <1>3 DEF a, x, y, SameSquare

\* A node that was weighed keeps its square and changes its other fields.
\* The call being served.
Serving(b, p) == calls # << >> /\ b = Head(calls).body /\ p = Head(calls).path

LEMMA ServingFacts ==
  ASSUME TreeTypeOK, TreeInv, NEW b, NEW p, Serving(b, p)
  PROVE  /\ ~crashed
         /\ b \in 1 .. NumBodies /\ b \in Living /\ b \in Inserted /\ b # NoBody
         /\ p \in Seq(Quadrant) /\ p \in DOMAIN nodes
         /\ nodes[p] \in NodeType
         /\ Inside(nodes[p], b)
         /\ Len(calls) \in 1 .. 2 /\ calls[1].body = b /\ calls[1].path = p
         /\ Tail(calls) \in Seq(Call) /\ Len(Tail(calls)) = Len(calls) - 1
         /\ \A k \in 1 .. Len(Tail(calls)) : Tail(calls)[k] = calls[k + 1]
         /\ (nodes[p].internal \/ nodes[p].body # NoBody) =>
              Len(calls) = 1 /\ Tail(calls) = << >>
<1>1. calls \in Seq(Call) /\ calls # << >>
  BY DEF TreeTypeOK, Call, Serving
<1>2. /\ Head(calls) = calls[1] /\ Head(calls) \in Call
      /\ Len(calls) \in Nat /\ Len(calls) >= 1
      /\ Tail(calls) \in Seq(Call) /\ Len(Tail(calls)) = Len(calls) - 1
      /\ \A k \in 1 .. Len(Tail(calls)) : Tail(calls)[k] = calls[k + 1]
  BY <1>1, HeadTailProperties, EmptySeq, LenProperties
<1>3. ~crashed /\ Pending
  BY <1>1 DEF TreeInv, TreeShape, TreeTypeOK
<1>4. Len(calls) \in 1 .. 2 /\ CallOK(calls[1])
  BY <1>2, <1>3 DEF Pending
<1>5. b = calls[1].body /\ p = calls[1].path
  BY <1>2 DEF Serving
<1>6. b \in Inserted /\ p \in DOMAIN nodes /\ Inside(nodes[p], b)
  BY <1>4, <1>5 DEF CallOK
<1>7. b \in Living /\ b \in 1 .. NumBodies /\ b # NoBody
  BY <1>6 DEF Inserted, Living, NoBody
<1>8. p \in Seq(Quadrant) /\ nodes[p] \in NodeType
  BY <1>6 DEF TreeTypeOK
<1>9. ASSUME nodes[p].internal \/ nodes[p].body # NoBody
      PROVE  Len(calls) = 1 /\ Tail(calls) = << >>
  <2>1. Len(calls) = 1
    BY <1>3, <1>4, <1>5, <1>9 DEF Pending
  <2>2. Len(Tail(calls)) = 0
    BY <1>2, <2>1
  <2>3. QED BY <1>2, <2>1, <2>2, EmptySeq
<1>10. QED BY <1>2, <1>3, <1>4, <1>5, <1>6, <1>7, <1>8, <1>9

\* One call weighs its body in its node and leaves the other nodes as they are.
Takes(b, p) ==
  /\ nodes' \in [DOMAIN nodes' -> NodeType]
  /\ DOMAIN nodes \subseteq DOMAIN nodes'
  /\ \A r \in DOMAIN nodes : SameSquare(nodes'[r], nodes[r])
  /\ \A r \in DOMAIN nodes : r # p => nodes'[r] = nodes[r]
  /\ nodes'[p].mass = nodes[p].mass + BodyMass[b]
  /\ nodes'[p].mx = nodes[p].mx + BodyMass[b] * m_bodies[b].x
  /\ nodes'[p].my = nodes[p].my + BodyMass[b] * m_bodies[b].y
  /\ UNCHANGED <<m_bodies, next, crashed, force>>

LEMMA StoreTakes ==
  ASSUME TreeTypeOK, TreeInv, StoreBody, NEW b, NEW p, Serving(b, p)
  PROVE  /\ Takes(b, p)
         /\ DOMAIN nodes' = DOMAIN nodes
         /\ calls' = Tail(calls)
         /\ ~nodes[p].internal /\ nodes[p].body = NoBody
         /\ ~nodes'[p].internal /\ nodes'[p].body = b
<1>1. /\ ~nodes[p].internal /\ nodes[p].body = NoBody
      /\ nodes' = [nodes EXCEPT ![p] = [Weighed(nodes[p], b) EXCEPT !.body = b]]
      /\ calls' = Tail(calls)
      /\ UNCHANGED <<m_bodies, next, crashed, force>>
  BY DEF StoreBody, Serving
<1>2. /\ b \in 1 .. NumBodies /\ p \in DOMAIN nodes /\ nodes[p] \in NodeType
      /\ nodes \in [DOMAIN nodes -> NodeType]
  BY ServingFacts DEF TreeTypeOK
<1> DEFINE w == Weighed(nodes[p], b)
           n == [w EXCEPT !.body = b]
<1>3. /\ w \in NodeType
      /\ w.mass = nodes[p].mass + BodyMass[b]
      /\ w.mx = nodes[p].mx + BodyMass[b] * m_bodies[b].x
      /\ w.my = nodes[p].my + BodyMass[b] * m_bodies[b].y
      /\ SameSquare(w, nodes[p])
      /\ w.internal = nodes[p].internal
  BY <1>2, WeighedFields
<1> HIDE DEF w
<1>4. /\ n \in NodeType /\ n.mass = w.mass /\ n.mx = w.mx /\ n.my = w.my
      /\ SameSquare(n, nodes[p]) /\ n.internal = w.internal /\ n.body = b
  BY <1>2, <1>3 DEF NodeType, SameSquare
<1>5. nodes' = [nodes EXCEPT ![p] = n]
  BY <1>1 DEF w
<1> HIDE DEF n
<1>6. /\ DOMAIN nodes' = DOMAIN nodes /\ nodes'[p] = n
      /\ \A r \in DOMAIN nodes : r # p => nodes'[r] = nodes[r]
      /\ nodes' \in [DOMAIN nodes -> NodeType]
  BY <1>2, <1>4, <1>5
<1>7. \A r \in DOMAIN nodes : SameSquare(nodes'[r], nodes[r])
  BY <1>4, <1>6 DEF SameSquare
<1>8. QED BY <1>1, <1>3, <1>4, <1>6, <1>7 DEF Takes

LEMMA DescendTakes ==
  ASSUME TreeTypeOK, TreeInv, Descend, NEW b, NEW p, Serving(b, p)
  PROVE  /\ Takes(b, p)
         /\ DOMAIN nodes' = DOMAIN nodes
         /\ nodes[p].internal /\ nodes'[p].internal
         /\ nodes'[p].body = nodes[p].body
         /\ calls' = <<Insert(b, Append(p, QuadrantOf(nodes[p], b)))>>
<1>1. /\ nodes[p].internal
      /\ nodes' = [nodes EXCEPT ![p] = Weighed(nodes[p], b)]
      /\ calls' = <<Insert(b, Append(p, QuadrantOf(nodes[p], b)))>> \o Tail(calls)
      /\ UNCHANGED <<m_bodies, next, crashed, force>>
  BY DEF Descend, Serving
<1>2. /\ b \in 1 .. NumBodies /\ p \in DOMAIN nodes /\ nodes[p] \in NodeType
      /\ nodes \in [DOMAIN nodes -> NodeType]
      /\ Tail(calls) = << >> /\ p \in Seq(Quadrant)
  BY <1>1, ServingFacts DEF TreeTypeOK
<1> DEFINE w == Weighed(nodes[p], b)
<1>3. /\ w \in NodeType
      /\ w.mass = nodes[p].mass + BodyMass[b]
      /\ w.mx = nodes[p].mx + BodyMass[b] * m_bodies[b].x
      /\ w.my = nodes[p].my + BodyMass[b] * m_bodies[b].y
      /\ SameSquare(w, nodes[p])
      /\ w.internal = nodes[p].internal /\ w.body = nodes[p].body
  BY <1>2, WeighedFields
<1> HIDE DEF w
<1>4. nodes' = [nodes EXCEPT ![p] = w]
  BY <1>1 DEF w
<1>5. /\ DOMAIN nodes' = DOMAIN nodes /\ nodes'[p] = w
      /\ \A r \in DOMAIN nodes : r # p => nodes'[r] = nodes[r]
      /\ nodes' \in [DOMAIN nodes -> NodeType]
  BY <1>2, <1>3, <1>4
<1>6. \A r \in DOMAIN nodes : SameSquare(nodes'[r], nodes[r])
  BY <1>3, <1>5 DEF SameSquare
<1> DEFINE c == <<Insert(b, Append(p, QuadrantOf(nodes[p], b)))>>
<1>7. c \in Seq(Call)
  <2>1. Append(p, QuadrantOf(nodes[p], b)) \in Seq(Quadrant)
    BY <1>2, QuadrantOfType, AppendType
  <2>2. Insert(b, Append(p, QuadrantOf(nodes[p], b))) \in Call
    BY <1>2, <2>1, InsertType
  <2> HIDE DEF Insert
  <2>3. QED BY <2>2
<1>8. calls' = c
  <2> HIDE DEF c
  <2>1. c \o << >> = c
    BY <1>7, ConcatEmptySeq
  <2>2. calls' = c \o << >>
    BY <1>1, <1>2 DEF c
  <2>3. QED BY <2>1, <2>2
<1>9. QED BY <1>1, <1>3, <1>5, <1>6, <1>8 DEF Takes

\* A split above the bound.
LEMMA SplitTakes ==
  ASSUME TreeTypeOK, TreeInv, SplitLeaf, NEW b, NEW p, Serving(b, p),
         Len(p) # MaxDepth
  PROVE  /\ Takes(b, p)
         /\ Len(p) < MaxDepth
         /\ ~nodes[p].internal /\ nodes[p].body # NoBody
         /\ nodes[p].body \in 1 .. NumBodies
         /\ nodes'[p].internal /\ nodes'[p].body = NoBody
         /\ \A r : r \in DOMAIN nodes' <=>
                  r \in DOMAIN nodes \/ \E q \in Quadrant : r = Append(p, q)
         /\ \A q \in Quadrant : /\ Append(p, q) \notin DOMAIN nodes
                                /\ nodes'[Append(p, q)] = Child(nodes[p], q)
         /\ calls' = AfterSplit(nodes[p], p, b)
<1> DEFINE below == {Append(p, q) : q \in Quadrant}
           w == Weighed(nodes[p], b)
           n == [w EXCEPT !.body = NoBody, !.internal = TRUE]
<1>1. /\ ~nodes[p].internal /\ nodes[p].body # NoBody
      /\ nodes' = [r \in DOMAIN nodes \cup below |->
                     IF r = p THEN n
                     ELSE IF r \in below THEN Child(nodes[p], r[Len(r)]) ELSE nodes[r]]
      /\ calls' = AfterSplit(nodes[p], p, b) \o Tail(calls)
      /\ UNCHANGED <<m_bodies, next, crashed, force>>
  BY DEF SplitLeaf, Serving
<1>2. /\ b \in 1 .. NumBodies /\ p \in DOMAIN nodes /\ nodes[p] \in NodeType
      /\ nodes \in [DOMAIN nodes -> NodeType]
      /\ Tail(calls) = << >> /\ p \in Seq(Quadrant)
  BY <1>1, ServingFacts DEF TreeTypeOK
<1>3. nodes[p].body \in 1 .. NumBodies
  BY <1>1, <1>2 DEF NodeType, NoBody
<1>4. Squares /\ \A q \in Quadrant : Rooted(p, q)
  BY <1>2 DEF TreeInv, TreeShape
<1>5. Len(p) \in Nat /\ Len(p) < MaxDepth /\ WidthOK(nodes[p].width, Len(p))
  BY <1>2, <1>4, LenProperties, QuadTreeAssumption DEF Squares
<1>6. SquareType(nodes[p]) /\ nodes[p].width % 4 = 0
  BY <1>2, <1>5, WidthHalves DEF SquareType, NodeType
<1>7. \A q \in Quadrant :
        /\ Append(p, q) \in Seq(Quadrant) /\ Append(p, q) # p
        /\ Append(p, q)[Len(Append(p, q))] = q
        /\ Append(p, q) \notin DOMAIN nodes
        /\ Child(nodes[p], q) \in NodeType
  BY <1>1, <1>2, <1>4, <1>6, AppendType, ChildType DEF Rooted
<1>8. /\ w \in NodeType
      /\ w.mass = nodes[p].mass + BodyMass[b]
      /\ w.mx = nodes[p].mx + BodyMass[b] * m_bodies[b].x
      /\ w.my = nodes[p].my + BodyMass[b] * m_bodies[b].y
      /\ SameSquare(w, nodes[p])
  BY <1>2, WeighedFields
<1> HIDE DEF w
<1>9. /\ n \in NodeType /\ SameSquare(n, nodes[p])
      /\ n.mass = w.mass /\ n.mx = w.mx /\ n.my = w.my
      /\ n.body = NoBody /\ n.internal
  <2>1. NoBody \in 0 .. NumBodies /\ TRUE \in BOOLEAN
    BY QuadTreeAssumption DEF NoBody
  <2>2. QED BY <1>8, <2>1 DEF NodeType, SameSquare
<1> HIDE DEF n
<1>10. /\ DOMAIN nodes' = DOMAIN nodes \cup below /\ nodes'[p] = n
       /\ \A r \in DOMAIN nodes : r # p => nodes'[r] = nodes[r]
       /\ \A q \in Quadrant : nodes'[Append(p, q)] = Child(nodes[p], q)
  <2>1. DOMAIN nodes' = DOMAIN nodes \cup below /\ nodes'[p] = n
    BY <1>1, <1>2
  <2>2. ASSUME NEW r \in DOMAIN nodes, r # p PROVE nodes'[r] = nodes[r]
    <3>1. r \notin below
      BY <1>7
    <3>2. QED BY <1>1, <2>2, <3>1
  <2>3. ASSUME NEW q \in Quadrant PROVE nodes'[Append(p, q)] = Child(nodes[p], q)
    <3>1. /\ Append(p, q) \in below /\ Append(p, q) # p
          /\ Append(p, q)[Len(Append(p, q))] = q
      BY <1>7
    <3> HIDE DEF below
    <3>2. QED BY <1>1, <3>1
  <2>4. QED BY <2>1, <2>2, <2>3
<1>11. nodes' \in [DOMAIN nodes' -> NodeType]
  <2>1. ASSUME NEW r \in DOMAIN nodes' PROVE nodes'[r] \in NodeType
    <3>1. CASE r = p
      BY <1>9, <1>10, <3>1
    <3>2. CASE r # p /\ r \in DOMAIN nodes
      BY <1>2, <1>10, <3>2
    <3>3. CASE r \in below
      BY <1>7, <1>10, <3>3
    <3>4. QED BY <1>10, <3>1, <3>2, <3>3
  <2>2. nodes' = [r \in DOMAIN nodes' |-> nodes'[r]]
    BY <1>1
  <2>3. QED BY <2>1, <2>2
<1>12. \A r \in DOMAIN nodes : SameSquare(nodes'[r], nodes[r])
  BY <1>9, <1>10 DEF SameSquare
<1>13. calls' = AfterSplit(nodes[p], p, b)
  <2>1. AfterSplit(nodes[p], p, b) \in Seq(Call)
    <3> DEFINE c == Insert(nodes[p].body, Append(p, QuadrantOf(nodes[p], nodes[p].body)))
               d == Insert(b, Append(p, QuadrantOf(nodes[p], b)))
    <3>1. c \in Call /\ d \in Call
      BY <1>2, <1>3, QuadrantOfType, AppendType, InsertType
    <3>2. AfterSplit(nodes[p], p, b) = <<c, d>>
      BY DEF AfterSplit
    <3> HIDE DEF c, d
    <3>3. <<c, d>> \in Seq(Call)
      BY <3>1
    <3>4. QED BY <3>2, <3>3
  <2>2. AfterSplit(nodes[p], p, b) \o << >> = AfterSplit(nodes[p], p, b)
    BY <2>1, ConcatEmptySeq
  <2>3. QED BY <1>1, <1>2, <2>2
<1>14. Takes(b, p)
  BY <1>1, <1>8, <1>9, <1>10, <1>11, <1>12 DEF Takes
<1>15. \A r : r \in DOMAIN nodes' <=>
                r \in DOMAIN nodes \/ \E q \in Quadrant : r = Append(p, q)
  BY <1>10
<1> HIDE DEF below
<1>16. QED BY <1>1, <1>3, <1>5, <1>7, <1>9, <1>10, <1>13, <1>14, <1>15

-----------------------------------------------------------------------------
(* What the nodes have been given *)

\* A body weighed in a square it is in leaves the centre of mass in the square.
LEMMA CentredGrows ==
  ASSUME NEW c \in Int, NEW w \in Nat, NEW a \in Nat, NEW s \in Int,
         NEW m \in Nat, NEW x \in Int,
         2 * (s - a * c) <= a * w, 2 * (s - a * c) >= -(a * w),
         2 * (x - c) <= w, 2 * (x - c) >= -w
  PROVE  /\ 2 * ((s + m * x) - (a + m) * c) <= (a + m) * w
         /\ 2 * ((s + m * x) - (a + m) * c) >= -((a + m) * w)
<1> DEFINE e == s - a * c
           f == x - c
<1>1. e \in Int /\ f \in Int /\ a * w \in Int /\ m * w \in Int /\ m * f \in Int
  OBVIOUS
<1>2. (s + m * x) - (a + m) * c = e + m * f
  OBVIOUS
<1>3. (a + m) * w = a * w + m * w
  OBVIOUS
<1>4. 2 * (m * f) <= m * w /\ 2 * (m * f) >= -(m * w)
  <2>1. 2 * f <= w /\ 2 * f >= -w
    OBVIOUS
  <2> HIDE DEF e, f
  <2>2. m * (2 * f) <= m * w /\ m * (2 * f) >= m * (-w)
    BY <1>1, <2>1
  <2>3. m * (2 * f) = 2 * (m * f) /\ m * (-w) = -(m * w)
    BY <1>1
  <2>4. QED BY <2>2, <2>3
<1>5. 2 * e <= a * w /\ 2 * e >= -(a * w)
  OBVIOUS
<1> HIDE DEF e, f
<1> DEFINE aw == a * w
           mw == m * w
           mf == m * f
<1>6. 2 * (e + mf) <= aw + mw /\ 2 * (e + mf) >= -(aw + mw)
  <2> HIDE DEF aw, mw, mf
  <2>1. /\ aw \in Int /\ mw \in Int /\ mf \in Int
        /\ 2 * mf <= mw /\ 2 * mf >= -mw /\ 2 * e <= aw /\ 2 * e >= -aw
    BY <1>1, <1>4, <1>5 DEF aw, mw, mf
  <2>2. QED BY <1>1, <2>1
<1>7. QED BY <1>2, <1>3, <1>6

LEMMA CentredTakes ==
  ASSUME TreeTypeOK, NEW n \in NodeType, NEW m \in NodeType, NEW b \in 1 .. NumBodies,
         Centred(n), Inside(n, b), SameSquare(m, n),
         m.mass = n.mass + BodyMass[b],
         m.mx = n.mx + BodyMass[b] * m_bodies[b].x,
         m.my = n.my + BodyMass[b] * m_bodies[b].y
  PROVE  Centred(m)
<1>1. /\ n.x \in Int /\ n.y \in Int /\ n.width \in Nat /\ n.mass \in Nat
      /\ n.mx \in Int /\ n.my \in Int
  BY DEF NodeType
<1>2. BodyMass[b] \in Nat /\ m_bodies[b].x \in Int /\ m_bodies[b].y \in Int
  BY Coordinates, QuadTreeAssumption
<1> DEFINE x == m_bodies[b].x
           y == m_bodies[b].y
<1>3. /\ 2 * (x - n.x) <= n.width /\ 2 * (x - n.x) >= -n.width
      /\ 2 * (y - n.y) <= n.width /\ 2 * (y - n.y) >= -n.width
  BY <1>1, <1>2 DEF Inside
<1> HIDE DEF x, y
<1>4. x \in Int /\ y \in Int
  BY <1>2 DEF x, y
<1>5. /\ 2 * ((n.mx + BodyMass[b] * x) - (n.mass + BodyMass[b]) * n.x)
           <= (n.mass + BodyMass[b]) * n.width
      /\ 2 * ((n.mx + BodyMass[b] * x) - (n.mass + BodyMass[b]) * n.x)
           >= -((n.mass + BodyMass[b]) * n.width)
  BY <1>1, <1>2, <1>3, <1>4, CentredGrows DEF Centred
<1>6. /\ 2 * ((n.my + BodyMass[b] * y) - (n.mass + BodyMass[b]) * n.y)
           <= (n.mass + BodyMass[b]) * n.width
      /\ 2 * ((n.my + BodyMass[b] * y) - (n.mass + BodyMass[b]) * n.y)
           >= -((n.mass + BodyMass[b]) * n.width)
  BY <1>1, <1>2, <1>3, <1>4, CentredGrows DEF Centred
<1>7. QED BY <1>5, <1>6 DEF Centred, SameSquare, x, y

\* The body of a call has passed the nodes above the call's, and once the call is
\* served the node of the call as well.
GivesWay(b, p) ==
  /\ ~Passed(b, Len(p))
  /\ \A c \in Inserted : \A r \in DOMAIN nodes :
       Inside(nodes[r], c) =>
         (Passed(c, Len(r))' <=> Passed(c, Len(r)) \/ (c = b /\ Len(r) = Len(p)))

LEMMA GivenGrows ==
  ASSUME TreeTypeOK, TreeInv, NEW b, NEW p, Serving(b, p),
         Takes(b, p), GivesWay(b, p)
  PROVE  /\ Inserted' = Inserted
         /\ Given(p)' = Given(p) \cup {b} /\ b \notin Given(p)
         /\ \A r \in DOMAIN nodes : r # p => Given(r)' = Given(r)
<1>1. /\ b \in Inserted /\ b \in Living /\ p \in DOMAIN nodes /\ Inside(nodes[p], b)
  BY ServingFacts
<1>2. Living' = Living /\ Inserted' = Inserted
  BY DEF Takes, Living, Inserted
<1>3. ASSUME NEW r \in DOMAIN nodes, NEW c
      PROVE  Inside(nodes[r], c)' <=> Inside(nodes[r], c)
  BY InsideSame DEF Takes, SameSquare, Inside
<1>4. ASSUME NEW r \in DOMAIN nodes, Inside(nodes[r], b), Len(r) = Len(p)
      PROVE  r = p
  <2>1. OnePath(b)
    BY <1>1 DEF TreeInv, TreeShape
  <2>2. QED BY <1>1, <1>4, <2>1 DEF OnePath
<1>5. b \notin Given(p)
  BY DEF GivesWay, Given
<1>6. ASSUME NEW r \in DOMAIN nodes
      PROVE  Given(r)' = IF r = p THEN Given(p) \cup {b} ELSE Given(r)
  <2>1. ASSUME NEW c
        PROVE  c \in Given(r)' <=> c \in Given(r) \/ (c = b /\ r = p)
    <3>1. c \in Given(r)' <=> /\ c \in Inserted /\ Inside(nodes[r], c)
                              /\ Passed(c, Len(r))'
      BY <1>2, <1>3 DEF Given
    <3>2. c \in Given(r) <=> /\ c \in Inserted /\ Inside(nodes[r], c)
                             /\ Passed(c, Len(r))
      BY DEF Given
    <3>3. c \in Inserted /\ Inside(nodes[r], c) =>
            (Passed(c, Len(r))' <=> Passed(c, Len(r)) \/ (c = b /\ Len(r) = Len(p)))
      BY DEF GivesWay
    <3>4. c = b /\ Inside(nodes[r], c) => (Len(r) = Len(p) <=> r = p)
      BY <1>4
    <3>5. c = b /\ r = p => c \in Inserted /\ Inside(nodes[r], c)
      BY <1>1
    <3>6. QED BY <3>1, <3>2, <3>3, <3>4, <3>5
  <2>2. CASE r = p
    BY <2>1, <2>2
  <2>3. CASE r # p
    BY <2>1, <2>3
  <2>4. QED BY <2>2, <2>3
<1>7. QED BY <1>1, <1>2, <1>5, <1>6

\* What a call leaves of the weights: its own node weighs one body more, and the
\* nodes of the tree it found weigh what they were given.
LEMMA WeightsKept ==
  ASSUME TreeTypeOK, TreeInv, NEW b, NEW p, Serving(b, p),
         Takes(b, p), GivesWay(b, p),
         ~nodes'[p].internal => nodes[p].body = NoBody /\ ~nodes[p].internal
                                /\ nodes'[p].body = b
  PROVE  \A r \in DOMAIN nodes : Weighs(r)'
<1>1. /\ b \in 1 .. NumBodies /\ p \in DOMAIN nodes /\ Inside(nodes[p], b)
      /\ nodes[p] \in NodeType /\ b # NoBody /\ ~crashed
  BY ServingFacts
<1>2. \A r \in DOMAIN nodes : Weighs(r)
  BY <1>1 DEF TreeInv, TreeShape
<1>3. /\ Inserted' = Inserted
      /\ Given(p)' = Given(p) \cup {b} /\ b \notin Given(p)
      /\ \A r \in DOMAIN nodes : r # p => Given(r)' = Given(r)
  BY GivenGrows
<1>4. UNCHANGED m_bodies /\ nodes' \in [DOMAIN nodes' -> NodeType]
      /\ p \in DOMAIN nodes'
  BY <1>1 DEF Takes
<1>5. ASSUME NEW r \in DOMAIN nodes, r # p PROVE Weighs(r)'
  <2>1. nodes'[r] = nodes[r] /\ Given(r)' = Given(r)
    BY <1>3, <1>5 DEF Takes
  <2>2. Weighs(r)
    BY <1>2
  <2>3. /\ MassOf(Given(r))' = MassOf(Given(r))
        /\ MomentX(m_bodies, Given(r))' = MomentX(m_bodies, Given(r))
        /\ MomentY(m_bodies, Given(r))' = MomentY(m_bodies, Given(r))
    BY <1>4, <2>1
  <2>4. QED BY <2>1, <2>2, <2>3 DEF Weighs, Centred
<1>6. Weighs(p)'
  <2>1. Weighs(p)
    BY <1>1, <1>2
  <2>2. Given(p) \subseteq 1 .. NumBodies
    BY DEF Given, Inserted, Living
  <2>3. /\ MassOf(Given(p) \cup {b}) = MassOf(Given(p)) + BodyMass[b]
        /\ MomentX(m_bodies, Given(p) \cup {b})
             = MomentX(m_bodies, Given(p)) + BodyMass[b] * m_bodies[b].x
        /\ MomentY(m_bodies, Given(p) \cup {b})
             = MomentY(m_bodies, Given(p)) + BodyMass[b] * m_bodies[b].y
    BY <1>1, <1>3, <2>2, Joined
  <2>4. /\ MassOf(Given(p))' = MassOf(Given(p) \cup {b})
        /\ MomentX(m_bodies, Given(p))' = MomentX(m_bodies, Given(p) \cup {b})
        /\ MomentY(m_bodies, Given(p))' = MomentY(m_bodies, Given(p) \cup {b})
    BY <1>3, <1>4
  <2>5. nodes'[p].mass # 0
    <3>1. nodes[p].mass \in Nat /\ BodyMass[b] \in Nat \ {0}
      BY <1>1, QuadTreeAssumption DEF NodeType
    <3>2. QED BY <3>1 DEF Takes
  <2>6. Centred(nodes'[p])
    BY <1>1, <1>4, <2>1, CentredTakes DEF Takes, Weighs
  <2>7. ~nodes'[p].internal => Given(p)' = {b} /\ nodes'[p].body = b /\ b # NoBody
    BY <1>1, <1>3, <2>1 DEF Weighs
  <2>8. /\ nodes'[p].mass = MassOf(Given(p))'
        /\ nodes'[p].mx = MomentX(m_bodies, Given(p))'
        /\ nodes'[p].my = MomentY(m_bodies, Given(p))'
    BY <2>1, <2>3, <2>4 DEF Takes, Weighs
  <2>9. QED BY <2>5, <2>6, <2>7, <2>8 DEF Weighs, Centred
<1>7. QED BY <1>5, <1>6

-----------------------------------------------------------------------------
(* The squares *)

\* A call that subdivides nothing keeps the squares.
LEMMA ShapeKept ==
  ASSUME TreeTypeOK, TreeInv, NEW b, NEW p, Serving(b, p), Takes(b, p),
         DOMAIN nodes' = DOMAIN nodes,
         nodes'[p].internal = nodes[p].internal,
         nodes[p].internal => nodes'[p].body = nodes[p].body
  PROVE  TreeShape'
<1>1. p \in DOMAIN nodes
  BY ServingFacts
<1>2. /\ Squares
      /\ \A r \in Seq(Quadrant), q \in Quadrant : Rooted(r, q)
      /\ \A c \in Living : OnePath(c)
  BY DEF TreeInv, TreeShape
<1>3. \A r \in DOMAIN nodes :
        /\ SameSquare(nodes'[r], nodes[r])
        /\ nodes'[r].internal = nodes[r].internal
        /\ nodes[r].internal => nodes'[r].body = nodes[r].body
  BY DEF Takes
<1>4. Squares'
  <2>1. ASSUME NEW r \in DOMAIN nodes, nodes'[r].internal, NEW q \in Quadrant
        PROVE  /\ Append(r, q) \in DOMAIN nodes
               /\ SameSquare(nodes'[Append(r, q)], Child(nodes'[r], q))
    <3>1. /\ Append(r, q) \in DOMAIN nodes
          /\ SameSquare(nodes[Append(r, q)], Child(nodes[r], q))
      BY <1>2, <1>3, <2>1 DEF Squares
    <3>2. Child(nodes'[r], q) = Child(nodes[r], q)
      BY <1>3 DEF Child, SameSquare
    <3>3. SameSquare(nodes'[Append(r, q)], nodes[Append(r, q)])
      BY <1>3, <3>1
    <3>4. QED BY <3>1, <3>2, <3>3 DEF SameSquare
  <2>2. ASSUME NEW r \in DOMAIN nodes
        PROVE  /\ Len(r) <= MaxDepth /\ WidthOK(nodes'[r].width, Len(r))
               /\ nodes'[r].internal => Len(r) < MaxDepth /\ nodes'[r].body = NoBody
    <3>1. nodes'[r].width = nodes[r].width
      BY <1>3 DEF SameSquare
    <3>2. QED BY <1>2, <1>3, <3>1 DEF Squares
  <2>3. << >> \in DOMAIN nodes
    BY <1>2 DEF Squares
  <2>4. (\A r \in DOMAIN nodes' :
          /\ Len(r) <= MaxDepth
          /\ WidthOK(nodes'[r].width, Len(r))
          /\ nodes'[r].internal =>
               /\ Len(r) < MaxDepth
               /\ nodes'[r].body = NoBody
               /\ \A q \in Quadrant :
                    /\ Append(r, q) \in DOMAIN nodes'
                    /\ SameSquare(nodes'[Append(r, q)], Child(nodes'[r], q)))
    BY <2>1, <2>2
  <2>5. ASSUME NEW r \in DOMAIN nodes', NEW q \in Quadrant
        PROVE  /\ Child(nodes[r], q)' = Child(nodes'[r], q)
               /\ WidthOK(nodes[r].width, Len(r))' = WidthOK(nodes'[r].width, Len(r))
    BY DEF Child, WidthOK
  <2>6. QED BY <2>3, <2>4, <2>5 DEF Squares
<1>5. (\A r \in Seq(Quadrant), q \in Quadrant : Rooted(r, q))'
  <2>1. \A r \in Seq(Quadrant), q \in Quadrant : Rooted(r, q)'
    BY <1>2, <1>3 DEF Rooted
  <2>2. QED BY <2>1
<1>6. (\A c \in Living : OnePath(c))'
  <2>1. Living' = Living
    BY DEF Takes, Living
  <2>2. ASSUME NEW r \in DOMAIN nodes, NEW c
        PROVE  Inside(nodes[r], c)' <=> Inside(nodes[r], c)
    BY <1>3 DEF Takes, SameSquare, Inside
  <2>3. ASSUME NEW c \in Living PROVE OnePath(c)'
    <3>1. OnePath(c) /\ << >> \in DOMAIN nodes
      BY <1>2 DEF Squares
    <3>2. QED BY <1>3, <2>2, <3>1 DEF OnePath
  <2>4. QED BY <2>1, <2>3
<1>7. QED BY <1>4, <1>5, <1>6 DEF TreeShape

\* A split keeps them: the four new squares part the one that is split.
LEMMA ShapeSplit ==
  ASSUME TreeTypeOK, TreeInv, SplitLeaf, NEW b, NEW p, Serving(b, p),
         Len(p) # MaxDepth
  PROVE  /\ TreeShape'
         /\ \A c \in Living : \A q \in Quadrant :
              Inside(nodes[Append(p, q)], c)' <=>
                Inside(nodes[p], c) /\ q = QuadrantOf(nodes[p], c)
<1> DEFINE below == {Append(p, q) : q \in Quadrant}
<1>0. DOMAIN nodes' = DOMAIN nodes \cup below
  <2>1. \A r : r \in DOMAIN nodes' <=>
                 r \in DOMAIN nodes \/ \E q \in Quadrant : r = Append(p, q)
    BY SplitTakes
  <2>2. QED BY <2>1
<1>1. /\ Takes(b, p)
      /\ Len(p) < MaxDepth
      /\ ~nodes[p].internal
      /\ nodes'[p].internal /\ nodes'[p].body = NoBody
      /\ DOMAIN nodes' = DOMAIN nodes \cup below
      /\ \A q \in Quadrant : /\ Append(p, q) \notin DOMAIN nodes
                             /\ nodes'[Append(p, q)] = Child(nodes[p], q)
  <2> HIDE DEF below
  <2>1. /\ Takes(b, p)
        /\ Len(p) < MaxDepth
        /\ ~nodes[p].internal
        /\ nodes'[p].internal /\ nodes'[p].body = NoBody
        /\ \A q \in Quadrant : /\ Append(p, q) \notin DOMAIN nodes
                               /\ nodes'[Append(p, q)] = Child(nodes[p], q)
    BY SplitTakes
  <2>2. QED BY <1>0, <2>1
<1>2. /\ p \in DOMAIN nodes /\ p \in Seq(Quadrant) /\ nodes[p] \in NodeType
      /\ DOMAIN nodes \subseteq Seq(Quadrant)
  BY ServingFacts DEF TreeTypeOK
<1>3. /\ Squares
      /\ \A r \in Seq(Quadrant), q \in Quadrant : Rooted(r, q)
      /\ \A c \in Living : OnePath(c)
  BY DEF TreeInv, TreeShape
<1>4. \A r \in DOMAIN nodes :
        /\ SameSquare(nodes'[r], nodes[r])
        /\ r # p => nodes'[r] = nodes[r]
  BY <1>1 DEF Takes
<1>5. Len(p) \in Nat /\ WidthOK(nodes[p].width, Len(p))
  BY <1>2, <1>3, LenProperties DEF Squares
<1>6. /\ SquareType(nodes[p]) /\ nodes[p].width % 4 = 0
      /\ WidthOK(nodes[p].width \div 2, Len(p) + 1)
  BY <1>1, <1>2, <1>5, WidthHalves DEF SquareType, NodeType
<1>7. \A q \in Quadrant :
        /\ Append(p, q) \in Seq(Quadrant) /\ Len(Append(p, q)) = Len(p) + 1
        /\ Append(p, q) # p /\ Append(p, q) # << >>
        /\ \A r \in Seq(Quadrant), s \in Quadrant :
             Append(p, q) = Append(r, s) => p = r /\ q = s
        /\ nodes'[Append(p, q)].width = nodes[p].width \div 2
        /\ ~nodes'[Append(p, q)].internal
        /\ nodes'[Append(p, q)].body = NoBody
  <2>1. ASSUME NEW q \in Quadrant
        PROVE  /\ nodes'[Append(p, q)].width = nodes[p].width \div 2
               /\ ~nodes'[Append(p, q)].internal
               /\ nodes'[Append(p, q)].body = NoBody
    <3>1. nodes'[Append(p, q)] = Child(nodes[p], q)
      BY <1>1
    <3>2. QED BY <1>6, <3>1, ChildType
  <2>2. QED BY <1>2, <2>1, AppendType
<1>8. Squares'
  <2>1. << >> \in DOMAIN nodes'
    BY <1>1, <1>3 DEF Squares
  <2>2. ASSUME NEW r \in DOMAIN nodes', NEW q \in Quadrant
        PROVE  /\ Child(nodes[r], q)' = Child(nodes'[r], q)
               /\ WidthOK(nodes[r].width, Len(r))' = WidthOK(nodes'[r].width, Len(r))
    BY DEF Child, WidthOK
  <2>3. ASSUME NEW r \in DOMAIN nodes'
        PROVE  /\ Len(r) <= MaxDepth
               /\ WidthOK(nodes'[r].width, Len(r))
               /\ nodes'[r].internal =>
                    /\ Len(r) < MaxDepth
                    /\ nodes'[r].body = NoBody
                    /\ \A q \in Quadrant :
                         /\ Append(r, q) \in DOMAIN nodes'
                         /\ SameSquare(nodes'[Append(r, q)], Child(nodes'[r], q))
    <3>1. CASE r \in below
      <4>1. PICK q \in Quadrant : r = Append(p, q)
        BY <3>1
      <4>2. QED BY <1>1, <1>5, <1>6, <1>7, <4>1, QuadTreeAssumption
    <3>2. CASE r = p
      <4>1. nodes'[p].width = nodes[p].width
        BY <1>2, <1>4 DEF SameSquare
      <4>2. ASSUME NEW q \in Quadrant
            PROVE  /\ Append(p, q) \in DOMAIN nodes'
                   /\ SameSquare(nodes'[Append(p, q)], Child(nodes'[p], q))
        <5>1. Child(nodes'[p], q) = Child(nodes[p], q)
          BY <1>2, <1>4 DEF Child, SameSquare
        <5>2. QED BY <1>1, <5>1 DEF SameSquare
      <4>3. QED BY <1>1, <1>5, <3>2, <4>1, <4>2, QuadTreeAssumption
    <3>3. CASE r \in DOMAIN nodes /\ r # p
      <4>1. nodes'[r] = nodes[r]
        BY <1>4, <3>3
      <4>2. ASSUME nodes[r].internal, NEW q \in Quadrant
            PROVE  /\ Append(r, q) \in DOMAIN nodes'
                   /\ SameSquare(nodes'[Append(r, q)], Child(nodes'[r], q))
        <5>1. /\ Append(r, q) \in DOMAIN nodes
              /\ SameSquare(nodes[Append(r, q)], Child(nodes[r], q))
          BY <1>3, <3>3, <4>2 DEF Squares
        <5>2. SameSquare(nodes'[Append(r, q)], nodes[Append(r, q)])
          BY <1>4, <5>1
        <5>3. QED BY <1>1, <4>1, <5>1, <5>2 DEF SameSquare
      <4>3. QED BY <1>3, <3>3, <4>1, <4>2 DEF Squares
    <3>4. QED BY <1>1, <3>1, <3>2, <3>3
  <2>4. QED BY <2>1, <2>2, <2>3 DEF Squares
<1>9. (\A r \in Seq(Quadrant), q \in Quadrant : Rooted(r, q))'
  <2>1. ASSUME NEW r \in Seq(Quadrant), NEW q \in Quadrant,
               Append(r, q) \in DOMAIN nodes'
        PROVE  r \in DOMAIN nodes' /\ nodes'[r].internal
    <3>1. CASE Append(r, q) \in DOMAIN nodes
      <4>1. r \in DOMAIN nodes /\ nodes[r].internal
        BY <1>3, <3>1 DEF Rooted
      <4>2. QED BY <1>1, <1>4, <4>1
    <3>2. CASE Append(r, q) \in below
      <4>1. PICK s \in Quadrant : Append(r, q) = Append(p, s)
        BY <3>2
      <4>2. r = p
        BY <1>7, <4>1
      <4>3. QED BY <1>1, <1>2, <4>2
    <3>3. QED BY <1>1, <2>1, <3>1, <3>2
  <2>2. QED BY <2>1 DEF Rooted
<1>10. ASSUME NEW r \in DOMAIN nodes, NEW c
       PROVE  Inside(nodes[r], c)' <=> Inside(nodes[r], c)
  BY <1>1, <1>4 DEF Takes, SameSquare, Inside
<1>11. Living' = Living /\ Living \subseteq 1 .. NumBodies
  BY <1>1 DEF Takes, Living
<1>12. ASSUME NEW c \in Living, NEW q \in Quadrant
       PROVE  Inside(nodes[Append(p, q)], c)' <=>
                Inside(nodes[p], c) /\ q = QuadrantOf(nodes[p], c)
  <2>1. m_bodies[c].x \in Int /\ m_bodies[c].y \in Int
    BY <1>11, Coordinates
  <2>2. Inside(Child(nodes[p], q), c) <=>
          Inside(nodes[p], c) /\ q = QuadrantOf(nodes[p], c)
    BY <1>6, <2>1, ChildSquares
  <2>3. Inside(nodes[Append(p, q)], c)' <=> Inside(Child(nodes[p], q), c)
    <3>1. SameSquare(nodes'[Append(p, q)], Child(nodes[p], q))
      BY <1>1 DEF SameSquare
    <3>2. m_bodies' = m_bodies
      BY <1>1 DEF Takes
    <3> HIDE DEF Child
    <3>3. QED BY <3>1, <3>2 DEF SameSquare, Inside
  <2>4. QED BY <2>2, <2>3
<1>13. ASSUME NEW c \in Living PROVE OnePath(c)'
  <2>1. OnePath(c) /\ << >> \in DOMAIN nodes
    BY <1>3 DEF Squares
  <2>2. Inside(nodes[<< >>], c)'
    BY <1>10, <2>1 DEF OnePath
  <2>3. \E r \in DOMAIN nodes' : ~nodes'[r].internal /\ Inside(nodes[r], c)'
    <3>1. PICK r \in DOMAIN nodes : ~nodes[r].internal /\ Inside(nodes[r], c)
      BY <2>1 DEF OnePath
    <3>2. CASE r = p
      <4>1. PICK q \in Quadrant : q = QuadrantOf(nodes[p], c)
        BY QuadrantOfType
      <4>2. Append(p, q) \in DOMAIN nodes' /\ ~nodes'[Append(p, q)].internal
        BY <1>1, <1>7
      <4>3. Inside(nodes[Append(p, q)], c)'
        BY <1>12, <3>1, <3>2, <4>1
      <4>4. QED BY <4>2, <4>3
    <3>3. CASE r # p
      BY <1>1, <1>4, <1>10, <3>1, <3>3
    <3>4. QED BY <3>2, <3>3
  <2>4. ASSUME NEW r \in DOMAIN nodes', NEW s \in DOMAIN nodes',
               Inside(nodes[r], c)', Inside(nodes[s], c)'
        PROVE  /\ Len(r) = Len(s) => r = s
               /\ ~nodes'[r].internal => Len(s) <= Len(r)
    <3>1. ASSUME NEW t \in DOMAIN nodes, NEW u \in DOMAIN nodes,
                 Inside(nodes[t], c)', Inside(nodes[u], c)'
          PROVE  /\ Len(t) = Len(u) => t = u
                 /\ ~nodes[t].internal => Len(u) <= Len(t)
      <4>1. Inside(nodes[t], c) /\ Inside(nodes[u], c)
        BY <1>10, <3>1
      <4>2. QED BY <2>1, <4>1 DEF OnePath
    <3>2. ASSUME NEW t \in DOMAIN nodes, NEW q \in Quadrant,
                 Inside(nodes[t], c)', Inside(nodes[Append(p, q)], c)'
          PROVE  /\ Len(t) <= Len(p)
                 /\ t # p => nodes[t].internal
      <4>1. Inside(nodes[p], c)'
        BY <1>2, <1>10, <1>12, <3>2
      <4>2. Len(t) <= Len(p)
        BY <1>1, <1>2, <3>1, <3>2, <4>1
      <4>3. ASSUME ~nodes[t].internal PROVE t = p
        <5>1. Len(p) <= Len(t)
          BY <1>2, <3>1, <3>2, <4>1, <4>3
        <5>2. Len(t) \in Nat
          BY <1>2, LenProperties
        <5>3. Len(t) = Len(p)
          BY <1>5, <4>2, <5>1, <5>2
        <5>4. QED BY <1>2, <3>1, <3>2, <4>1, <5>3
      <4>4. QED BY <4>2, <4>3
    <3>3. CASE r \in DOMAIN nodes /\ s \in DOMAIN nodes
      <4>1. ~nodes'[r].internal => ~nodes[r].internal
        BY <1>1, <1>4, <3>3
      <4>2. QED BY <2>4, <3>1, <3>3, <4>1
    <3>4. CASE r \in DOMAIN nodes /\ s \in below
      <4>1. PICK q \in Quadrant : s = Append(p, q)
        BY <3>4
      <4>2. Len(r) <= Len(p) /\ (r # p => nodes[r].internal)
        BY <2>4, <3>2, <3>4, <4>1
      <4>3. Len(s) = Len(p) + 1 /\ Len(r) \in Nat
        BY <1>2, <1>7, <3>4, <4>1, LenProperties
      <4>4. nodes'[r].internal
        BY <1>1, <1>4, <3>4, <4>2
      <4>5. QED BY <1>5, <4>2, <4>3, <4>4
    <3>5. CASE r \in below /\ s \in DOMAIN nodes
      <4>1. PICK q \in Quadrant : r = Append(p, q)
        BY <3>5
      <4>2. Len(s) <= Len(p)
        BY <2>4, <3>2, <3>5, <4>1
      <4>3. Len(r) = Len(p) + 1 /\ Len(s) \in Nat
        BY <1>2, <1>7, <3>5, <4>1, LenProperties
      <4>4. QED BY <1>5, <4>2, <4>3
    <3>6. CASE r \in below /\ s \in below
      <4>1. PICK q \in Quadrant : r = Append(p, q)
        BY <3>6
      <4>2. PICK t \in Quadrant : s = Append(p, t)
        BY <3>6
      <4>3. q = t
        BY <1>12, <2>4, <4>1, <4>2
      <4>4. Len(r) \in Nat
        BY <1>5, <1>7, <4>1
      <4>5. QED BY <4>1, <4>2, <4>3, <4>4
    <3>7. QED BY <1>1, <3>3, <3>4, <3>5, <3>6
  <2>5. QED BY <2>2, <2>3, <2>4 DEF OnePath
<1>14. (\A c \in Living : OnePath(c))'
  BY <1>11, <1>13
<1>15. QED BY <1>8, <1>9, <1>12, <1>14 DEF TreeShape

-----------------------------------------------------------------------------
(* The pending calls *)

\* A node that holds a body was given that body and no other.
LEMMA HeldBody ==
  ASSUME TreeTypeOK, TreeInv, ~crashed, NEW p \in DOMAIN nodes,
         nodes[p].body # NoBody
  PROVE  /\ ~nodes[p].internal
         /\ Given(p) = {nodes[p].body}
         /\ nodes[p].body \in Inserted /\ nodes[p].body \in Living
         /\ Inside(nodes[p], nodes[p].body)
<1>1. Squares /\ Weighs(p)
  BY DEF TreeInv, TreeShape
<1>2. ~nodes[p].internal
  BY <1>1 DEF Squares
<1>3. Given(p) = {nodes[p].body}
  BY <1>1, <1>2 DEF Weighs
<1>4. nodes[p].body \in Given(p)
  BY <1>3
<1>5. QED BY <1>2, <1>3, <1>4 DEF Given, Inserted

\* A body is in no node below a leaf whose square it is in.
LEMMA NoneBelowLeaf ==
  ASSUME TreeTypeOK, TreeInv, NEW p \in DOMAIN nodes, NEW r \in DOMAIN nodes,
         NEW c \in Living, ~nodes[p].internal,
         Inside(nodes[p], c), Inside(nodes[r], c)
  PROVE  Len(r) <= Len(p)
BY DEF TreeInv, TreeShape, OnePath

LEMMA LenNat ==
  ASSUME TreeTypeOK, NEW r \in DOMAIN nodes
  PROVE  Len(r) \in Nat
<1>1. r \in Seq(Quadrant)
  BY DEF TreeTypeOK
<1>2. QED BY <1>1, LenProperties

LEMMA StorePending ==
  ASSUME TreeTypeOK, TreeInv, StoreBody, NEW b, NEW p, Serving(b, p)
  PROVE  GivesWay(b, p) /\ Pending'
<1>1. /\ Takes(b, p) /\ DOMAIN nodes' = DOMAIN nodes /\ calls' = Tail(calls)
      /\ ~nodes[p].internal
  BY StoreTakes
<1>2. /\ ~crashed
      /\ b \in Living /\ b \in Inserted /\ p \in DOMAIN nodes
      /\ Inside(nodes[p], b)
      /\ Len(calls) \in 1 .. 2 /\ calls[1].body = b /\ calls[1].path = p
      /\ Len(Tail(calls)) = Len(calls) - 1
      /\ \A k \in 1 .. Len(Tail(calls)) : Tail(calls)[k] = calls[k + 1]
  BY ServingFacts
<1>a. /\ Len(calls') = Len(calls) - 1
      /\ \A k \in 1 .. Len(calls') : calls'[k] = calls[k + 1]
  <2>1. calls' = Tail(calls)
    BY <1>1
  <2>2. /\ Len(Tail(calls)) = Len(calls) - 1
        /\ \A k \in 1 .. Len(Tail(calls)) : Tail(calls)[k] = calls[k + 1]
    BY <1>2
  <2>3. QED BY <2>1, <2>2, Zenon
<1>3. Pending
  BY <1>2 DEF TreeInv, TreeShape
<1>4. Len(p) \in Nat /\ \A r \in DOMAIN nodes : Len(r) \in Nat
  BY <1>2, LenNat
<1>5. Len(calls) = 2 => calls[2].body # b
  BY <1>2, <1>3 DEF Pending
<1>6. ASSUME NEW c, NEW d \in Nat
      PROVE  /\ Passed(c, d) <=> /\ c = b => d < Len(p)
                                 /\ Len(calls) = 2 /\ calls[2].body = c
                                      => d < Len(calls[2].path)
             /\ Passed(c, d)' <=> (Len(calls) = 2 /\ calls[2].body = c
                                     => d < Len(calls[2].path))
  <2>1. CASE Len(calls) = 1
    <3>1. Len(calls') = 0
      BY <1>a, <2>1
    <3>2. 1 .. Len(calls) = {1} /\ 1 .. Len(calls') = {}
      BY <2>1, <3>1
    <3>3. QED BY <1>2, <2>1, <3>2 DEF Passed
  <2>2. CASE Len(calls) = 2
    <3>1. Len(calls') = 1 /\ calls'[1] = calls[2]
      BY <1>a, <2>2
    <3>2. 1 .. Len(calls) = {1, 2} /\ 1 .. Len(calls') = {1}
      BY <2>2, <3>1
    <3>3. QED BY <1>2, <2>2, <3>1, <3>2 DEF Passed
  <2>3. QED BY <1>2, <2>1, <2>2
<1>7. GivesWay(b, p)
  <2>1. ~Passed(b, Len(p))
    BY <1>4, <1>6
  <2>2. ASSUME NEW c \in Inserted, NEW r \in DOMAIN nodes, Inside(nodes[r], c)
        PROVE  Passed(c, Len(r))' <=> Passed(c, Len(r)) \/ (c = b /\ Len(r) = Len(p))
    <3>1. Len(r) \in Nat
      BY <1>4
    <3>2. CASE c # b
      BY <1>6, <3>1, <3>2
    <3>3. CASE c = b
      <4>1. Len(r) <= Len(p)
        BY <1>1, <1>2, <2>2, <3>3, NoneBelowLeaf
      <4>2. QED BY <1>4, <1>5, <1>6, <3>1, <3>3, <4>1
    <3>4. QED BY <3>2, <3>3
  <2>3. QED BY <2>1, <2>2 DEF GivesWay
<1>8. Pending'
  <2>1. Inserted' = Inserted
    BY <1>1 DEF Takes, Inserted, Living
  <2>2. ASSUME NEW r \in DOMAIN nodes, NEW c
        PROVE  Inside(nodes[r], c)' <=> Inside(nodes[r], c)
    BY <1>1 DEF Takes, SameSquare, Inside
  <2>3. Len(calls') <= 1 /\ Len(calls') \in Nat
    BY <1>2, <1>a
  <2>4. ASSUME NEW k \in 1 .. Len(calls') PROVE CallOK(calls[k])'
    <3>1. calls'[k] = calls[k + 1] /\ k + 1 \in 1 .. Len(calls)
      BY <1>2, <1>a
    <3>2. CallOK(calls[k + 1])
      BY <1>3, <3>1 DEF Pending
    <3>3. QED BY <1>1, <2>1, <2>2, <3>1, <3>2 DEF CallOK
  <2>5. Len(calls') <= 2 /\ Len(calls') # 2
    BY <2>3
  <2>6. (\A k \in 1 .. Len(calls) : CallOK(calls[k]))'
    BY <2>4
  <2>7. QED BY <2>5, <2>6 DEF Pending
<1>9. QED BY <1>7, <1>8

LEMMA DescendPending ==
  ASSUME TreeTypeOK, TreeInv, Descend, NEW b, NEW p, Serving(b, p)
  PROVE  GivesWay(b, p) /\ Pending'
<1>0. PICK q \in Quadrant : q = QuadrantOf(nodes[p], b)
  BY QuadrantOfType
<1>p. PICK s : s = Append(p, q)
  OBVIOUS
<1>1. /\ Takes(b, p) /\ DOMAIN nodes' = DOMAIN nodes
      /\ nodes[p].internal /\ calls' = <<Insert(b, s)>>
  BY <1>0, <1>p, DescendTakes
<1>2. /\ b \in Living /\ b \in Inserted /\ b \in 1 .. NumBodies
      /\ p \in DOMAIN nodes /\ nodes[p] \in NodeType
      /\ Inside(nodes[p], b) /\ p \in Seq(Quadrant)
      /\ Len(calls) \in 1 .. 2 /\ calls[1].body = b /\ calls[1].path = p
      /\ Len(calls) = 1
  BY <1>1, ServingFacts
<1>3. Len(p) \in Nat /\ \A r \in DOMAIN nodes : Len(r) \in Nat
  BY <1>2, LenNat
<1>5. s \in Seq(Quadrant) /\ Len(s) = Len(p) + 1
  BY <1>2, <1>p, AppendType
<1>6. Squares
  BY DEF TreeInv, TreeShape
<1>7. s \in DOMAIN nodes /\ SameSquare(nodes[s], Child(nodes[p], q))
  BY <1>1, <1>2, <1>6, <1>p DEF Squares
<1>8. Inside(nodes[s], b)
  <2>1. SquareType(nodes[p]) /\ nodes[p].width % 4 = 0
    <3>1. Len(p) < MaxDepth /\ WidthOK(nodes[p].width, Len(p))
      BY <1>1, <1>2, <1>6 DEF Squares
    <3>2. QED BY <1>2, <1>3, <3>1, WidthHalves DEF SquareType, NodeType
  <2>2. m_bodies[b].x \in Int /\ m_bodies[b].y \in Int
    BY <1>2, Coordinates
  <2>3. Inside(Child(nodes[p], q), b)
    BY <1>0, <1>2, <2>1, <2>2, ChildSquares
  <2>4. QED BY <1>7, <2>3, InsideSame
<1> DEFINE c1 == Insert(b, s)
<1>9. c1.body = b /\ c1.path = s
  BY <1>2, <1>5, InsertType
<1> HIDE DEF c1
<1>10. Len(calls') = 1 /\ calls'[1] = c1
  BY <1>1 DEF c1
<1>11. ASSUME NEW c, NEW d \in Nat
       PROVE  /\ Passed(c, d) <=> (c = b => d < Len(p))
              /\ Passed(c, d)' <=> (c = b => d < Len(p) + 1)
  <2>1. 1 .. Len(calls) = {1} /\ 1 .. Len(calls') = {1}
    BY <1>1, <1>2, <1>10
  <2>2. QED BY <1>2, <1>5, <1>9, <1>10, <2>1 DEF Passed
<1>12. GivesWay(b, p)
  <2>1. ~Passed(b, Len(p))
    BY <1>3, <1>11
  <2>2. ASSUME NEW c \in Inserted, NEW r \in DOMAIN nodes
        PROVE  Passed(c, Len(r))' <=> Passed(c, Len(r)) \/ (c = b /\ Len(r) = Len(p))
    <3>1. Len(r) \in Nat
      BY <1>3
    <3>2. QED BY <1>3, <1>11, <3>1
  <2>3. QED BY <2>1, <2>2 DEF GivesWay
<1>13. Pending'
  <2>1. Inserted' = Inserted
    BY <1>1 DEF Takes, Inserted, Living
  <2>2. Inside(nodes[s], b)'
    BY <1>1, <1>7, <1>8 DEF Takes, SameSquare, Inside
  <2>3. CallOK(calls[1])'
    BY <1>1, <1>2, <1>7, <1>9, <1>10, <2>1, <2>2 DEF CallOK
  <2>4. 1 .. Len(calls') = {1}
    BY <1>10
  <2>5. QED BY <1>10, <2>3, <2>4 DEF Pending
<1>14. QED BY <1>12, <1>13

LEMMA SplitPending ==
  ASSUME TreeTypeOK, TreeInv, SplitLeaf, NEW b, NEW p, Serving(b, p),
         Len(p) # MaxDepth
  PROVE  /\ GivesWay(b, p) /\ Pending'
         /\ \A q \in Quadrant : Weighs(Append(p, q))'
<1>0. PICK o : o = nodes[p].body
  OBVIOUS
<1>p. PICK q1 \in Quadrant, q2 \in Quadrant :
        q1 = QuadrantOf(nodes[p], o) /\ q2 = QuadrantOf(nodes[p], b)
  BY QuadrantOfType
<1>q. PICK s1, s2 : s1 = Append(p, q1) /\ s2 = Append(p, q2)
  OBVIOUS
<1> DEFINE c1 == Insert(o, s1)
           c2 == Insert(b, s2)
<1>1. /\ Takes(b, p)
      /\ ~nodes[p].internal /\ o # NoBody /\ o \in 1 .. NumBodies
      /\ \A r : r \in DOMAIN nodes' <=>
               r \in DOMAIN nodes \/ \E q \in Quadrant : r = Append(p, q)
      /\ \A q \in Quadrant : nodes'[Append(p, q)] = Child(nodes[p], q)
      /\ calls' = AfterSplit(nodes[p], p, b)
  BY <1>0, SplitTakes
<1>2. /\ b \in Living /\ b \in Inserted /\ b \in 1 .. NumBodies
      /\ p \in DOMAIN nodes /\ nodes[p] \in NodeType
      /\ Inside(nodes[p], b) /\ p \in Seq(Quadrant) /\ ~crashed
      /\ Len(calls) \in 1 .. 2 /\ calls[1].body = b /\ calls[1].path = p
      /\ Len(calls) = 1
  BY <1>0, <1>1, ServingFacts
<1>3. Len(p) \in Nat /\ \A r \in DOMAIN nodes : Len(r) \in Nat
  BY <1>2, LenNat
<1>4. /\ Given(p) = {o} /\ o \in Inserted /\ o \in Living /\ Inside(nodes[p], o)
  BY <1>0, <1>1, <1>2, HeldBody
<1>5. calls' = <<c1, c2>>
  BY <1>0, <1>p, <1>q, <1>1 DEF AfterSplit
<1>7. /\ s1 \in Seq(Quadrant) /\ Len(s1) = Len(p) + 1
      /\ s2 \in Seq(Quadrant) /\ Len(s2) = Len(p) + 1
  BY <1>2, <1>q, AppendType
<1>8. c1.body = o /\ c1.path = s1 /\ c2.body = b /\ c2.path = s2
  BY <1>1, <1>2, <1>7, InsertType
<1>9. \A c \in Living : \A q \in Quadrant :
        Inside(nodes[Append(p, q)], c)' <=>
          Inside(nodes[p], c) /\ q = QuadrantOf(nodes[p], c)
  BY ShapeSplit
<1>10. Inside(nodes[s1], o)' /\ Inside(nodes[s2], b)'
  BY <1>2, <1>4, <1>9, <1>p, <1>q
<1>11. s1 \in DOMAIN nodes' /\ s2 \in DOMAIN nodes' /\ nodes'[s1] = Child(nodes[p], q1)
  BY <1>1, <1>q
<1> HIDE DEF c1, c2
<1>12. Len(calls') = 2 /\ calls'[1] = c1 /\ calls'[2] = c2
  BY <1>5
<1>13. ASSUME NEW c, NEW d \in Nat
       PROVE  /\ Passed(c, d) <=> (c = b => d < Len(p))
              /\ Passed(c, d)' <=> (c \in {o, b} => d < Len(p) + 1)
  <2>1. 1 .. Len(calls) = {1} /\ 1 .. Len(calls') = {1, 2}
    BY <1>1, <1>2, <1>12
  <2>2. QED BY <1>2, <1>7, <1>8, <1>12, <2>1 DEF Passed
<1>14. ~Passed(b, Len(p))
  BY <1>3, <1>13
<1>15. o # b
  BY <1>4, <1>14 DEF Given
<1>16. GivesWay(b, p)
  <2>1. ASSUME NEW c \in Inserted, NEW r \in DOMAIN nodes, Inside(nodes[r], c)
        PROVE  Passed(c, Len(r))' <=> Passed(c, Len(r)) \/ (c = b /\ Len(r) = Len(p))
    <3>1. Len(r) \in Nat
      BY <1>3
    <3>2. CASE c = o
      <4>1. Len(r) <= Len(p)
        BY <1>1, <1>2, <1>4, <2>1, <3>2, NoneBelowLeaf
      <4>2. QED BY <1>3, <1>13, <1>15, <3>1, <3>2, <4>1
    <3>3. CASE c # o
      BY <1>3, <1>13, <3>1, <3>3
    <3>4. QED BY <3>2, <3>3
  <2>2. QED BY <1>14, <2>1 DEF GivesWay
<1>17. Inserted' = Inserted
  BY <1>1 DEF Takes, Inserted, Living
<1>18. SquareType(nodes[p]) /\ nodes[p].width % 4 = 0
  <2>1. Squares /\ Len(p) < MaxDepth
    BY SplitTakes DEF TreeInv, TreeShape
  <2>2. WidthOK(nodes[p].width, Len(p))
    BY <1>2, <2>1 DEF Squares
  <2>3. QED BY <1>2, <1>3, <2>1, <2>2, WidthHalves DEF SquareType, NodeType
<1>19. Pending'
  <2>1. CallOK(calls[1])' /\ CallOK(calls[2])'
    BY <1>2, <1>4, <1>8, <1>10, <1>11, <1>12, <1>17 DEF CallOK
  <2>2. ~nodes'[s1].internal /\ nodes'[s1].body = NoBody
    BY <1>11, <1>18, ChildType
  <2>3. 1 .. Len(calls') = {1, 2}
    BY <1>12
  <2>4. QED BY <1>8, <1>12, <1>15, <2>1, <2>2, <2>3 DEF Pending
<1>20. ASSUME NEW q \in Quadrant PROVE Weighs(Append(p, q))'
  <2> DEFINE s == Append(p, q)
  <2>1. /\ nodes'[s] = Child(nodes[p], q) /\ Len(s) = Len(p) + 1
    BY <1>1, <1>2, AppendType
  <2>2. /\ nodes'[s] \in NodeType
        /\ nodes'[s].mass = 0 /\ nodes'[s].mx = 0 /\ nodes'[s].my = 0
        /\ nodes'[s].body = NoBody
    BY <1>18, <2>1, ChildType
  <2>3. ASSUME NEW c \in Given(s)' PROVE FALSE
    <3>1. c \in Inserted /\ Inside(nodes[s], c)' /\ Passed(c, Len(s))'
      BY <1>17, <2>3 DEF Given
    <3>2. c \in Living /\ Inside(nodes[p], c)
      BY <1>9, <3>1 DEF Inserted
    <3>3. c \notin {o, b}
      BY <1>3, <1>13, <2>1, <3>1
    <3>4. Passed(c, Len(p))
      BY <1>3, <1>13, <3>3
    <3>5. c \in Given(p)
      BY <3>1, <3>2, <3>4 DEF Given
    <3>6. QED BY <1>4, <3>3, <3>5
  <2>4. Given(s)' = {}
    BY <2>3
  <2>5. /\ MassOf({}) = 0 /\ MomentX(m_bodies', {}) = 0 /\ MomentY(m_bodies', {}) = 0
    BY <1>1, NobodyWeighs DEF Takes
  <2>6. /\ MassOf(Given(s))' = 0 /\ MomentX(m_bodies, Given(s))' = 0
        /\ MomentY(m_bodies, Given(s))' = 0
    BY <2>4, <2>5
  <2>7. Centred(nodes'[s])
    <3>1. nodes'[s].x \in Int /\ nodes'[s].y \in Int /\ nodes'[s].width \in Nat
      BY <2>2 DEF NodeType
    <3> HIDE DEF s
    <3>2. QED BY <2>2, <3>1 DEF Centred
  <2> HIDE DEF s
  <2>8. Weighs(s)'
    BY <2>2, <2>4, <2>6, <2>7 DEF Weighs, Centred
  <2>9. QED BY <2>8 DEF s
<1>21. QED BY <1>16, <1>19, <1>20

-----------------------------------------------------------------------------
(* The building of the tree, step by step *)

\* What the nodes weigh and which calls are pending.
TreeWeights == ~crashed => Pending /\ \A p \in DOMAIN nodes : Weighs(p)

TreeCrash == crashed => calls = << >> /\ Coincident

LEMMA ShapeUnchanged ==
  ASSUME TreeShape, UNCHANGED <<m_bodies, nodes>>
  PROVE  TreeShape'
BY DEF TreeShape, Squares, Rooted, OnePath, Inside, WidthOK, SameSquare, Child,
       Node, Living

LEMMA WeightsUnchanged ==
  ASSUME TreeWeights, TreeCrash, UNCHANGED <<m_bodies, nodes, next, calls, crashed>>
  PROVE  TreeWeights' /\ TreeCrash'
<1>1. /\ Inserted' = Inserted /\ Living' = Living
      /\ \A r \in DOMAIN nodes : Given(r)' = Given(r)
  BY DEF Inserted, Living, Given, Inside, Passed
<1>2. ASSUME NEW r \in DOMAIN nodes, Weighs(r) PROVE Weighs(r)'
  BY <1>1, <1>2 DEF Weighs, Centred
<1>3. Pending => Pending'
  BY <1>1 DEF Pending, CallOK, Inside
<1>4. Coincident => Coincident'
  BY <1>1 DEF Coincident
<1>5. QED BY <1>2, <1>3, <1>4 DEF TreeWeights, TreeCrash

\* While the tree is built no force is summed up.
LEMMA Idle ==
  ASSUME TreeInv, ~Built, UNCHANGED force
  PROVE  Traversal'
<1>1. target = NoBody /\ visits = << >>
  BY DEF TreeInv, Traversal
<1>2. target' = NoBody /\ visits' = << >>
  BY <1>1 DEF force
<1>3. 1 .. Len(visits') = {}
  BY <1>2
<1>4. QED BY <1>2, <1>3 DEF Traversal

LEMMA NotBuilt ==
  ASSUME calls # << >>
  PROVE  ~Built
BY DEF Built

LEMMA StoreBodyKeeps ==
  ASSUME TreeTypeOK, TreeInv, StoreBody
  PROVE  TreeTypeOK' /\ TreeInv'
<1>1. PICK b, p : Serving(b, p)
  BY DEF StoreBody, Serving
<1>2. /\ Takes(b, p) /\ DOMAIN nodes' = DOMAIN nodes /\ calls' = Tail(calls)
      /\ ~nodes[p].internal /\ nodes[p].body = NoBody
      /\ ~nodes'[p].internal /\ nodes'[p].body = b
  BY <1>1, StoreTakes
<1>3. GivesWay(b, p) /\ Pending'
  BY <1>1, StorePending
<1>4. \A r \in DOMAIN nodes : Weighs(r)'
  BY <1>1, <1>2, <1>3, WeightsKept
<1>5. TreeShape'
  <2>1. nodes'[p].internal = nodes[p].internal
    <3>1. nodes[p] \in NodeType /\ nodes'[p] \in NodeType
      BY <1>1, <1>2, ServingFacts DEF Takes
    <3>2. QED BY <1>2, <3>1 DEF NodeType
  <2>2. QED BY <1>1, <1>2, <2>1, ShapeKept
<1>6. Traversal'
  BY <1>2, Idle, NotBuilt DEF StoreBody, Takes
<1>7. ~crashed'
  BY <1>1, <1>2, ServingFacts DEF Takes
<1>8. TreeTypeOK'
  <2>1. calls' \in Seq(Call)
    BY <1>1, <1>2, ServingFacts
  <2>2. QED BY <1>2, <2>1 DEF TreeTypeOK, Takes, Call, force
<1>9. QED BY <1>2, <1>3, <1>4, <1>5, <1>6, <1>7, <1>8 DEF TreeInv

LEMMA DescendKeeps ==
  ASSUME TreeTypeOK, TreeInv, Descend
  PROVE  TreeTypeOK' /\ TreeInv'
<1>1. PICK b, p : Serving(b, p)
  BY DEF Descend, Serving
<1>2. /\ Takes(b, p) /\ DOMAIN nodes' = DOMAIN nodes
      /\ nodes[p].internal /\ nodes'[p].internal
      /\ nodes'[p].body = nodes[p].body
      /\ calls' = <<Insert(b, Append(p, QuadrantOf(nodes[p], b)))>>
  BY <1>1, DescendTakes
<1>3. GivesWay(b, p) /\ Pending'
  BY <1>1, DescendPending
<1>4. \A r \in DOMAIN nodes : Weighs(r)'
  BY <1>1, <1>2, <1>3, WeightsKept
<1>5. TreeShape'
  <2>1. nodes'[p].internal = nodes[p].internal
    <3>1. nodes[p] \in NodeType /\ nodes'[p] \in NodeType
      BY <1>1, <1>2, ServingFacts DEF Takes
    <3>2. QED BY <1>2, <3>1 DEF NodeType
  <2>2. QED BY <1>1, <1>2, <2>1, ShapeKept
<1>6. Traversal'
  BY <1>2, Idle, NotBuilt DEF Descend, Takes
<1>7. ~crashed'
  BY <1>1, <1>2, ServingFacts DEF Takes
<1>8. TreeTypeOK'
  <2>1. calls' \in Seq(Call)
    <3>1. b \in 1 .. NumBodies /\ p \in Seq(Quadrant)
      BY <1>1, ServingFacts
    <3>2. Append(p, QuadrantOf(nodes[p], b)) \in Seq(Quadrant)
      BY <3>1, QuadrantOfType, AppendType
    <3>3. Insert(b, Append(p, QuadrantOf(nodes[p], b))) \in Call
      BY <3>1, <3>2, InsertType
    <3>4. QED BY <1>2, <3>3
  <2>2. QED BY <1>2, <2>1 DEF TreeTypeOK, Takes, Call, force
<1>9. QED BY <1>2, <1>3, <1>4, <1>5, <1>6, <1>7, <1>8 DEF TreeInv

\* Two bodies in one leaf at the bound are in the same place.
LEMMA SplitLeafKeeps ==
  ASSUME TreeTypeOK, TreeInv, SplitLeaf
  PROVE  TreeTypeOK' /\ TreeInv'
<1>1. PICK b, p : Serving(b, p)
  BY DEF SplitLeaf, Serving
<1>2. /\ b \in 1 .. NumBodies /\ b \in Living /\ p \in Seq(Quadrant)
      /\ p \in DOMAIN nodes /\ nodes[p] \in NodeType /\ ~crashed
      /\ Inside(nodes[p], b)
      /\ calls[1].body = b /\ calls[1].path = p /\ Len(calls) \in 1 .. 2
  BY <1>1, ServingFacts
<1>3. Traversal'
  BY Idle, NotBuilt DEF SplitLeaf
<1>4. CASE Len(p) = MaxDepth
  <2>1. /\ nodes[p].body # NoBody
        /\ crashed' = TRUE /\ calls' = << >> /\ UNCHANGED <<m_bodies, nodes, next, force>>
    BY <1>1, <1>4 DEF SplitLeaf, Serving
  <2> DEFINE o == nodes[p].body
  <2>2. /\ Given(p) = {o} /\ o \in Living /\ Inside(nodes[p], o)
    BY <1>2, <2>1, HeldBody
  <2>3. o # b
    <3>1. Len(p) \in Nat
      BY <1>2, LenProperties
    <3>2. ~Passed(b, Len(p))
      BY <1>2, <3>1 DEF Passed
    <3>3. b \notin Given(p)
      BY <3>2 DEF Given
    <3>4. QED BY <2>2, <3>3
  <2>4. WidthOK(nodes[p].width, MaxDepth)
    BY <1>2, <1>4 DEF TreeInv, TreeShape, Squares
  <2>5. nodes[p].x \in Int /\ nodes[p].y \in Int /\ nodes[p].width \in Int
    BY <1>2 DEF NodeType
  <2> HIDE DEF o
  <2>6. o \in 1 .. NumBodies
    BY <2>2 DEF Living
  <2>7. m_bodies[o].x = m_bodies[b].x
    BY <1>2, <2>2, <2>4, <2>5, <2>6, Coordinates, SameLine DEF Inside
  <2>8. m_bodies[o].y = m_bodies[b].y
    BY <1>2, <2>2, <2>4, <2>5, <2>6, Coordinates, SameLine DEF Inside
  <2>9. Coincident
    BY <1>2, <2>2, <2>3, <2>7, <2>8 DEF Coincident
  <2>10. Coincident'
    BY <2>1, <2>9 DEF Coincident, Living
  <2>11. TreeShape'
    BY <2>1, ShapeUnchanged DEF TreeInv
  <2>12. TreeTypeOK'
    <3>1. << >> \in Seq(Call)
      OBVIOUS
    <3>2. QED BY <2>1, <3>1 DEF TreeTypeOK, Call, force
  <2>13. QED BY <1>3, <2>1, <2>10, <2>11, <2>12 DEF TreeInv
<1>5. CASE Len(p) # MaxDepth
  <2>1. /\ Takes(b, p)
        /\ nodes'[p].internal
        /\ nodes[p].body \in 1 .. NumBodies
        /\ \A r : r \in DOMAIN nodes' <=>
                 r \in DOMAIN nodes \/ \E q \in Quadrant : r = Append(p, q)
        /\ calls' = AfterSplit(nodes[p], p, b)
    BY <1>1, <1>5, SplitTakes
  <2>2. /\ GivesWay(b, p) /\ Pending'
        /\ \A q \in Quadrant : Weighs(Append(p, q))'
    BY <1>1, <1>5, SplitPending
  <2>3. \A r \in DOMAIN nodes : Weighs(r)'
    BY <1>1, <2>1, <2>2, WeightsKept
  <2>4. (\A r \in DOMAIN nodes : Weighs(r))'
    BY <2>1, <2>2, <2>3
  <2>5. TreeShape'
    BY <1>1, <1>5, ShapeSplit
  <2>6. ~crashed'
    BY <1>2, <2>1 DEF Takes
  <2>7. TreeTypeOK'
    <3> DEFINE c1 == Insert(nodes[p].body, Append(p, QuadrantOf(nodes[p], nodes[p].body)))
               c2 == Insert(b, Append(p, QuadrantOf(nodes[p], b)))
    <3>1. c1 \in Call /\ c2 \in Call
      BY <1>2, <2>1, QuadrantOfType, AppendType, InsertType
    <3>2. calls' = <<c1, c2>>
      BY <2>1 DEF AfterSplit
    <3> HIDE DEF c1, c2
    <3>3. calls' \in Seq(Call)
      BY <3>1, <3>2
    <3>4. \A q \in Quadrant : Append(p, q) \in Seq(Quadrant)
      BY <1>2, AppendType
    <3>5. DOMAIN nodes' \subseteq Seq(Quadrant)
      <4>1. DOMAIN nodes \subseteq Seq(Quadrant)
        BY DEF TreeTypeOK
      <4>2. ASSUME NEW r \in DOMAIN nodes' PROVE r \in Seq(Quadrant)
        <5>1. r \in DOMAIN nodes \/ \E q \in Quadrant : r = Append(p, q)
          BY <2>1
        <5>2. QED BY <3>4, <4>1, <5>1
      <4>3. QED BY <4>2
    <3>6. QED BY <2>1, <3>3, <3>5 DEF TreeTypeOK, Takes, Call, force
  <2>8. QED BY <1>3, <2>2, <2>4, <2>5, <2>6, <2>7 DEF TreeInv
<1>6. QED BY <1>4, <1>5

LEMMA StartInsertKeeps ==
  ASSUME TreeTypeOK, TreeInv, StartInsert
  PROVE  TreeTypeOK' /\ TreeInv'
<1>1. /\ ~crashed /\ calls = << >> /\ next <= NumBodies
      /\ calls' = IF m_bodies[next].alive THEN <<Insert(next, << >>)>> ELSE << >>
      /\ next' = next + 1
      /\ UNCHANGED <<m_bodies, nodes, crashed, force>>
  BY DEF StartInsert
<1>2. next \in 1 .. NumBodies /\ next + 1 \in 1 .. NumBodies + 1
  BY <1>1, QuadTreeAssumption DEF TreeTypeOK
<1>3. << >> \in Seq(Quadrant)
  OBVIOUS
<1>4. PICK c1 : c1 = Insert(next, << >>)
  OBVIOUS
<1>5. c1 \in Call /\ c1.body = next /\ c1.path = << >>
  BY <1>2, <1>3, <1>4, InsertType
<1>6. calls' = IF m_bodies[next].alive THEN <<c1>> ELSE << >>
  BY <1>1, <1>4
<1>7. TreeTypeOK'
  <2>1. <<c1>> \in Seq(Call) /\ << >> \in Seq(Call)
    BY <1>5
  <2>2. calls' \in Seq(Call)
    BY <1>6, <2>1
  <2>3. QED BY <1>1, <1>2, <2>2 DEF TreeTypeOK, Call, force
<1>8. TreeShape'
  BY <1>1, ShapeUnchanged DEF TreeInv
<1>9. Traversal'
  <2>1. ~Built
    BY <1>1, <1>2, QuadTreeAssumption DEF Built
  <2>2. QED BY <1>1, <2>1, Idle
<1>10. /\ Living' = Living
       /\ \A c : c \in Inserted' <=> c \in Inserted \/ (c = next /\ m_bodies[next].alive)
  BY <1>1, <1>2 DEF Inserted, Living
<1>11. \A c \in Inserted : c # next
  BY <1>2 DEF Inserted, Living
<1>12. ASSUME NEW c, NEW d \in Nat
       PROVE  /\ Passed(c, d)
              /\ Passed(c, d)' <=> ~(c = next /\ m_bodies[next].alive)
  <2>1. Passed(c, d)
    <3>1. 1 .. Len(calls) = {}
      BY <1>1
    <3>2. QED BY <3>1 DEF Passed
  <2>2. CASE m_bodies[next].alive
    <3>1. Len(calls') = 1 /\ calls'[1] = c1
      BY <1>6, <2>2
    <3>2. 1 .. Len(calls') = {1} /\ ~(d < Len(<< >>))
      BY <3>1
    <3>3. QED BY <1>5, <2>1, <2>2, <3>1, <3>2 DEF Passed
  <2>3. CASE ~m_bodies[next].alive
    <3>1. 1 .. Len(calls') = {}
      BY <1>6, <2>3
    <3>2. QED BY <2>1, <2>3, <3>1 DEF Passed
  <2>4. QED BY <2>2, <2>3
<1>13. ASSUME NEW r \in DOMAIN nodes
       PROVE  Given(r)' = Given(r)
  <2>1. Len(r) \in Nat
    BY LenNat
  <2>2. ASSUME NEW c
        PROVE  Inside(nodes[r], c)' <=> Inside(nodes[r], c)
    BY <1>1 DEF Inside
  <2>3. ASSUME NEW c PROVE c \in Given(r)' <=> c \in Given(r)
    BY <1>10, <1>11, <1>12, <2>1, <2>2 DEF Given
  <2>4. QED BY <2>3
<1>14. (\A r \in DOMAIN nodes : Weighs(r))'
  <2>1. ASSUME NEW r \in DOMAIN nodes PROVE Weighs(r)'
    <3>1. Weighs(r)
      BY <1>1 DEF TreeInv
    <3>2. QED BY <1>1, <1>13, <3>1 DEF Weighs, Centred
  <2>2. QED BY <1>1, <2>1
<1>15. Pending'
  <2>1. CASE m_bodies[next].alive
    <3>1. Len(calls') = 1 /\ calls'[1] = c1
      BY <1>6, <2>1
    <3>2. 1 .. Len(calls') = {1}
      BY <3>1
    <3>3. next \in Living
      BY <1>2, <2>1 DEF Living
    <3>4. << >> \in DOMAIN nodes /\ Inside(nodes[<< >>], next)
      BY <3>3 DEF TreeInv, TreeShape, Squares, OnePath
    <3>5. CallOK(c1)'
      <4>1. c1.body \in Inserted'
        BY <1>5, <1>10, <2>1
      <4>2. PICK v : v = next
        OBVIOUS
      <4>3. Inside(nodes[<< >>], v)'
        BY <1>1, <3>4, <4>2 DEF Inside
      <4>4. QED BY <1>1, <1>5, <3>4, <4>1, <4>2, <4>3 DEF CallOK
    <3>6. QED BY <3>1, <3>2, <3>5 DEF Pending
  <2>2. CASE ~m_bodies[next].alive
    <3>1. Len(calls') = 0
      BY <1>6, <2>2
    <3>2. 1 .. Len(calls') = {}
      BY <3>1
    <3>3. QED BY <3>1, <3>2 DEF Pending
  <2>3. QED BY <2>1, <2>2
<1>16. QED BY <1>1, <1>7, <1>8, <1>9, <1>14, <1>15 DEF TreeInv

-----------------------------------------------------------------------------
(* The traversal *)

\* The bodies in the square of one node.
Here(p) == {b \in Living : Inside(nodes[p], b)}

\* Once the tree is built every node weighs the living bodies in its square.
LEMMA BuiltWeighs ==
  ASSUME TreeTypeOK, TreeInv, Built, NEW p \in DOMAIN nodes
  PROVE  Inserted = Living /\ Given(p) = Here(p) /\ Weighs(p)
<1>1. ~crashed /\ calls = << >> /\ next > NumBodies
  BY DEF Built
<1>2. Inserted = Living
  <2>1. next \in Int /\ NumBodies \in Nat
    BY QuadTreeAssumption DEF TreeTypeOK
  <2>2. \A b \in Living : b < next
    BY <1>1, <2>1 DEF Living
  <2>3. QED BY <2>2 DEF Inserted
<1>3. 1 .. Len(calls) = {}
  BY <1>1
<1>4. \A b : Passed(b, Len(p))
  BY <1>3 DEF Passed
<1>5. QED BY <1>1, <1>2, <1>4 DEF TreeInv, Given, Here

\* The visit being paid.
Visiting(p) == visits # << >> /\ p = Head(visits)

LEMMA VisitFacts ==
  ASSUME TreeTypeOK, TreeInv, NEW p, Visiting(p)
  PROVE  /\ Built /\ target # NoBody /\ target \in Living /\ target \in 1 .. NumBodies
         /\ p \in DOMAIN nodes /\ p \in Seq(Quadrant) /\ nodes[p] \in NodeType
         /\ visits[1] = p
         /\ Tail(visits) \in Seq(Seq(Quadrant))
         /\ Len(visits) \in Nat /\ Len(visits) >= 1
         /\ Len(Tail(visits)) = Len(visits) - 1
         /\ \A k \in 1 .. Len(Tail(visits)) : Tail(visits)[k] = visits[k + 1]
         /\ \A k \in 1 .. Len(Tail(visits)) : Tail(visits)[k] \in DOMAIN nodes
         /\ \A k, l \in 1 .. Len(Tail(visits)) : \A b \in Living :
              Inside(nodes[Tail(visits)[k]], b) /\ Inside(nodes[Tail(visits)[l]], b)
                => k = l
         /\ Under(visits) = Under(Tail(visits)) \cup Here(p)
         /\ Under(Tail(visits)) \cap Here(p) = {}
         /\ Paid(counted, Under(visits))
<1>1. visits \in Seq(Seq(Quadrant)) /\ visits # << >>
  BY DEF TreeTypeOK, Visiting
<1> DEFINE rest == Tail(visits)
<1>2. /\ Head(visits) = visits[1]
      /\ Len(visits) \in Nat /\ Len(visits) >= 1
      /\ rest \in Seq(Seq(Quadrant)) /\ Len(rest) = Len(visits) - 1
      /\ \A k \in 1 .. Len(rest) : rest[k] = visits[k + 1]
  BY <1>1, HeadTailProperties, EmptySeq, LenProperties
<1>3. Traversal
  BY DEF TreeInv
<1>4. target # NoBody /\ Built /\ target \in Living
  BY <1>1, <1>3 DEF Traversal
<1>5. visits[1] = p /\ 1 \in 1 .. Len(visits)
  BY <1>2 DEF Visiting
<1>6. p \in DOMAIN nodes
  BY <1>3, <1>5 DEF Traversal
<1>7. p \in Seq(Quadrant) /\ nodes[p] \in NodeType /\ target \in 1 .. NumBodies
  BY <1>4, <1>6 DEF TreeTypeOK, Living
<1>8. \A k \in 1 .. Len(visits) : visits[k] \in DOMAIN nodes
  BY <1>3 DEF Traversal
<1>9. ASSUME NEW k \in 1 .. Len(visits), NEW l \in 1 .. Len(visits), NEW b \in Living,
             Inside(nodes[visits[k]], b), Inside(nodes[visits[l]], b)
      PROVE  k = l
  BY <1>3, <1>9 DEF Traversal
<1> HIDE DEF rest
<1>10. \A k \in 1 .. Len(rest) : k + 1 \in 1 .. Len(visits) /\ k + 1 # 1
  BY <1>2
<1>11. \A k \in 1 .. Len(rest) : rest[k] \in DOMAIN nodes
  BY <1>2, <1>8, <1>10
<1>12. ASSUME NEW k \in 1 .. Len(rest), NEW l \in 1 .. Len(rest), NEW b \in Living,
              Inside(nodes[rest[k]], b), Inside(nodes[rest[l]], b)
       PROVE  k = l
  <2>1. k + 1 = l + 1
    BY <1>2, <1>9, <1>10, <1>12
  <2>2. QED BY <2>1
<1>13. ASSUME NEW b \in Living
       PROVE  /\ b \in Under(visits) <=> b \in Under(rest) \/ b \in Here(p)
              /\ ~(b \in Under(rest) /\ b \in Here(p))
  <2>1. b \in Under(rest) <=> \E k \in 1 .. Len(rest) : Inside(nodes[visits[k + 1]], b)
    BY <1>2, <1>13 DEF Under
  <2>2. b \in Here(p) <=> Inside(nodes[visits[1]], b)
    BY <1>5, <1>13 DEF Here
  <2>3. b \in Under(visits) <=> \E k \in 1 .. Len(visits) : Inside(nodes[visits[k]], b)
    BY <1>13 DEF Under
  <2>4. ASSUME b \in Under(visits) PROVE b \in Under(rest) \/ b \in Here(p)
    <3>1. PICK k \in 1 .. Len(visits) : Inside(nodes[visits[k]], b)
      BY <2>3, <2>4
    <3>2. CASE k = 1
      BY <2>2, <3>1, <3>2
    <3>3. CASE k # 1
      <4>1. k - 1 \in 1 .. Len(rest) /\ (k - 1) + 1 = k
        BY <1>2, <3>3
      <4>2. QED BY <2>1, <3>1, <4>1
    <3>4. QED BY <3>2, <3>3
  <2>5. b \in Under(rest) \/ b \in Here(p) => b \in Under(visits)
    BY <1>5, <1>10, <2>1, <2>2, <2>3
  <2>6. ASSUME b \in Under(rest), b \in Here(p) PROVE FALSE
    <3>1. PICK k \in 1 .. Len(rest) : Inside(nodes[visits[k + 1]], b)
      BY <2>1, <2>6
    <3>2. k + 1 = 1
      BY <1>5, <1>9, <1>10, <2>2, <2>6, <3>1
    <3>3. QED BY <1>10, <3>2
  <2>7. QED BY <2>4, <2>5, <2>6
<1>14. /\ Under(visits) = Under(rest) \cup Here(p)
       /\ Under(rest) \cap Here(p) = {}
  <2>1. Under(visits) \subseteq Living /\ Under(rest) \subseteq Living
        /\ Here(p) \subseteq Living
    BY DEF Under, Here
  <2>2. QED BY <1>13, <2>1
<1>15. Paid(counted, Under(visits))
  BY <1>3, <1>4 DEF Traversal
<1>16. QED
  BY <1>2, <1>4, <1>5, <1>6, <1>7, <1>11, <1>12, <1>14, <1>15 DEF rest

\* A step of the traversal that leaves the tree alone and visits new nodes.
LEMMA TreeKept ==
  ASSUME TreeInv, UNCHANGED <<m_bodies, tree>>, Traversal'
  PROVE  TreeInv'
<1>1. UNCHANGED <<m_bodies, nodes, next, calls, crashed>>
  BY DEF tree
<1>2. TreeShape' /\ TreeWeights' /\ TreeCrash'
  BY <1>1, ShapeUnchanged, WeightsUnchanged DEF TreeInv, TreeWeights, TreeCrash
<1>3. QED BY <1>2 DEF TreeInv, TreeWeights, TreeCrash

LEMMA SetsKept ==
  ASSUME UNCHANGED <<m_bodies, tree>>
  PROVE  /\ Living' = Living
         /\ \A vs : Under(vs)' = Under(vs)
         /\ Built' = Built
         /\ \A p, b : Inside(nodes[p], b)' = Inside(nodes[p], b)
         /\ target' = target => SoftenedNodes' = SoftenedNodes
<1>1. UNCHANGED <<m_bodies, nodes, next, calls, crashed>>
  BY DEF tree
<1>2. QED BY <1>1 DEF Living, Under, Built, Inside, SoftenedNodes

\* The nodes to visit have been replaced by others that leave as much to add.
LEMMA VisitsReplaced ==
  ASSUME TreeTypeOK, UNCHANGED <<m_bodies, tree>>, TreeInv, Built,
         target' = target, target # NoBody, target \in Living, counted' \in Nat,
         NEW vs \in Seq(Seq(Quadrant)), visits' = vs,
         \A k \in 1 .. Len(vs) : vs[k] \in DOMAIN nodes,
         \A k, l \in 1 .. Len(vs) : \A b \in Living :
           Inside(nodes[vs[k]], b) /\ Inside(nodes[vs[l]], b) => k = l,
         Paid(counted', Under(vs))
  PROVE  TreeTypeOK' /\ TreeInv'
<1>1. UNCHANGED <<m_bodies, nodes, next, calls, crashed>>
  BY DEF tree
<1>2. TreeTypeOK'
  BY <1>1 DEF TreeTypeOK
<1>3. /\ Living' = Living /\ Built' = Built /\ Under(vs)' = Under(vs)
      /\ SoftenedNodes' = SoftenedNodes
  BY SetsKept
<1>4. \A k, l \in 1 .. Len(visits') : \A b \in Living :
        (Inside(nodes[visits[k]], b) /\ Inside(nodes[visits[l]], b))' => k = l
  BY <1>1 DEF Inside
<1>5. Paid(counted, Under(visits))'
  <2>1. Under(visits)' = Under(vs)
    BY <1>3
  <2>2. QED BY <1>3, <2>1 DEF Paid
<1>6. Traversal'
  BY <1>1, <1>3, <1>4, <1>5 DEF Traversal
<1>7. QED BY <1>2, <1>6, TreeKept

\* What is left to do when one node has been dealt with: nothing of what the
\* remaining nodes weigh is lost.
LEMMA VisitPaid ==
  ASSUME TreeTypeOK, TreeInv, NEW p, Visiting(p),
         visits' = Tail(visits), target' = target, UNCHANGED <<m_bodies, tree>>,
         counted' \in Nat,
         Paid(counted', Under(Tail(visits)))
  PROVE  TreeTypeOK' /\ TreeInv'
<1>1. /\ Built /\ target # NoBody /\ target \in Living
      /\ Tail(visits) \in Seq(Seq(Quadrant))
      /\ \A k \in 1 .. Len(Tail(visits)) : Tail(visits)[k] \in DOMAIN nodes
      /\ \A k, l \in 1 .. Len(Tail(visits)) : \A b \in Living :
           Inside(nodes[Tail(visits)[k]], b) /\ Inside(nodes[Tail(visits)[l]], b)
             => k = l
  BY VisitFacts
<1>2. QED BY <1>1, VisitsReplaced

LEMMA SkipNodeKeeps ==
  ASSUME TreeTypeOK, TreeInv, SkipNode
  PROVE  TreeTypeOK' /\ TreeInv'
<1>1. PICK p : Visiting(p)
  BY DEF SkipNode, Visiting
<1>2. /\ nodes[p].mass = 0 \/ nodes[p].body = target
      /\ visits' = Tail(visits) /\ target' = target /\ counted' = counted
      /\ UNCHANGED <<m_bodies, tree>>
  BY <1>1 DEF SkipNode, Visiting
<1>3. /\ Built /\ target # NoBody /\ p \in DOMAIN nodes
      /\ Under(visits) = Under(Tail(visits)) \cup Here(p)
      /\ Paid(counted, Under(visits))
  BY <1>1, VisitFacts
<1>4. Given(p) = Here(p) /\ Weighs(p)
  BY <1>3, BuiltWeighs
<1>5. Here(p) \subseteq {target}
  <2>1. CASE nodes[p].mass = 0
    <3>1. Given(p) = {}
      BY <1>4, <2>1 DEF Weighs
    <3>2. QED BY <1>4, <3>1
  <2>2. CASE nodes[p].body = target
    <3>1. nodes[p].body # NoBody /\ ~crashed
      BY <1>3, <2>2 DEF Built
    <3>2. Given(p) = {target}
      BY <1>3, <2>2, <3>1, HeldBody
    <3>3. QED BY <1>4, <3>2
  <2>3. QED BY <1>2, <2>1, <2>2
<1>6. /\ Under(Tail(visits)) \ {target} = Under(visits) \ {target}
      /\ target \notin Under(visits) => Under(Tail(visits)) = Under(visits)
  BY <1>3, <1>5
<1>7. counted' \in Nat
  BY <1>2 DEF TreeTypeOK
<1>8. Paid(counted', Under(Tail(visits)))
  BY <1>2, <1>3, <1>6 DEF Paid
<1>9. QED BY <1>1, <1>2, <1>7, <1>8, VisitPaid

\* Dealing with a node that does not hold the target by adding what it weighs.
LEMMA NodePaid ==
  ASSUME TreeTypeOK, TreeInv, NEW p, Visiting(p), target \notin Here(p),
         NEW m \in Nat, m = MassOf(Here(p)), counted' = counted + m,
         visits' = Tail(visits), target' = target, UNCHANGED <<m_bodies, tree>>
  PROVE  TreeTypeOK' /\ TreeInv'
<1>1. /\ Under(visits) = Under(Tail(visits)) \cup Here(p)
      /\ Under(Tail(visits)) \cap Here(p) = {}
      /\ Paid(counted, Under(visits))
  BY VisitFacts
<1>2. PICK r, t : r = Under(Tail(visits)) /\ t = Here(p)
  OBVIOUS
<1>3. /\ r \subseteq 1 .. NumBodies /\ t \subseteq 1 .. NumBodies
      /\ Under(visits) = r \cup t /\ r \cap t = {} /\ target \notin t
  BY <1>1, <1>2 DEF Under, Here, Living
<1>4. counted \in Nat /\ counted' \in Nat
  BY DEF TreeTypeOK
<1>5. ASSUME counted + MassOf(Under(visits) \ {target}) = MassOf(Living \ {target})
      PROVE  Paid(counted', r)
  <2>1. Under(visits) \ {target} = (r \ {target}) \cup t /\ (r \ {target}) \cap t = {}
        /\ r \ {target} \subseteq 1 .. NumBodies
    BY <1>3
  <2>2. MassOf((r \ {target}) \cup t) = MassOf(r \ {target}) + MassOf(t)
        /\ MassOf(r \ {target}) \in Int
    BY <1>3, <2>1, TogetherWeigh, MassOfType
  <2>3. MassOf(Under(visits) \ {target}) = MassOf(r \ {target}) + m
    BY <1>2, <2>1, <2>2
  <2>4. counted' + MassOf(r \ {target}) = MassOf(Living \ {target})
    BY <1>4, <1>5, <2>2, <2>3
  <2>5. QED BY <2>4 DEF Paid
<1>6. ASSUME /\ SoftenedNodes # {} /\ target \notin Under(visits)
             /\ counted + MassOf(Under(visits)) = MassOf(Living)
      PROVE  Paid(counted', r)
  <2>1. MassOf(r \cup t) = MassOf(r) + MassOf(t) /\ MassOf(r) \in Int
    BY <1>3, TogetherWeigh, MassOfType
  <2>2. MassOf(Under(visits)) = MassOf(r) + m
    BY <1>2, <1>3, <2>1
  <2>3. counted' + MassOf(r) = MassOf(Living) /\ target \notin r
    BY <1>3, <1>4, <1>6, <2>1, <2>2
  <2>4. QED BY <1>6, <2>3 DEF Paid
<1>7. Paid(counted', r)
  BY <1>1, <1>5, <1>6 DEF Paid
<1>8. QED BY <1>2, <1>4, <1>7, VisitPaid

LEMMA AttractedByLeafKeeps ==
  ASSUME TreeTypeOK, TreeInv, AttractedByLeaf
  PROVE  TreeTypeOK' /\ TreeInv'
<1>1. PICK p : Visiting(p)
  BY DEF AttractedByLeaf, Visiting
<1>2. /\ ~nodes[p].internal /\ nodes[p].body # NoBody /\ nodes[p].body # target
      /\ counted' = counted + BodyMass[nodes[p].body]
      /\ visits' = Tail(visits) /\ target' = target
      /\ UNCHANGED <<m_bodies, tree>>
  BY <1>1 DEF AttractedByLeaf, Visiting
<1>3. Built /\ p \in DOMAIN nodes /\ ~crashed
  BY <1>1, VisitFacts DEF Built
<1>4. PICK o : o = nodes[p].body
  OBVIOUS
<1>5. Here(p) = {o} /\ o \in 1 .. NumBodies
  BY <1>2, <1>3, <1>4, HeldBody, BuiltWeighs DEF Living
<1>6. BodyMass[o] \in Nat
  BY <1>5, QuadTreeAssumption
<1>7. MassOf(Here(p)) = BodyMass[o]
  <2>1. o \notin {} /\ {} \cup {o} = {o} /\ {} \subseteq 1 .. NumBodies
    OBVIOUS
  <2>2. MassOf({} \cup {o}) = MassOf({}) + BodyMass[o] /\ MassOf({}) = 0
    BY <1>5, <2>1, Joined, NobodyWeighs
  <2>3. QED BY <1>5, <1>6, <2>1, <2>2
<1>8. target \notin Here(p)
  BY <1>2, <1>4, <1>5
<1>9. QED BY <1>1, <1>2, <1>4, <1>6, <1>7, <1>8, NodePaid

\* A product is monotonic.
LEMMA Square ==
  ASSUME NEW d \in Int, NEW k \in Nat, d <= k, -k <= d
  PROVE  d * d <= k * k
<1>1. (k - d) * (k + d) >= 0
  <2>1. k - d \in Nat /\ k + d \in Nat
    OBVIOUS
  <2>2. \A a, c \in Nat : a * c >= 0
    OBVIOUS
  <2>3. QED BY <2>1, <2>2
<1>2. (k - d) * (k + d) = k * k - d * d
  OBVIOUS
<1>3. k * k \in Int /\ d * d \in Int
  OBVIOUS
<1>4. QED BY <1>1, <1>2, <1>3

\* Only the softening makes a node that holds the target seem far from it: the
\* centre of mass and the target are both in its square.
LEMMA FarIsNarrow ==
  ASSUME TreeTypeOK, NEW n \in NodeType, Centred(n), n.mass # 0,
         target \in 1 .. NumBodies, Inside(n, target), Far(n)
  PROVE  2 * n.width * n.width < Softening
<1> DEFINE m == n.mass
           w == n.width
           k == m * w
           dx == n.mx - m * m_bodies[target].x
           dy == n.my - m * m_bodies[target].y
<1>1. /\ m \in Nat \ {0} /\ w \in Nat \ {0} /\ n.x \in Int /\ n.y \in Int
      /\ n.mx \in Int /\ n.my \in Int
  BY DEF NodeType
<1>2. m_bodies[target].x \in Int /\ m_bodies[target].y \in Int
  BY Coordinates
<1>3. k \in Nat \ {0}
  <2>1. \A a, c \in Nat \ {0} : a * c \in Nat \ {0}
    OBVIOUS
  <2>2. QED BY <1>1, <2>1
<1>4. ASSUME NEW c \in Int, NEW x \in Int, NEW s \in Int,
             2 * (s - m * c) <= k, 2 * (s - m * c) >= -k,
             2 * (x - c) >= -w, 2 * (x - c) < w
      PROVE  s - m * x <= k /\ -k <= s - m * x
  <2>1. \A a \in Nat, u, v \in Int : u <= v => a * u <= a * v
    OBVIOUS
  <2>2. m * (2 * (x - c)) <= m * w /\ m * (-w) <= m * (2 * (x - c))
    BY <1>1, <1>4, <2>1
  <2>3. m * (2 * (x - c)) = 2 * (m * x) - 2 * (m * c) /\ m * (-w) = -k
    BY <1>1, <1>4
  <2>4. m * x \in Int /\ m * c \in Int /\ k \in Int
    BY <1>1, <1>4
  <2> HIDE DEF k
  <2>5. 2 * (m * x) - 2 * (m * c) <= k /\ -k <= 2 * (m * x) - 2 * (m * c)
    BY <2>2, <2>3 DEF k
  <2>6. QED BY <1>4, <2>4, <2>5
<1>5. dx <= k /\ -k <= dx /\ dy <= k /\ -k <= dy
  BY <1>1, <1>2, <1>4 DEF Centred, Inside
<1>6. dx \in Int /\ dy \in Int
  BY <1>1, <1>2
<1>7. Distance2(n) = dx * dx + dy * dy + Softening * m * m
  BY DEF Distance2
<1>8. PICK v \in Int : v = m * m
  BY <1>1
<1>9. v > 0 /\ k * k = w * w * v /\ Softening \in Nat
  <2>1. \A a \in Nat \ {0} : a * a > 0
    OBVIOUS
  <2>2. \A a, c \in Int : (a * c) * (a * c) = c * c * (a * a)
    OBVIOUS
  <2>3. k * k = w * w * (m * m)
    BY <1>1, <2>2
  <2>4. v > 0
    BY <1>1, <1>8, <2>1
  <2>5. Softening \in Nat
    BY QuadTreeAssumption
  <2>6. QED BY <1>8, <2>3, <2>4, <2>5
<1>10. 4 * (w * w * v) < dx * dx + dy * dy + Softening * v
  <2>1. 4 * w * w * m * m = 4 * (w * w * (m * m)) /\ Softening * m * m = Softening * (m * m)
    BY <1>1, <1>9
  <2> HIDE DEF dx, dy
  <2>2. QED BY <1>7, <1>8, <2>1 DEF Far
<1>11. dx * dx <= k * k /\ dy * dy <= k * k
  <2> HIDE DEF k, dx, dy
  <2>1. QED BY <1>3, <1>5, <1>6, Square
<1>12. 2 * (w * w * v) < Softening * v
  <2>1. dx * dx \in Int /\ dy * dy \in Int /\ w * w * v \in Int /\ Softening * v \in Int
    BY <1>1, <1>6, <1>8, <1>9
  <2> HIDE DEF k, dx, dy
  <2>2. QED BY <1>9, <1>10, <1>11, <2>1
<1>13. 2 * (w * w) < Softening
  <2>1. \A a, c \in Int : a >= c => a * v >= c * v
    BY <1>8, <1>9
  <2>2. w * w \in Int /\ 2 * (w * w) \in Int /\ (2 * (w * w)) * v = 2 * (w * w * v)
    BY <1>1, <1>8
  <2>3. (2 * (w * w)) * v \in Int /\ Softening * v \in Int
    BY <1>8, <1>9, <2>2
  <2>4. QED BY <1>9, <1>12, <2>1, <2>2, <2>3
<1>14. 2 * w * w = 2 * (w * w)
  BY <1>1
<1>15. QED BY <1>13, <1>14

\* Taking a narrow node that holds the target counts the target too, once: its leaf
\* is no longer under the nodes to visit.
LEMMA SelfPaid ==
  ASSUME TreeTypeOK, TreeInv, NEW p, Visiting(p), target \in Here(p),
         p \in SoftenedNodes, NEW m \in Nat, m = MassOf(Here(p)), counted' = counted + m,
         visits' = Tail(visits), target' = target, UNCHANGED <<m_bodies, tree>>
  PROVE  TreeTypeOK' /\ TreeInv'
<1>1. /\ Under(visits) = Under(Tail(visits)) \cup Here(p)
      /\ Under(Tail(visits)) \cap Here(p) = {}
      /\ Paid(counted, Under(visits)) /\ target \in Living /\ target \in 1 .. NumBodies
  BY VisitFacts
<1>2. PICK r, t : r = Under(Tail(visits)) /\ t = Here(p) \ {target}
  OBVIOUS
<1>3. PICK others : others = Living \ {target}
  OBVIOUS
<1>4. /\ r \subseteq 1 .. NumBodies /\ t \subseteq 1 .. NumBodies
      /\ others \subseteq 1 .. NumBodies
      /\ target \notin r /\ target \notin t /\ target \notin others
      /\ Under(visits) \ {target} = r \cup t /\ r \cap t = {}
      /\ Here(p) = t \cup {target} /\ Living = others \cup {target}
  BY <1>1, <1>2, <1>3 DEF Under, Here, Living
<1>5. counted + MassOf(r \cup t) = MassOf(others)
  BY <1>1, <1>3, <1>4 DEF Paid
<1>6. /\ MassOf(t \cup {target}) = MassOf(t) + BodyMass[target]
      /\ MassOf(others \cup {target}) = MassOf(others) + BodyMass[target]
      /\ MassOf(t) \in Int /\ MassOf(others) \in Int
  BY <1>1, <1>4, Joined
<1>7. MassOf(r \cup t) = MassOf(r) + MassOf(t) /\ MassOf(r) \in Int
  BY <1>4, TogetherWeigh, MassOfType
<1>8. m = MassOf(t) + BodyMass[target] /\ MassOf(Living) = MassOf(others) + BodyMass[target]
  BY <1>4, <1>6
<1>9. counted \in Nat /\ counted' \in Nat /\ BodyMass[target] \in Int
  BY <1>1, WeightTypes DEF TreeTypeOK
<1>10. counted' + MassOf(r) = MassOf(Living)
  <2>1. \A c, x, y, z, o \in Int : c + (x + y) = o => (c + (y + z)) + x = o + z
    OBVIOUS
  <2>2. counted + (MassOf(r) + MassOf(t)) = MassOf(others)
    BY <1>5, <1>7
  <2>3. (counted + (MassOf(t) + BodyMass[target])) + MassOf(r)
          = MassOf(others) + BodyMass[target]
    BY <1>6, <1>7, <1>9, <2>1, <2>2
  <2>4. QED BY <1>8, <2>3
<1>11. Paid(counted', r)
  BY <1>4, <1>10 DEF Paid
<1>12. QED BY <1>2, <1>9, <1>11, VisitPaid

LEMMA AttractedByNodeKeeps ==
  ASSUME TreeTypeOK, TreeInv, AttractedByNode
  PROVE  TreeTypeOK' /\ TreeInv'
<1>1. PICK p : Visiting(p)
  BY DEF AttractedByNode, Visiting
<1>2. /\ nodes[p].internal /\ nodes[p].mass # 0 /\ Far(nodes[p])
      /\ counted' = counted + nodes[p].mass
      /\ visits' = Tail(visits) /\ target' = target
      /\ UNCHANGED <<m_bodies, tree>>
  BY <1>1 DEF AttractedByNode, Visiting
<1>3. /\ Built /\ target \in 1 .. NumBodies
      /\ p \in DOMAIN nodes /\ nodes[p] \in NodeType
  BY <1>1, VisitFacts
<1>4. Given(p) = Here(p) /\ Weighs(p)
  BY <1>3, BuiltWeighs
<1>5. Centred(nodes[p]) /\ nodes[p].mass = MassOf(Here(p))
  BY <1>4 DEF Weighs
<1>6. nodes[p].mass \in Nat
  BY <1>3 DEF NodeType
<1>7. CASE target \notin Here(p)
  BY <1>1, <1>2, <1>5, <1>6, <1>7, NodePaid
<1>8. CASE target \in Here(p)
  <2>1. Inside(nodes[p], target)
    BY <1>8 DEF Here
  <2>2. p \in SoftenedNodes
    BY <1>2, <1>3, <1>5, <2>1, FarIsNarrow DEF SoftenedNodes
  <2>3. QED BY <1>1, <1>2, <1>5, <1>6, <1>8, <2>2, SelfPaid
<1>9. QED BY <1>7, <1>8

\* A body in the square of an internal node is in the square of one of its four
\* subtrees, and a body in the square of a subtree is in the node's.
LEMMA SubtreesPart ==
  ASSUME TreeTypeOK, TreeInv, NEW p \in DOMAIN nodes, nodes[p].internal,
         NEW q \in Quadrant, NEW b \in Living
  PROVE  /\ Append(p, q) \in DOMAIN nodes
         /\ Inside(nodes[Append(p, q)], b)
              <=> Inside(nodes[p], b) /\ q = QuadrantOf(nodes[p], b)
<1>1. /\ Append(p, q) \in DOMAIN nodes
      /\ SameSquare(nodes[Append(p, q)], Child(nodes[p], q))
      /\ Len(p) < MaxDepth /\ WidthOK(nodes[p].width, Len(p))
  BY DEF TreeInv, TreeShape, Squares
<1>2. nodes[p] \in NodeType /\ Len(p) \in Nat
  BY LenNat DEF TreeTypeOK
<1>3. SquareType(nodes[p]) /\ nodes[p].width \in Int
  BY <1>2 DEF NodeType, SquareType
<1>4. nodes[p].width % 4 = 0
  BY <1>1, <1>2, <1>3, WidthHalves
<1>5. m_bodies[b].x \in Int /\ m_bodies[b].y \in Int
  BY Coordinates DEF Living
<1>6. Inside(Child(nodes[p], q), b) <=> Inside(nodes[p], b) /\ q = QuadrantOf(nodes[p], b)
  BY <1>3, <1>4, <1>5, ChildSquares
<1>7. QED BY <1>1, <1>6, InsideSame

Subtrees(p) == [q \in 1 .. 4 |-> Append(p, q - 1)]

SubtreesThen(vs, p, rest) ==
  /\ vs \in Seq(Seq(Quadrant)) /\ Len(vs) = 4 + Len(rest)
  /\ \A k \in 1 .. 4 : k \in 1 .. Len(vs) /\ vs[k] = Append(p, k - 1)
  /\ \A k \in 1 .. Len(vs) :
       k \in 1 .. 4 \/ (k - 4 \in 1 .. Len(rest) /\ vs[k] = rest[k - 4])
  /\ \A k \in 1 .. Len(rest) : k + 4 \in 1 .. Len(vs) /\ vs[k + 4] = rest[k]

\* The four subtrees of a node, then the nodes that were still to visit.
LEMMA SubtreesFirst ==
  ASSUME NEW p \in Seq(Quadrant), NEW rest \in Seq(Seq(Quadrant)),
         NEW vs, vs = Subtrees(p) \o rest
  PROVE  SubtreesThen(vs, p, rest)
<1>1. PICK below : below = Subtrees(p)
  OBVIOUS
<1>2. \A k \in 1 .. 4 : Append(p, k - 1) \in Seq(Quadrant) /\ below[k] = Append(p, k - 1)
  <2>1. \A k \in 1 .. 4 : k - 1 \in Quadrant
    BY DEF Quadrant
  <2>2. below = [q \in 1 .. 4 |-> Append(p, q - 1)]
    BY <1>1 DEF Subtrees
  <2>3. \A k \in 1 .. 4 : Append(p, k - 1) \in Seq(Quadrant)
    BY <2>1, AppendType
  <2>4. QED BY <2>2, <2>3
<1>3. below \in Seq(Seq(Quadrant)) /\ Len(below) = 4
  BY <1>1, <1>2 DEF Subtrees
<1>4. Len(rest) \in Nat
  BY LenProperties
<1>5. vs = below \o rest
  BY <1>1
<1>6. /\ vs \in Seq(Seq(Quadrant)) /\ Len(vs) = Len(below) + Len(rest)
      /\ \A k \in 1 .. Len(below) + Len(rest) :
           vs[k] = IF k <= Len(below) THEN below[k] ELSE rest[k - Len(below)]
  <2>1. \A S : \A s, t \in Seq(S) :
          /\ s \o t \in Seq(S) /\ Len(s \o t) = Len(s) + Len(t)
          /\ \A k \in 1 .. Len(s) + Len(t) :
               (s \o t)[k] = IF k <= Len(s) THEN s[k] ELSE t[k - Len(s)]
    BY ConcatProperties
  <2>2. /\ below \o rest \in Seq(Seq(Quadrant))
        /\ Len(below \o rest) = Len(below) + Len(rest)
        /\ \A k \in 1 .. Len(below) + Len(rest) :
             (below \o rest)[k] = IF k <= Len(below) THEN below[k] ELSE rest[k - Len(below)]
    BY <1>3, <2>1, Zenon
  <2>3. QED BY <1>5, <2>2
<1>7. /\ Len(vs) = 4 + Len(rest)
      /\ \A k \in 1 .. 4 + Len(rest) : vs[k] = IF k <= 4 THEN below[k] ELSE rest[k - 4]
  BY <1>3, <1>6
<1>8. \A k \in 1 .. Len(rest) : k + 4 \in 1 .. Len(vs) /\ vs[k + 4] = rest[k]
  BY <1>4, <1>7
<1>9. \A k \in 1 .. 4 : k \in 1 .. Len(vs) /\ vs[k] = Append(p, k - 1)
  BY <1>2, <1>4, <1>7
<1>10. \A k \in 1 .. Len(vs) :
         k \in 1 .. 4 \/ (k - 4 \in 1 .. Len(rest) /\ vs[k] = rest[k - 4])
  BY <1>4, <1>7
<1>11. QED BY <1>6, <1>7, <1>8, <1>9, <1>10 DEF SubtreesThen

LEMMA OpenNodeKeeps ==
  ASSUME TreeTypeOK, TreeInv, OpenNode
  PROVE  TreeTypeOK' /\ TreeInv'
<1>1. PICK p : Visiting(p)
  BY DEF OpenNode, Visiting
<1>2. PICK rest : rest = Tail(visits)
  OBVIOUS
<1>4. PICK vs : vs = Subtrees(p) \o rest
  OBVIOUS
<1>5. /\ nodes[p].internal /\ visits' = vs /\ target' = target /\ counted' = counted
      /\ UNCHANGED <<m_bodies, tree>>
  BY <1>1, <1>2, <1>4 DEF OpenNode, Visiting, Subtrees
<1>6. /\ Built /\ target # NoBody /\ target \in Living
      /\ p \in DOMAIN nodes /\ p \in Seq(Quadrant)
      /\ rest \in Seq(Seq(Quadrant)) /\ Len(rest) \in Nat
      /\ \A k \in 1 .. Len(rest) : rest[k] \in DOMAIN nodes
      /\ \A k, l \in 1 .. Len(rest) : \A b \in Living :
           Inside(nodes[rest[k]], b) /\ Inside(nodes[rest[l]], b) => k = l
      /\ Under(visits) = Under(rest) \cup Here(p)
      /\ Under(rest) \cap Here(p) = {}
      /\ Paid(counted, Under(visits))
  <2>1. Len(Tail(visits)) = Len(visits) - 1 /\ Len(visits) \in Nat /\ Len(visits) >= 1
    BY <1>1, VisitFacts
  <2>2. Len(rest) \in Nat
    BY <1>2, <2>1
  <2>3. /\ Tail(visits) \in Seq(Seq(Quadrant))
        /\ \A k \in 1 .. Len(Tail(visits)) : Tail(visits)[k] \in DOMAIN nodes
        /\ \A k, l \in 1 .. Len(Tail(visits)) : \A b \in Living :
             Inside(nodes[Tail(visits)[k]], b) /\ Inside(nodes[Tail(visits)[l]], b)
               => k = l
        /\ Under(visits) = Under(Tail(visits)) \cup Here(p)
        /\ Under(Tail(visits)) \cap Here(p) = {}
    BY <1>1, VisitFacts
  <2>4. /\ Built /\ target # NoBody /\ target \in Living
        /\ p \in DOMAIN nodes /\ p \in Seq(Quadrant)
        /\ Paid(counted, Under(visits))
    BY <1>1, VisitFacts
  <2>5. QED BY <1>2, <2>2, <2>3, <2>4
<1>7. \A k \in 1 .. 4 : k - 1 \in Quadrant
  BY DEF Quadrant
<1>9. /\ vs \in Seq(Seq(Quadrant)) /\ Len(vs) = 4 + Len(rest)
      /\ \A k \in 1 .. 4 : k \in 1 .. Len(vs) /\ vs[k] = Append(p, k - 1)
      /\ \A k \in 1 .. Len(vs) :
           k \in 1 .. 4 \/ (k - 4 \in 1 .. Len(rest) /\ vs[k] = rest[k - 4])
      /\ \A k \in 1 .. Len(rest) : k + 4 \in 1 .. Len(vs) /\ vs[k + 4] = rest[k]
  <2>1. p \in Seq(Quadrant) /\ rest \in Seq(Seq(Quadrant))
    BY <1>6
  <2>2. SubtreesThen(vs, p, rest)
    BY <1>4, <2>1, SubtreesFirst
  <2>3. QED BY <2>2 DEF SubtreesThen
<1>13. ASSUME NEW k \in 1 .. 4, NEW b \in Living
       PROVE  /\ vs[k] \in DOMAIN nodes
              /\ Inside(nodes[vs[k]], b)
                   <=> Inside(nodes[p], b) /\ k - 1 = QuadrantOf(nodes[p], b)
  <2>1. PICK q : q = k - 1
    OBVIOUS
  <2>2. q \in Quadrant /\ vs[k] = Append(p, q)
    BY <1>7, <1>9, <2>1
  <2>3. /\ Append(p, q) \in DOMAIN nodes
        /\ Inside(nodes[Append(p, q)], b)
             <=> Inside(nodes[p], b) /\ q = QuadrantOf(nodes[p], b)
    BY <1>5, <1>6, <2>2, SubtreesPart
  <2>4. QED BY <2>1, <2>2, <2>3
<1>14. ASSUME NEW b \in Living
       PROVE  Inside(nodes[p], b) <=> \E k \in 1 .. 4 : Inside(nodes[vs[k]], b)
  <2>1. PICK k : k = QuadrantOf(nodes[p], b) + 1
    OBVIOUS
  <2>2. QuadrantOf(nodes[p], b) \in 0 .. 3
    BY QuadrantOfType DEF Quadrant
  <2>3. k \in 1 .. 4 /\ k - 1 = QuadrantOf(nodes[p], b)
    BY <2>1, <2>2
  <2>4. QED BY <1>13, <2>3
<1>15. ASSUME NEW b \in Living, NEW k \in 1 .. 4, NEW l \in 1 .. 4,
              Inside(nodes[vs[k]], b), Inside(nodes[vs[l]], b)
       PROVE  k = l
  <2>1. k - 1 = l - 1
    BY <1>13, <1>15
  <2>2. QED BY <2>1
<1>16. \A b \in Living : (b \in Under(rest)
         <=> \E k \in 1 .. Len(rest) : Inside(nodes[rest[k]], b))
  BY DEF Under
<1>17. \A b \in Living : b \in Here(p) <=> Inside(nodes[p], b)
  BY DEF Here
<1>18. Under(vs) = Under(visits)
  <2>1. ASSUME NEW b \in Living PROVE b \in Under(vs) <=> b \in Under(rest) \cup Here(p)
    <3>1. b \in Under(vs) <=> \E k \in 1 .. Len(vs) : Inside(nodes[vs[k]], b)
      BY DEF Under
    <3>2. ASSUME NEW k \in 1 .. Len(vs), Inside(nodes[vs[k]], b)
          PROVE  b \in Under(rest) \cup Here(p)
      BY <1>9, <1>14, <1>16, <1>17, <3>2
    <3>3. b \in Under(rest) => \E k \in 1 .. Len(vs) : Inside(nodes[vs[k]], b)
      BY <1>9, <1>16
    <3>4. b \in Here(p) => \E k \in 1 .. Len(vs) : Inside(nodes[vs[k]], b)
      BY <1>9, <1>14, <1>17
    <3>5. QED BY <3>1, <3>2, <3>3, <3>4
  <2>2. Under(vs) \subseteq Living /\ Under(rest) \subseteq Living /\ Here(p) \subseteq Living
    BY DEF Under, Here
  <2>3. QED BY <1>6, <2>1, <2>2
<1>19. \A k \in 1 .. Len(vs) : vs[k] \in DOMAIN nodes
  BY <1>6, <1>9, <1>13
<1>20. ASSUME NEW b \in Living, NEW k \in 1 .. Len(vs), NEW l \in 1 .. Len(vs),
              Inside(nodes[vs[k]], b), Inside(nodes[vs[l]], b)
       PROVE  k = l
  <2>1. ASSUME NEW u \in 1 .. 4, NEW v \in 1 .. Len(vs), v \notin 1 .. 4,
               Inside(nodes[vs[u]], b), Inside(nodes[vs[v]], b)
        PROVE  FALSE
    <3>1. b \in Here(p)
      BY <1>14, <1>17, <2>1
    <3>2. b \in Under(rest)
      BY <1>9, <1>16, <2>1
    <3>3. QED BY <1>6, <3>1, <3>2
  <2>2. CASE k \in 1 .. 4 /\ l \in 1 .. 4
    BY <1>15, <1>20, <2>2
  <2>3. CASE k \notin 1 .. 4 /\ l \notin 1 .. 4
    <3>1. k - 4 = l - 4
      <4>1. /\ k - 4 \in 1 .. Len(rest) /\ vs[k] = rest[k - 4]
            /\ l - 4 \in 1 .. Len(rest) /\ vs[l] = rest[l - 4]
        BY <1>9, <2>3
      <4>2. Inside(nodes[rest[k - 4]], b) /\ Inside(nodes[rest[l - 4]], b)
        BY <1>20, <4>1
      <4>3. QED BY <1>6, <4>1, <4>2
    <3>2. QED BY <1>6, <1>9, <3>1
  <2>4. QED BY <1>20, <2>1, <2>2, <2>3
<1>21. Paid(counted, Under(vs))
  BY <1>6, <1>18
<1>22. counted' \in Nat
  BY <1>5 DEF TreeTypeOK
<1>23. Paid(counted', Under(vs))
  BY <1>5, <1>21
<1>24. \A k, l \in 1 .. Len(vs) : \A b \in Living :
         Inside(nodes[vs[k]], b) /\ Inside(nodes[vs[l]], b) => k = l
  BY <1>20
<1>25. QED BY <1>5, <1>6, <1>9, <1>19, <1>22, <1>23, <1>24, VisitsReplaced

LEMMA StartForceKeeps ==
  ASSUME TreeTypeOK, TreeInv, StartForce
  PROVE  TreeTypeOK' /\ TreeInv'
<1>1. PICK vs : vs = << << >> >>
  OBVIOUS
<1>2. /\ Built /\ target' \in Living /\ visits' = vs /\ counted' = 0
      /\ UNCHANGED <<m_bodies, tree>>
  BY <1>1 DEF StartForce
<1>3. UNCHANGED <<m_bodies, nodes, next, calls, crashed>>
  BY <1>2 DEF tree
<1>4. target' \in 1 .. NumBodies /\ target' # NoBody
  BY <1>2 DEF Living, NoBody
<1>5. vs \in Seq(Seq(Quadrant)) /\ Len(vs) = 1 /\ vs[1] = << >> /\ 1 .. Len(vs) = {1}
  <2>1. << >> \in Seq(Quadrant)
    OBVIOUS
  <2>2. QED BY <1>1, <2>1
<1>6. TreeTypeOK'
  BY <1>2, <1>3, <1>4, <1>5 DEF TreeTypeOK
<1>7. Living' = Living /\ Built' = Built /\ Under(vs)' = Under(vs)
  BY <1>2, SetsKept
<1>8. << >> \in DOMAIN nodes /\ \A b \in Living : Inside(nodes[<< >>], b)
  BY DEF TreeInv, TreeShape, Squares, OnePath
<1>9. Under(vs) = Living
  BY <1>5, <1>8 DEF Under
<1>10. Paid(counted, Under(visits))'
  <2>1. PICK t : t = target'
    OBVIOUS
  <2>2. MassOf(Living \ {t}) \in Int
    BY MassOfType DEF Living
  <2>3. Under(visits)' = Living /\ Living' = Living
    BY <1>2, <1>7, <1>9
  <2>4. 0 + MassOf(Living \ {t}) = MassOf(Living \ {t})
    BY <2>2
  <2>5. QED BY <1>2, <2>1, <2>3, <2>4 DEF Paid
<1>11. Traversal'
  <2>1. \A k \in 1 .. Len(visits') : visits'[k] \in DOMAIN nodes'
    BY <1>2, <1>3, <1>5, <1>8
  <2>2. \A k, l \in 1 .. Len(visits') : k = l
    BY <1>2, <1>5
  <2>3. Built' /\ target' \in Living'
    BY <1>2, <1>7
  <2>4. QED BY <1>4, <1>10, <2>1, <2>2, <2>3 DEF Traversal
<1>12. QED BY <1>2, <1>6, <1>11, TreeKept

LEMMA EndForceKeeps ==
  ASSUME TreeTypeOK, TreeInv, EndForce
  PROVE  TreeTypeOK' /\ TreeInv'
<1>1. /\ visits = << >> /\ visits' = visits /\ target' = NoBody /\ counted' = 0
      /\ UNCHANGED <<m_bodies, tree>>
  BY DEF EndForce
<1>2. NoBody \in 0 .. NumBodies
  BY QuadTreeAssumption DEF NoBody
<1>3. TreeTypeOK'
  BY <1>1, <1>2 DEF TreeTypeOK, tree
<1>4. 1 .. Len(visits') = {}
  BY <1>1
<1>5. Traversal'
  BY <1>1, <1>4 DEF Traversal
<1>6. QED BY <1>1, <1>3, <1>5, TreeKept

\* Before the first insertion the tree is its root, which weighs nothing.
LEMMA TreeInitHolds ==
  ASSUME TreeInit
  PROVE  TreeTypeOK /\ TreeInv
<1>1. /\ m_bodies \in [1 .. NumBodies -> [x : Coord, y : Coord, alive : BOOLEAN]]
      /\ nodes = [p \in {<< >>} |-> Root(m_bodies)]
      /\ next = 1 /\ calls = << >> /\ crashed = FALSE
      /\ target = NoBody /\ visits = << >> /\ counted = 0
  BY DEF TreeInit
<1>2. PICK root : root = Root(m_bodies)
  OBVIOUS
<1>3. DOMAIN nodes = {<< >>} /\ nodes[<< >>] = root /\ nodes = [p \in {<< >>} |-> root]
  BY <1>1, <1>2
<1>4. /\ root \in NodeType /\ WidthOK(root.width, 0)
      /\ \A b \in Living : Inside(root, b)
      /\ root.mass = 0 /\ root.mx = 0 /\ root.my = 0
      /\ root.body = NoBody /\ ~root.internal
  BY <1>1, <1>2, RootHolds
<1>5. << >> \in Seq(Quadrant) /\ Len(<< >>) = 0
  OBVIOUS
<1>6. TreeTypeOK
  <2>1. next \in 1 .. NumBodies + 1 /\ NoBody \in 0 .. NumBodies
    BY <1>1, QuadTreeAssumption DEF NoBody
  <2>2. /\ << >> \in Seq([body : 1 .. NumBodies, path : Seq(Quadrant)])
        /\ << >> \in Seq(Seq(Quadrant))
    OBVIOUS
  <2>3. DOMAIN nodes \subseteq Seq(Quadrant) /\ nodes \in [DOMAIN nodes -> NodeType]
    BY <1>3, <1>4, <1>5
  <2>4. QED BY <1>1, <2>1, <2>2, <2>3 DEF TreeTypeOK
<1>7. TreeShape
  <2>1. MaxDepth >= 0
    BY QuadTreeAssumption
  <2>2. Squares
    BY <1>3, <1>4, <1>5, <2>1 DEF Squares
  <2>3. \A p \in Seq(Quadrant), q \in Quadrant : Append(p, q) # << >>
    BY AppendType
  <2>4. \A p \in Seq(Quadrant), q \in Quadrant : Rooted(p, q)
    BY <1>3, <2>3 DEF Rooted
  <2>5. \A b \in Living : OnePath(b)
    BY <1>3, <1>4, <1>5 DEF OnePath
  <2>6. QED BY <2>2, <2>4, <2>5 DEF TreeShape
<1>8. Inserted = {} /\ Given(<< >>) = {}
  BY <1>1 DEF Inserted, Living, Given
<1>9. \A p \in DOMAIN nodes : Weighs(p)
  <2>1. MassOf({}) = 0 /\ MomentX(m_bodies, {}) = 0 /\ MomentY(m_bodies, {}) = 0
    BY <1>6, NobodyWeighs
  <2>2. root.x \in Int /\ root.y \in Int /\ root.width \in Nat
    BY <1>4 DEF NodeType
  <2>3. 0 * root.x = 0 /\ 0 * root.y = 0 /\ 0 * root.width = 0
    BY <2>2
  <2>4. Centred(root)
    BY <1>4, <2>3 DEF Centred
  <2>5. QED BY <1>3, <1>4, <1>8, <2>1, <2>4 DEF Weighs
<1>10. 1 .. Len(calls) = {} /\ 1 .. Len(visits) = {} /\ Len(calls) = 0
  BY <1>1
<1>11. Pending
  BY <1>10 DEF Pending
<1>12. Traversal
  BY <1>1, <1>10 DEF Traversal
<1>13. QED BY <1>1, <1>6, <1>7, <1>9, <1>11, <1>12 DEF TreeInv

LEMMA TreeInvNext ==
  ASSUME TreeTypeOK, TreeInv, [TreeNext]_treeVars
  PROVE  TreeTypeOK' /\ TreeInv'
<1>1. CASE StartInsert
  BY <1>1, StartInsertKeeps
<1>2. CASE StoreBody
  BY <1>2, StoreBodyKeeps
<1>3. CASE SplitLeaf
  BY <1>3, SplitLeafKeeps
<1>4. CASE Descend
  BY <1>4, DescendKeeps
<1>5. CASE StartForce
  BY <1>5, StartForceKeeps
<1>6. CASE SkipNode
  BY <1>6, SkipNodeKeeps
<1>7. CASE AttractedByLeaf
  BY <1>7, AttractedByLeafKeeps
<1>8. CASE AttractedByNode
  BY <1>8, AttractedByNodeKeeps
<1>9. CASE OpenNode
  BY <1>9, OpenNodeKeeps
<1>10. CASE EndForce
  BY <1>10, EndForceKeeps
<1>11. CASE UNCHANGED treeVars
  <2>1. UNCHANGED <<m_bodies, tree>> /\ UNCHANGED force
    BY <1>11 DEF treeVars
  <2>2. UNCHANGED <<m_bodies, nodes, next, calls, crashed, target, visits, counted>>
    BY <2>1 DEF tree, force
  <2>3. TreeTypeOK'
    BY <2>2 DEF TreeTypeOK
  <2>4. PICK vs : vs = visits
    OBVIOUS
  <2>5. /\ Living' = Living /\ Built' = Built /\ Under(vs)' = Under(vs)
        /\ SoftenedNodes' = SoftenedNodes
    BY <2>1, <2>2, SetsKept
  <2>6. Traversal
    BY DEF TreeInv
  <2>7. \A p, b : Inside(nodes[p], b)' = Inside(nodes[p], b)
    BY <2>1, SetsKept
  <2>8. \A k, l \in 1 .. Len(visits) : \A b \in Living :
          Inside(nodes[visits[k]], b)' /\ Inside(nodes[visits[l]], b)' => k = l
    BY <2>2, <2>6 DEF Traversal, Inside
  <2>9. Paid(counted, Under(visits))' = Paid(counted, Under(visits))
    <3>1. Under(visits)' = Under(visits)
      BY <2>2, <2>4, <2>5
    <3>2. QED BY <2>2, <2>5, <3>1 DEF Paid
  <2>11. Traversal'
    BY <2>2, <2>5, <2>6, <2>8, <2>9 DEF Traversal
  <2>12. QED BY <2>1, <2>3, <2>11, TreeKept
<1>12. QED
  BY <1>1, <1>2, <1>3, <1>4, <1>5, <1>6, <1>7, <1>8, <1>9, <1>10, <1>11 DEF TreeNext

-----------------------------------------------------------------------------
(* What is proved about the quadtree *)

\* At every step of the building of the tree and of a traversal the variables
\* have their types, the nodes are the squares of a quadtree in which the nodes
\* around a body form one path to one leaf, and each node weighs exactly the
\* bodies it was given so far; in a traversal, what has been counted and what is
\* under the nodes still to visit are together all bodies but the target (or all
\* bodies, once a narrow node around the target was taken as a whole), and no body
\* is under two of them (quadtree.hpp:44-148).
THEOREM QuadTreeInvariant == TreeSpec => [](TreeTypeOK /\ TreeInv)
<1>1. TreeInit => TreeTypeOK /\ TreeInv
  BY TreeInitHolds
<1>2. TreeTypeOK /\ TreeInv /\ [TreeNext]_treeVars => TreeTypeOK' /\ TreeInv'
  BY TreeInvNext
<1>3. QED BY <1>1, <1>2, PTL DEF TreeSpec

LEMMA InvWeighs ==
  ASSUME TreeTypeOK, TreeInv
  PROVE  NodesWeighTheirSquare
<1> SUFFICES ASSUME calls = << >>, ~crashed, NEW p \in DOMAIN nodes
             PROVE  LET here == {b \in Inserted : Inside(nodes[p], b)}
                    IN  /\ nodes[p].mass = MassOf(here)
                        /\ nodes[p].mx = MomentX(m_bodies, here)
                        /\ nodes[p].my = MomentY(m_bodies, here)
  BY DEF NodesWeighTheirSquare
<1>1. 1 .. Len(calls) = {}
  OBVIOUS
<1>2. \A b : Passed(b, Len(p))
  BY <1>1 DEF Passed
<1>3. Given(p) = {b \in Inserted : Inside(nodes[p], b)}
  BY <1>2 DEF Given
<1>4. Weighs(p)
  BY DEF TreeInv
<1>5. QED BY <1>3, <1>4 DEF Weighs

LEMMA InvOneLeaf ==
  ASSUME TreeTypeOK, TreeInv
  PROVE  OneLeafEach
<1> SUFFICES ASSUME calls = << >>, ~crashed, NEW b \in Inserted
             PROVE  \E p \in DOMAIN nodes :
                      /\ Inside(nodes[p], b)
                      /\ {r \in DOMAIN nodes : nodes[r].body = b} = {p}
  BY DEF OneLeafEach
<1>1. b \in Living /\ b \in 1 .. NumBodies
  BY DEF Inserted, Living
<1>2. OnePath(b)
  BY <1>1 DEF TreeInv, TreeShape
<1>3. PICK p \in DOMAIN nodes : ~nodes[p].internal /\ Inside(nodes[p], b)
  BY <1>2 DEF OnePath
<1>4. 1 .. Len(calls) = {}
  OBVIOUS
<1>5. b \in Given(p)
  BY <1>3, <1>4 DEF Given, Passed
<1>6. nodes[p].body = b
  <2>1. Given(p) = IF nodes[p].body = NoBody THEN {} ELSE {nodes[p].body}
    BY <1>3 DEF TreeInv, Weighs
  <2>2. QED BY <1>5, <2>1
<1>7. ASSUME NEW r \in DOMAIN nodes, nodes[r].body = b
      PROVE  r = p
  <2>1. b # NoBody
    BY <1>1 DEF NoBody
  <2>2. ~nodes[r].internal /\ Inside(nodes[r], b)
    BY <1>7, <2>1, HeldBody
  <2>3. Len(r) <= Len(p) /\ Len(p) <= Len(r)
    BY <1>2, <1>3, <2>2 DEF OnePath
  <2>4. Len(r) = Len(p)
    BY <2>3, LenNat
  <2>5. QED BY <1>2, <1>3, <2>2, <2>4 DEF OnePath
<1>8. QED BY <1>3, <1>6, <1>7

\* Between two insertions every node weighs exactly the inserted bodies in its
\* square, at their common centre (quadtree.hpp:75-84, 97-105).
THEOREM NodesWeigh == TreeSpec => []NodesWeighTheirSquare
BY QuadTreeInvariant, InvWeighs, PTL

\* Between two insertions every inserted body is in one leaf, which is in its
\* place (quadtree.hpp:44-52, 87-105).
THEOREM OneLeaf == TreeSpec => []OneLeafEach
BY QuadTreeInvariant, InvOneLeaf, PTL

\* On a stack deep enough to tell any two coordinates apart, the recursion of
\* insert ends unless two living bodies are in the same place (quadtree.hpp:93-105).
THEOREM RecursionEnds == TreeSpec => []EndlessOnlyIfCoincident
<1>1. TreeInv => EndlessOnlyIfCoincident
  BY DEF TreeInv, Coincident, EndlessOnlyIfCoincident
<1>2. QED BY <1>1, QuadTreeInvariant, PTL

\* A body is attracted by every other living body exactly once, whichever nodes
\* stand for several bodies; its own mass is counted at most once, and only when
\* an internal node around it is so narrow (2 * width ^ 2 < Softening) that the
\* softened distance to a point in the node's own square seems large
\* (quadtree.hpp:109-148).
THEOREM AttractedOnce == TreeSpec => []AttractedOnceByOthers
<1>1. TreeTypeOK /\ TreeInv => AttractedOnceByOthers
  <2> SUFFICES ASSUME TreeTypeOK, TreeInv, target # NoBody, visits = << >>
               PROVE  \/ counted = MassOf(Living \ {target})
                      \/ SoftenedNodes # {} /\ counted = MassOf(Living)
    BY DEF AttractedOnceByOthers
  <2>1. Paid(counted, Under(visits))
    BY DEF TreeInv, Traversal
  <2>2. 1 .. Len(visits) = {}
    OBVIOUS
  <2>3. Under(visits) \ {target} = {} /\ Under(visits) = {}
    BY <2>2 DEF Under
  <2>4. MassOf({}) = 0 /\ counted \in Nat
    BY NobodyWeighs DEF TreeTypeOK
  <2>5. MassOf(Under(visits) \ {target}) = 0 /\ MassOf(Under(visits)) = 0
    BY <2>3, <2>4
  <2>6. counted + 0 = counted
    BY <2>4
  <2>7. QED BY <2>1, <2>5, <2>6 DEF Paid
<1>2. QED BY <1>1, QuadTreeInvariant, PTL
=============================================================================
