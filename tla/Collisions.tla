----------------------------- MODULE Collisions -----------------------------
(***************************************************************************)
(* The collision pass of engine/include/simulation_instance.hpp            *)
(* (resolve_collisions): after every integration step each pair of bodies  *)
(* is visited once, row by row, and bodies in contact are merged into the  *)
(* heavier one.  The row's own body is tested for life when its row is     *)
(* entered (line 155) and not again, so a body absorbed in the middle of   *)
(* its row goes on colliding as a ghost until the row ends.                *)
(*                                                                         *)
(* Space is a line, and a body carries its momentum (mass * velocity)      *)
(* instead of its velocity, which keeps the inelastic merge exact; the     *)
(* integrator is any motion of the living bodies.                          *)
(***************************************************************************)
EXTENDS Integers, FiniteSets, FiniteSetsExt

CONSTANTS
  N,         \* number of bodies in the scene
  Mass,      \* masses a scene may give a body
  Pos,       \* positions a body may be uploaded at or moved to
  Mom        \* momenta a body may have before a pass

ASSUME CollisionsAssumption ==
  /\ N \in Nat \ {0}
  /\ Mass \subseteq Nat \ {0}
  /\ Pos \subseteq Int
  /\ Mom \subseteq Int

VARIABLES
  bodies,     \* m_bodies
  phase,      \* "integrate", "row" (about to enter row i), "pair" (at i, j)
  i, j,       \* the loop counters, 1-based
  before,     \* history variable: bodies when the pass began
  ghostMerge  \* history variable: a merge of this pass involved a dead body

vars == <<bodies, phase, i, j, before, ghostMerge>>

Body == [mass : Nat \ {0}, mom : Int, pos : Int, radius : Nat \ {0},
         alive : BOOLEAN]

TypeOK ==
  /\ bodies \in [1 .. N -> Body]
  /\ phase \in {"integrate", "row", "pair"}
  /\ i \in 1 .. N + 1
  /\ j \in 2 .. N + 1
  /\ before \in [1 .. N -> Body]
  /\ ghostMerge \in BOOLEAN

Alive(bs) == {k \in 1 .. N : bs[k].alive}

\* The integer cube root, at least 1: the unit of length is the radius of a
\* body of unit mass.
RadiusFromMass(m) == Cardinality({r \in 1 .. m : r * r * r <= m})

\* uploadScene: a body's radius follows from its mass, unless the scene gives
\* one (here: twice that); the alive flag is the scene's.
UploadedBody(m, p, x, radiusGiven, alive) ==
  [mass |-> m, mom |-> p, pos |-> x, alive |-> alive,
   radius |-> IF radiusGiven THEN 2 * RadiusFromMass(m) ELSE RadiusFromMass(m)]

Init ==
  /\ bodies \in [1 .. N -> {UploadedBody(m, p, x, g, a) :
                              m \in Mass, p \in Mom, x \in Pos,
                              g \in BOOLEAN, a \in BOOLEAN}]
  /\ phase = "integrate"
  /\ i = 1
  /\ j = 2
  /\ before = bodies
  /\ ghostMerge = FALSE

\* Body b at position x with momentum p.
At(b, x, p) == [mass |-> b.mass, mom |-> p, pos |-> x,
                radius |-> b.radius, alive |-> b.alive]

\* rk4_step: the living move and are accelerated, the dead are stopped.
Moved(pos, mom) ==
  [k \in 1 .. N |-> IF bodies[k].alive THEN At(bodies[k], pos[k], mom[k])
                                       ELSE At(bodies[k], bodies[k].pos, 0)]

Rk4Step ==
  /\ phase = "integrate"
  /\ \E pos \in [1 .. N -> Pos], mom \in [1 .. N -> Mom] :
       bodies' = Moved(pos, mom)
  /\ before' = bodies'
  /\ phase' = "row"
  /\ i' = 1
  /\ ghostMerge' = FALSE
  /\ UNCHANGED j

-----------------------------------------------------------------------------
(* resolve_collisions *)

FirstColumn(r) == r + 1

EnterRow ==
  /\ phase = "row"
  /\ i <= N
  /\ bodies[i].alive
  /\ j' = FirstColumn(i)
  /\ phase' = "pair"
  /\ UNCHANGED <<bodies, i, before, ghostMerge>>

SkipDeadRow ==
  /\ phase = "row"
  /\ i <= N
  /\ ~bodies[i].alive
  /\ i' = i + 1
  /\ UNCHANGED <<bodies, phase, j, before, ghostMerge>>

\* Squared distance against squared sum of radii.
Overlap(a, b) ==
  (a.pos - b.pos) * (a.pos - b.pos)
    <= (a.radius + b.radius) * (a.radius + b.radius)

\* Mutant of Collides: a dead column is not skipped.
CollidesWithDead(r, c) == Overlap(bodies[r], bodies[c])

\* Mutant of Collides: bodies that exactly touch do not collide.
CollidesStrictly(r, c) ==
  /\ bodies[c].alive
  /\ (bodies[r].pos - bodies[c].pos) * (bodies[r].pos - bodies[c].pos)
       < (bodies[r].radius + bodies[c].radius)
           * (bodies[r].radius + bodies[c].radius)

\* Column c is alive and touches row r; row r is not tested for life here.
Collides(r, c) == bodies[c].alive /\ Overlap(bodies[r], bodies[c])

\* Mutant of Merged: the absorber keeps its own momentum.
MergedKeepsMomentum(a, b) ==
  [mass |-> a.mass + b.mass, mom |-> a.mom, pos |-> a.pos,
   radius |-> RadiusFromMass(a.mass + b.mass), alive |-> a.alive]

\* The absorber after absorbing b; it stays where it is.
Merged(a, b) ==
  [mass |-> a.mass + b.mass, mom |-> a.mom + b.mom, pos |-> a.pos,
   radius |-> RadiusFromMass(a.mass + b.mass), alive |-> a.alive]

\* Body a absorbs body b, which is marked dead and keeps its mass.
Absorb(a, b) ==
  bodies' = [k \in 1 .. N |->
               IF k = a THEN Merged(bodies[a], bodies[b])
               ELSE IF k = b THEN [bodies[b] EXCEPT !.alive = FALSE]
               ELSE bodies[k]]

\* The heavier absorbs; the row's body wins a tie.
Merge ==
  /\ phase = "pair"
  /\ j <= N
  /\ Collides(i, j)
  /\ IF bodies[j].mass > bodies[i].mass THEN Absorb(j, i) ELSE Absorb(i, j)
  /\ ghostMerge' = (ghostMerge \/ ~bodies[i].alive)
  /\ j' = j + 1
  /\ UNCHANGED <<phase, i, before>>

NoCollision ==
  /\ phase = "pair"
  /\ j <= N
  /\ ~Collides(i, j)
  /\ j' = j + 1
  /\ UNCHANGED <<bodies, phase, i, before, ghostMerge>>

EndRow ==
  /\ phase = "pair"
  /\ j > N
  /\ i' = i + 1
  /\ phase' = "row"
  /\ UNCHANGED <<bodies, j, before, ghostMerge>>

EndPass ==
  /\ phase = "row"
  /\ i > N
  /\ phase' = "integrate"
  /\ UNCHANGED <<bodies, i, j, before, ghostMerge>>

Next ==
  \/ Rk4Step
  \/ EnterRow
  \/ SkipDeadRow
  \/ Merge
  \/ NoCollision
  \/ EndRow
  \/ EndPass

Spec == Init /\ [][Next]_vars

-----------------------------------------------------------------------------
(* Properties *)

\* A scene with a living body never loses its last one to collisions, although
\* ghosts absorb living bodies and their mass is lost with them.
SomeoneSurvives == Alive(before) # {} => Alive(bodies) # {}

TotalMass(bs) == MapThenSumSet(LAMBDA k : bs[k].mass, Alive(bs))

TotalMomentum(bs) == MapThenSumSet(LAMBDA k : bs[k].mom, Alive(bs))

\* Mass and momentum of the living are conserved by every prefix of a pass in
\* which no body absorbed in the middle of its row collided again: ghosts are
\* the only way the pass creates or destroys either.
ConservedWithoutGhosts ==
  (phase # "integrate" /\ ~ghostMerge) =>
    /\ TotalMass(bodies) = TotalMass(before)
    /\ TotalMomentum(bodies) = TotalMomentum(before)

\* When a pass ends, two living bodies overlap only if one of them grew during
\* the pass: no pair in contact is missed.
OverlapsAreNew ==
  (phase = "row" /\ i = N + 1) =>
    \A k, l \in Alive(bodies) :
      (k # l /\ Overlap(bodies[k], bodies[l])) =>
         bodies[k] # before[k] \/ bodies[l] # before[l]
=============================================================================
