------------------------------ MODULE QuadTree ------------------------------
(***************************************************************************)
(* The Barnes-Hut quadtree of the engine (engine/include/quadtree.hpp) and *)
(* how a step of the integrator uses it (simulation_instance.hpp           *)
(* build_quadtree, compute_derivatives): the living bodies are inserted    *)
(* one after the other, then the force on any of them is summed up in a    *)
(* traversal.                                                              *)
(*                                                                         *)
(* A node is named by its path of quadrants from the root.  Every          *)
(* recursive call is a step, so the call stack is a variable.  Masses and  *)
(* positions are integers, multiples of a common unit, and a node's centre *)
(* of mass is kept as its moments, mass times position.                    *)
(***************************************************************************)
EXTENDS Integers, Sequences, FiniteSetsExt

CONSTANTS
  NumBodies, \* number of bodies
  BodyMass,  \* the mass of each body
  Coord,     \* the coordinates a body may have
  MinWidth,  \* least width of the root, 1000.0 in the code
  Softening, \* added to every squared distance, 1e-4 in the code
  MaxDepth   \* bound on the depth of the recursion: a stack that ends

ASSUME QuadTreeAssumption ==
  /\ NumBodies \in Nat
  /\ BodyMass \in [1 .. NumBodies -> Nat \ {0}]
  /\ Coord \subseteq Int
  /\ MinWidth \in Nat \ {0}
  /\ Softening \in Nat
  /\ MaxDepth \in Nat

Pow2[d \in 0 .. MaxDepth] == IF d = 0 THEN 1 ELSE 2 * Pow2[d - 1]

\* The distance between the lines of the grid the bodies are on.
Unit == Pow2[MaxDepth]

\* A square can be halved as often as the stack allows, and halving it as often
\* leaves at most one line of the grid in it.
ASSUME GridAssumption ==
  /\ \A x \in Coord : x % Unit = 0
  /\ MinWidth % (2 * Unit) = 0
  /\ MinWidth <= Unit * Unit
  /\ \A x, y \in Coord : 2 * (x - y) <= Unit * Unit

VARIABLES
  m_bodies, \* the bodies of the scene
  nodes,    \* the tree: its nodes by their paths
  next,     \* the next body to insert
  calls,    \* pending calls of insert, innermost first
  crashed,  \* the recursion has not ended
  target,   \* the body whose force is summed up, 0 when there is none
  visits,   \* nodes calculateForce has still to visit
  counted   \* the mass that has attracted the target so far

tree == <<nodes, next, calls, crashed>>
force == <<target, visits, counted>>
treeVars == <<m_bodies, tree, force>>

Quadrant == 0 .. 3

NoBody == 0

Living == {b \in 1 .. NumBodies : m_bodies[b].alive}

Node(x, y, width) ==
  [x |-> x, y |-> y, width |-> width, mass |-> 0, mx |-> 0, my |-> 0,
   body |-> NoBody, internal |-> FALSE]

\* build_quadtree: twice the span of the living bodies, around their middle.
Root(bs) ==
  LET alive == {b \in 1 .. NumBodies : bs[b].alive}
      xs == {bs[b].x : b \in alive}
      ys == {bs[b].y : b \in alive}
      span == Max({Max(xs) - Min(xs), Max(ys) - Min(ys)})
  IN  IF alive = {} THEN Node(0, 0, MinWidth)
      ELSE Node((Min(xs) + Max(xs)) \div 2, (Min(ys) + Max(ys)) \div 2,
                Max({2 * span, MinWidth}))

TreeInit ==
  /\ m_bodies \in [1 .. NumBodies -> [x : Coord, y : Coord, alive : BOOLEAN]]
  /\ nodes = [p \in {<< >>} |-> Root(m_bodies)]
  /\ next = 1
  /\ calls = << >>
  /\ crashed = FALSE
  /\ target = NoBody
  /\ visits = << >>
  /\ counted = 0

-----------------------------------------------------------------------------
(* insert *)

\* getQuadrant: 0 NW, 1 NE, 2 SW, 3 SE; north is where y is less.
QuadrantOf(n, b) ==
  (IF m_bodies[b].x < n.x THEN 0 ELSE 1) + (IF m_bodies[b].y < n.y THEN 0 ELSE 2)

\* Mutant of Child: the quadrants keep the centre of their parent.
ChildCentred(n, q) == Node(n.x, n.y, n.width \div 2)

\* subdivide
Child(n, q) ==
  LET quarter == n.width \div 4 IN
  Node(IF q \in {0, 2} THEN n.x - quarter ELSE n.x + quarter,
       IF q \in {0, 1} THEN n.y - quarter ELSE n.y + quarter, n.width \div 2)

\* Mutant of Weighed: only the mass is kept up to date.
WeighedMassOnly(n, b) == [n EXCEPT !.mass = @ + BodyMass[b]]

\* The weighted average, before anything else.
Weighed(n, b) ==
  [n EXCEPT !.mass = @ + BodyMass[b], !.mx = @ + BodyMass[b] * m_bodies[b].x,
            !.my = @ + BodyMass[b] * m_bodies[b].y]

Insert(b, path) == [body |-> b, path |-> path]

StartInsert ==
  /\ ~crashed /\ calls = << >> /\ next <= NumBodies
  /\ calls' = IF m_bodies[next].alive THEN <<Insert(next, << >>)>> ELSE << >>
  /\ next' = next + 1
  /\ UNCHANGED <<m_bodies, nodes, crashed, force>>

\* An empty leaf takes the body.
StoreBody ==
  /\ calls # << >>
  /\ LET b == Head(calls).body
         p == Head(calls).path
     IN  /\ ~nodes[p].internal /\ nodes[p].body = NoBody
         /\ nodes' = [nodes EXCEPT ![p] = [Weighed(@, b) EXCEPT !.body = b]]
  /\ calls' = Tail(calls)
  /\ UNCHANGED <<m_bodies, next, crashed, force>>

\* Mutant of AfterSplit: the body that was there is forgotten.
AfterSplitForgets(n, p, b) == <<Insert(b, Append(p, QuadrantOf(n, b)))>>

\* The body that was there is inserted again, then the new one.
AfterSplit(n, p, b) ==
  <<Insert(n.body, Append(p, QuadrantOf(n, n.body))),
    Insert(b, Append(p, QuadrantOf(n, b)))>>

\* A leaf that holds a body becomes an internal node.
SplitLeaf ==
  /\ calls # << >>
  /\ LET b == Head(calls).body
         p == Head(calls).path
         n == nodes[p]
         below == {Append(p, q) : q \in Quadrant}
     IN  /\ ~n.internal /\ n.body # NoBody
         /\ IF Len(p) = MaxDepth
              THEN crashed' = TRUE /\ calls' = << >> /\ UNCHANGED nodes
              ELSE /\ nodes' = [r \in DOMAIN nodes \cup below |->
                        IF r = p THEN [Weighed(n, b) EXCEPT !.body = NoBody,
                                                            !.internal = TRUE]
                        ELSE IF r \in below THEN Child(n, r[Len(r)]) ELSE nodes[r]]
                   /\ calls' = AfterSplit(n, p, b) \o Tail(calls)
                   /\ UNCHANGED crashed
  /\ UNCHANGED <<m_bodies, next, force>>

Descend ==
  /\ calls # << >>
  /\ LET b == Head(calls).body
         p == Head(calls).path
     IN  /\ nodes[p].internal
         /\ nodes' = [nodes EXCEPT ![p] = Weighed(@, b)]
         /\ calls' = <<Insert(b, Append(p, QuadrantOf(nodes[p], b)))>> \o Tail(calls)
  /\ UNCHANGED <<m_bodies, next, crashed, force>>

-----------------------------------------------------------------------------
(* calculateForce *)

Built == next > NumBodies /\ calls = << >> /\ ~crashed

StartForce ==
  /\ Built /\ target = NoBody
  /\ target' \in Living
  /\ visits' = << << >> >>
  /\ counted' = 0
  /\ UNCHANGED <<m_bodies, tree>>

\* The node is empty, or it is the leaf of the target itself.
SkipNode ==
  /\ visits # << >>
  /\ LET n == nodes[Head(visits)] IN n.mass = 0 \/ n.body = target
  /\ visits' = Tail(visits)
  /\ UNCHANGED <<m_bodies, tree, target, counted>>

AttractedByLeaf ==
  /\ visits # << >>
  /\ LET n == nodes[Head(visits)] IN
     /\ ~n.internal /\ n.body \notin {NoBody, target}
     /\ counted' = counted + BodyMass[n.body]
  /\ visits' = Tail(visits)
  /\ UNCHANGED <<m_bodies, tree, target>>

\* Squared distance of the target to the centre of mass, times mass * mass.
Distance2(n) ==
  LET dx == n.mx - n.mass * m_bodies[target].x
      dy == n.my - n.mass * m_bodies[target].y
  IN  dx * dx + dy * dy + Softening * n.mass * n.mass

\* Mutant of Far: theta 4.0.
FarWide(n) == n.width * n.width * n.mass * n.mass < 16 * Distance2(n)

\* width / distance < theta, 0.5.
Far(n) == 4 * n.width * n.width * n.mass * n.mass < Distance2(n)

\* The whole node acts as one point mass.
AttractedByNode ==
  /\ visits # << >>
  /\ LET n == nodes[Head(visits)] IN
     /\ n.internal /\ n.mass # 0 /\ Far(n)
     /\ counted' = counted + n.mass
  /\ visits' = Tail(visits)
  /\ UNCHANGED <<m_bodies, tree, target>>

OpenNode ==
  /\ visits # << >>
  /\ LET p == Head(visits) IN
     /\ nodes[p].internal /\ nodes[p].mass # 0 /\ ~Far(nodes[p])
     /\ visits' = [q \in 1 .. 4 |-> Append(p, q - 1)] \o Tail(visits)
  /\ UNCHANGED <<m_bodies, tree, target, counted>>

EndForce ==
  /\ target # NoBody /\ visits = << >>
  /\ target' = NoBody
  /\ counted' = 0
  /\ UNCHANGED <<m_bodies, tree, visits>>

TreeNext ==
  \/ StartInsert
  \/ StoreBody
  \/ SplitLeaf
  \/ Descend
  \/ StartForce
  \/ SkipNode
  \/ AttractedByLeaf
  \/ AttractedByNode
  \/ OpenNode
  \/ EndForce

TreeSpec == TreeInit /\ [][TreeNext]_treeVars

-----------------------------------------------------------------------------
(* Properties *)

Inserted == {b \in Living : b < next}

\* The mass of a set of bodies and its moments.
MassOf(s) == MapThenSumSet(LAMBDA b : BodyMass[b], s)

MomentX(bs, s) == MapThenSumSet(LAMBDA b : BodyMass[b] * bs[b].x, s)

MomentY(bs, s) == MapThenSumSet(LAMBDA b : BodyMass[b] * bs[b].y, s)

\* Within the half-open square of the node.
Inside(n, b) ==
  /\ 2 * (m_bodies[b].x - n.x) >= -n.width /\ 2 * (m_bodies[b].x - n.x) < n.width
  /\ 2 * (m_bodies[b].y - n.y) >= -n.width /\ 2 * (m_bodies[b].y - n.y) < n.width

\* Between two insertions every node weighs exactly the inserted bodies in its
\* square, at their common centre (quadtree.hpp:75-84, 97-105).
NodesWeighTheirSquare ==
  calls = << >> /\ ~crashed =>
    \A p \in DOMAIN nodes :
      LET n == nodes[p]
          here == {b \in Inserted : Inside(n, b)}
      IN  /\ n.mass = MassOf(here)
          /\ n.mx = MomentX(m_bodies, here)
          /\ n.my = MomentY(m_bodies, here)

\* Between two insertions every inserted body is in one leaf, which is in its
\* place (quadtree.hpp:44-52, 87-105).
OneLeafEach ==
  calls = << >> /\ ~crashed =>
    \A b \in Inserted :
      \E p \in DOMAIN nodes :
        /\ Inside(nodes[p], b)
        /\ {r \in DOMAIN nodes : nodes[r].body = b} = {p}

\* The recursion of insert ends unless two living bodies are in the same place
\* (quadtree.hpp:93-105).
EndlessOnlyIfCoincident ==
  crashed =>
    \E b, c \in Living :
      b # c /\ m_bodies[b].x = m_bodies[c].x /\ m_bodies[b].y = m_bodies[c].y

\* The internal nodes around the target that are narrow enough for the softening
\* to make them seem far from a body in their own square.
SoftenedNodes ==
  {p \in DOMAIN nodes : /\ nodes[p].internal /\ Inside(nodes[p], target)
                        /\ 2 * nodes[p].width * nodes[p].width < Softening}

\* A body is attracted by every other living body exactly once, whichever nodes
\* stand for several bodies, and never by itself as long as every internal node
\* around it is wider than the softening hides (quadtree.hpp:109-148): in a
\* narrower one its own mass may be counted too, and no more than once.
AttractedOnceByOthers ==
  target # NoBody /\ visits = << >> =>
    \/ counted = MassOf(Living \ {target})
    \/ SoftenedNodes # {} /\ counted = MassOf(Living)
=============================================================================
