----------------------------- MODULE MCQuadTree -----------------------------
(* Three bodies whose masses are powers of two, so that a mass tells which   *)
(* bodies it is made of.                                                    *)
EXTENDS QuadTree

MCBodyMass == [b \in 1 .. 3 |-> 2 ^ (b - 1)]
=============================================================================
