------------------------------ MODULE MCEngine ------------------------------
(* Instances of Engine for TLC: a configuration file has no negative number. *)
EXTENDS Engine

\* 2.5x, which makes ticks of two and of MAX_SUBSTEPS steps, and a negative
\* multiplier, in tenths.
ClockSpeed == {25, -5}
=============================================================================
