----------------------------- MODULE MCTelemetry -----------------------------
(* Instance of Telemetry for TLC.                                          *)
EXTENDS Telemetry, TLC

\* The sessions are interchangeable: sound for the invariants checked here.
Symmetry == Permutations(Session)
=============================================================================
