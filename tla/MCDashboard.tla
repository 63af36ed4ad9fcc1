---------------------------- MODULE MCDashboard ----------------------------
(* Instances of Dashboard for TLC.                                         *)
EXTENDS Dashboard

\* A deleted scene and one whose ids reach beyond the first free id.
TwoScenes == {<< >>, <<1001, 1000>>}
=============================================================================
