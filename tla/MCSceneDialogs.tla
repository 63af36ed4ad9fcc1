--------------------------- MODULE MCSceneDialogs ---------------------------
(* An instance of SceneDialogs for TLC.  Tabs, users and scenes are        *)
(* interchangeable: no definition names one.                               *)
EXTENDS SceneDialogs, TLC

Interchangeable ==
  Permutations(Tab) \cup Permutations(User) \cup Permutations(Scene)
=============================================================================
