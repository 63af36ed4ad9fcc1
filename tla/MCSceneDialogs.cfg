CONSTANTS
  Tab = {t1, t2}
  User = {u1, u2}
  Guest = Guest
  Scene = {sa, sb}
  NoScene = NoScene
  Body = {b1}
  MaxBodies = 2
  MaxInputs = 4
CHECK_DEADLOCK FALSE
SYMMETRY Interchangeable
SPECIFICATION Spec
INVARIANTS
  NoOrphanBodies
  SavedWhole
  ConnectedAsShown
PROPERTIES
  OnlyOwnScenesTouched
