CONSTANTS
  N = 3
  Mass = {1, 2, 3}
  Pos = {0, 2, 5}
  Mom = {1}
SPECIFICATION Spec
INVARIANTS
  SomeoneSurvives
  ConservedWithoutGhosts
  OverlapsAreNew
