CONSTANTS
  NumBodies = 3
  BodyMass <- MCBodyMass
  Coord = {0, 16, 48}
  MinWidth = 64
  Softening = 2000
  MaxDepth = 4
CHECK_DEADLOCK FALSE
SPECIFICATION TreeSpec
INVARIANTS
  NodesWeighTheirSquare
  OneLeafEach
  EndlessOnlyIfCoincident
  AttractedOnceByOthers
