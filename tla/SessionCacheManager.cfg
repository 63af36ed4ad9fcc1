CONSTANTS
  Frame = {f1, f2}
  NoFrame = NoFrame
  MaxSize = 3
  Session = {s1, s2}
  MaxTotalFrames = 7

SPECIFICATION Spec
INVARIANTS
  CachesConsistent
PROPERTY ImplementsFrameHistory
