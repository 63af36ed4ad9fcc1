CONSTANTS
  Session = {s1, s2}
  NoSession = NoSession
  NoFrame = NoFrame
  MaxSize = 2
  SendCap = 1
  BroadcastCap = 1
  WireCap = 1
  CallsMayTimeOut = TRUE
  Commands = {"UPLOAD", "PLAY", "PAUSE", "FETCH", "LOAD"}
  MaxCommands = 3
  MaxTicks = 1
  MaxSent = 3
CHECK_DEADLOCK FALSE
SPECIFICATION Spec
SYMMETRY Symmetry
INVARIANTS
  HistoryInOrder
  SessionIsolation
