CONSTANTS
  Session = {s1}
  NoSession = NoSession
  NoFrame = NoFrame
  MaxSize = 2
  SendCap = 1
  BroadcastCap = 1
  WireCap = 1
  CallsMayTimeOut = FALSE
  Commands = {"UPLOAD", "PLAY"}
  MaxCommands = 4
  MaxTicks = 1
  MaxSent = 2
CHECK_DEADLOCK FALSE
SPECIFICATION Spec
INVARIANTS
  CleanTimeline
