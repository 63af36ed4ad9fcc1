CONSTANTS
  Unit = 10
  MaxSubsteps = 3
  Session = {s1, s2}
  NoSession = NoSession
  Handler = {h1}
  Speed <- ClockSpeed
  GoMayCrash = TRUE
  MaxRequests = 3
  MaxFrame = 2
SPECIFICATION FairSpec
INVARIANTS
  TypeOK
  ClockAccounted
  NoBacklog
  AtMostOneLateFrame
PROPERTIES
  TicksOnlyWhilePlaying
  StreamInOrder
  PlayingStreams
  RequestsAnswered
