CONSTANTS
  Client = {c1, c2}
  NoClient = NoClient
  SendCap = 1
  BroadcastCap = 1
  Busy = c1
  BusyRequests = {"PLAY", "PAUSE", "INVALID", "QUERY"}
  OtherRequests = {}
  Requests <- MCRequests
CHECK_DEADLOCK FALSE
SPECIFICATION FairSpec
INVARIANTS
  TypeOK
  NoPanic
  OneMessagePastGate
  FirstMessageHasRoom
PROPERTIES
  StreamNeverStalls
  ClosedTabsLeave
