CONSTANTS
  Session = {"s1"}
  Speed = {1, 2}
  Default = 1
  UpdatesCap = 2
  MaxChanges = 2
CHECK_DEADLOCK FALSE
SPECIFICATION FairSpec
PROPERTIES
  SpeedReachesEngine
