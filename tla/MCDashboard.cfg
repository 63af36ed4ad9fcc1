CONSTANTS
  SavedScenes <- TwoScenes
  MaxPlaced = 2
  MaxId = 1002
  MaxFrames = 1
  QueueCap = 2
  MaxClicks = 3
  MaxFailures = 1
CHECK_DEADLOCK FALSE
SPECIFICATION Spec
INVARIANTS
  IdsUnique
  PlaysWhatIsPlaced
  HistoryBtnHonoured
  
