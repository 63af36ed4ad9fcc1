CONSTANTS
  Body = {b1, b2}
  Pointed = {b1}
  SavedScenes = {{b1, b2}}
  NoBody = NoBody
  NoFrame = NoFrame
  TrailMax = 2
  ExplosionSteps = 1
  FadeSteps = 1
  MaxTick = 2
  MaxTimeline = 2
  QueueCap = 1
  MaxClicks = 6
CHECK_DEADLOCK FALSE
SPECIFICATION FairSpec
INVARIANTS
  DeathsExplode
  LiveTrailsEndAtBodies
PROPERTIES
  PinnedCardTracks
  ExplosionsEnd
