SPECIFICATION FairEventsSpec
CONSTANTS
  VASStreams <- TwoStreams
  Count = 2
  MaxEvents = 3
  MaxVASFaults = 1
  MaxRedisFaults = 1
  Now = Now
  NoId = NoId
  c1 = c1
  c2 = c2
INVARIANTS
  CacheIsReplay
PROPERTIES
  ResumesWhereItWas
  PauseEnds
CHECK_DEADLOCK FALSE
