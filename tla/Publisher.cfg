SPECIFICATION PublisherSpec
CONSTANTS
  Versions <- OneVersion
  Retries = 1
  FailLimit = 2
  QueueMax = 2
  MaxTimers = 1
  MaxChanges = 1
  MaxFaults = 1
  MaxDelayed = 1
  MaxProcs = 2
  Unlisted = Unlisted
  v1 = v1
  v2 = v2
INVARIANTS
  CleanStopUnlists
PROPERTIES
  ListedConverges
CHECK_DEADLOCK FALSE
