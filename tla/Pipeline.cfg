SPECIFICATION Spec
CONSTANTS
  Threads <- TwoThreads
  MaxBoxes = 1
  Stages = 2
  Workers = 1
  DegradedThreshold = 1
  UnhealthyThreshold = 2
  RecoveryThreshold = 4
  Limit = 2
  AllowDegraded = TRUE
  None = None
  t1 = t1
  t2 = t2
INVARIANTS
  StreaksDecideHealth
  ChangesReportedOnce
PROPERTIES
  RequestEnds
  RemovedGoesQuiet
  HealthReturns
CHECK_DEADLOCK FALSE
