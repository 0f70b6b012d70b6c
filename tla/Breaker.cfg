SPECIFICATION BoundedSpec
CONSTANTS
  Versions <- OneVersion
  Savers <- OneSaver
  FailureThreshold = 2
  UnhealthyThreshold = 2
  TimeoutThreshold = 2
  MaxAttempts = 2
  HalfOpenSuccesses = 2
  None = None
  MaxCount = 3
  v1 = v1
  v2 = v2
  t1 = t1
  t2 = t2
INVARIANTS RemovedIsForgotten
PROPERTIES PermanentlyDisabled FailuresTrip
