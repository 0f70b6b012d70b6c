SPECIFICATION Spec
CONSTANTS
  Versions <- OneVersion
  Savers = {}
  Threads <- TwoThreads
  FailureThreshold = 2
  UnhealthyThreshold = 2
  TimeoutThreshold = 2
  MaxAttempts = 2
  HalfOpenSuccesses = 2
  None = None
  v1 = v1
  t1 = t1
  t2 = t2
  t3 = t3
INVARIANTS AttemptsBounded OpenIsNotReloaded
PROPERTIES RecoveryIsAllowed
