SPECIFICATION FairSpec
CONSTANTS
  Requests <- TwoRequests
  ViolationIds <- OneViolation
  EvidenceIds <- TwoSnapshots
  MaxConfidence = 3
  MaxFaults = 1
  None = None
  r1 = r1
  r2 = r2
  v1 = v1
  v2 = v2
  e1 = e1
  e2 = e2
INVARIANTS EvidenceHasSource
PROPERTIES FinalStays EvidenceSettles
CHECK_DEADLOCK FALSE
