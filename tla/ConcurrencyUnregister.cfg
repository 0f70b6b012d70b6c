SPECIFICATION Spec
CONSTANTS
  Models <- TwoModels
  Versions <- TwoVersions
  Slots <- TwoSlots
  Callers <- TwoCallers
  GlobalLimit = 2
  DefaultLimit = 1
  Limits = {2}
  None = None
  m1 = m1
  m2 = m2
  v1 = v1
  v2 = v2
  s1 = s1
  s2 = s2
  s3 = s3
  c1 = c1
  c2 = c2
SYMMETRY Symmetry
CHECK_DEADLOCK FALSE
INVARIANTS TypeOK SlotsAccounted NoCapacityLeak
