SPECIFICATION FairSteadySpec
CONSTANTS
  Models <- OneModel
  Versions <- TwoVersions
  Slots <- ThreeSlots
  Callers <- TwoCallers
  GlobalLimit = 2
  DefaultLimit = 2
  Limits = {1}
  None = None
  m1 = m1
  m2 = m2
  v1 = v1
  v2 = v2
  s1 = s1
  s2 = s2
  s3 = s3
  c1 = c1
  c2 = c2
INVARIANTS GlobalCountExact
PROPERTIES LimitsEnforced ReleaseIdempotent ImplementsAdmission ShutdownDrains
