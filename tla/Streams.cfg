SPECIFICATION FairSpec
CONSTANTS
  Sessions <- TwoSessions
  Devices <- OneDevice
  DeviceOf <- SameDevice
  Requests <- ThreeRequests
  OpsOf <- TwoAndList
  Faults = TRUE
  None = None
  s1 = s1
  s2 = s2
  d1 = d1
  r1 = r1
  r2 = r2
  r3 = r3
PROPERTIES ImplementsSessions CacheConverges
