SPECIFICATION FairSpec
CONSTANTS
  Sessions <- OneSession
  Devices <- OneDevice
  DeviceOf <- SameDevice
  TaskIds <- ThreeTasks
  Zones <- OneZone
  MaxErrors = 2
  MaxRows = 2
  None = None
  s1 = s1
  s2 = s2
  d1 = d1
  z1 = z1
  k1 = k1
  k2 = k2
  k3 = k3
INVARIANTS TasksMatchEntries NothingOutlivesTask
PROPERTIES LiveIsServed StopDrains RecordedOncePerStay
CHECK_DEADLOCK FALSE
