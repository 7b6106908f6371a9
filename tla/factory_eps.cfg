SPECIFICATION MCEpHostSpec
CONSTANTS
  t1 = t1
  t2 = t2
  e1 = e1
  e2 = e2
  n1 = n1
  n2 = n2
  Threads = {t1}
  Drivers <- MCUsedDrivers
  MaxDevices = 4
  EpSlots = {e1, e2}
  InfoSlots = {n1}
  HostPolicy = "free"
  HwCreateMayFail = TRUE
INVARIANT DistinctDevicesStayApart
PROPERTY CallsReturn
