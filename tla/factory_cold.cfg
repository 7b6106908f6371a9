SPECIFICATION Spec
CONSTANTS
  t1 = t1
  t2 = t2
  e1 = e1
  e2 = e2
  n1 = n1
  n2 = n2
  Threads = {t1, t2}
  Drivers <- MCDrivers
  MaxDevices = 1
  EpSlots = {e1}
  InfoSlots = {n1}
  HostPolicy = "free"
  HwCreateMayFail = FALSE
INVARIANT SessionSharesAllocatorDevice
