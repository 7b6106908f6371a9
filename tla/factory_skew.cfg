SPECIFICATION Spec
CONSTANTS
  t1 = t1
  t2 = t2
  e1 = e1
  e2 = e2
  n1 = n1
  n2 = n2
  Threads = {t1}
  Drivers <- MCDrivers
  MaxDevices = 3
  EpSlots = {e1}
  InfoSlots = {n1}
  HostPolicy = "warm"
  HwCreateMayFail = TRUE
INVARIANT EpRunsOnRequestedDevice
