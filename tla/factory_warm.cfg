SPECIFICATION Spec
CONSTANTS
  t1 = t1
  t2 = t2
  e1 = e1
  e2 = e2
  n1 = n1
  n2 = n2
  Threads = {t1, t2}
  Drivers <- MCDrivers
  MaxDevices = 2
  EpSlots = {e1, e2}
  InfoSlots = {n1}
  HostPolicy = "warm"
  HwCreateMayFail = TRUE
SYMMETRY MCSymmetry
INVARIANTS
  TypeOK
  NoDataRace
  OneInstancePerDevice
  RefsExact
  AllocatorsUsable
  UncheckedDeviceIsCached
  AllocatorsAreAdvertised
  NothingLeaks
PROPERTIES
  DevicesBoundOnce
  AllocatorsBoundOnce
  TransferBoundOnce
