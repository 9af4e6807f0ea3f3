SPECIFICATION FairSpec
CONSTANTS
  a = a
  b = b
  x = x
  y = y
  z = z
  Devices = {a, b}
  Arrivals = {1, 2, 3}
  Scenes <- ThreeScenes
  SyncUnwokenLimit = 2
  DeviceLimit = 2
  GlobalLimit = 3
  PageSize = 1
  MaxReturned = 2
  MaxRestarts = 1
  MaxUnregistered = 1
INVARIANTS
  AnnounceHasDevice
  SyncBacklogBounded
PROPERTIES
  EveryDeviceSettles
CHECK_DEADLOCK FALSE
