SPECIFICATION CarefulSpec
CONSTANTS
  CDEV_FILE = 1
  CDEV_DEVICES_MAX = 3
  CHAN_MAX = 3
  MAX_FILES = 2
  DriverData = 192
  MayFail = {2}
  p1 = p1
  p2 = p2
  Paths <- MCPaths
  Drives <- MCDrives
  Stale = Stale
  Closed = Closed
  None = None
INVARIANTS TypeOK FdOwnership
PROPERTIES ImplementsOpenFiles RefusedOnlyWhenFull
SYMMETRY MCSymmetry
