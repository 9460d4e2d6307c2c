SPECIFICATION Spec
CHECK_DEADLOCK FALSE
CONSTANTS
  Clients = {c1}
  Hotplugs = {"notify", "signal"}
  Libraries = {"driver", "class"}
  MaxReaders = 4
  MaxCounters = 8
  Drivers <- AllDrivers
  Places = {p1, p2}
  Backends = {"libudev", "libusb"}
  HasClassDriver = TRUE
  MaxPlugs = 2
  MaxSignals = 1
SYMMETRY Symmetry
CONSTRAINT NotRaced
INVARIANTS
  NoUseAfterRemove
  NothingFreedInUse
  NothingLeftBehind
  ChannelsAreDistinct
  NoThreadWithoutReader
  ReadersFollowDevices
PROPERTIES
  ScanMatchesBus
