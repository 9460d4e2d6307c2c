SPECIFICATION Spec
CHECK_DEADLOCK FALSE
CONSTANTS
  Clients = {}
  Hotplugs = {"notify", "signal"}
  Libraries = {"driver", "class"}
  MaxReaders = 2
  MaxCounters = 2
  Drivers <- Unloadable
  Places = {p1}
  Backends = {"libudev"}
  HasClassDriver = FALSE
  MaxPlugs = 1
  MaxSignals = 0
INVARIANT
  CountersAreFreed
