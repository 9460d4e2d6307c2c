SPECIFICATION Spec
CHECK_DEADLOCK FALSE
CONSTANTS
  Clients = {c1}
  Hotplugs = {"notify", "signal"}
  Libraries = {"driver", "class"}
  MaxReaders = 2
  MaxCounters = 2
  Drivers <- TwoSlots
  Places = {p1}
  Backends = {"libudev"}
  HasClassDriver = FALSE
  MaxPlugs = 1
  MaxSignals = 0
INVARIANT
  DriversAreUnloaded
