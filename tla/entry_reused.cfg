SPECIFICATION Spec
CHECK_DEADLOCK FALSE
CONSTANTS
  Clients = {c1}
  Hotplugs = {"notify", "signal"}
  Libraries = {"driver", "class"}
  MaxReaders = 2
  MaxCounters = 2
  Drivers <- OneDriver
  Places = {p1, p2}
  Backends = {"libudev"}
  HasClassDriver = FALSE
  MaxPlugs = 2
  MaxSignals = 0
INVARIANT
  EntryIsEmpty
