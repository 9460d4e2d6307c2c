SPECIFICATION Spec
CONSTANTS
  Clients = {c1}
  Slots = 2
  Requests <- ReaderAndPnP
  Plugged = {1}
  ListFirst = TRUE
  MaxChanges = 2
  MortalAt = {"events", "firstEvents"}
  MaxFaults = 1
INVARIANTS
  NoStaleWaiter
