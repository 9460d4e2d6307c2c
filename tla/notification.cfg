SPECIFICATION FairSpec
CONSTANTS
  Clients = {c1}
  Slots = 2
  Requests <- ReaderAndPnP
  Plugged = {1}
  ListFirst = TRUE
  MaxChanges = 2
  MortalAt = {"idle", "size", "array", "wait", "stop", "endStop"}
  MaxFaults = 1
INVARIANTS
  TypeOK
  QuietBetweenCalls
  NoLostEvent
  NoStaleWaiter
PROPERTIES
  CallsReturn
