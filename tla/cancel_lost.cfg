SPECIFICATION FairSpec
CONSTANTS
  Clients = {c1}
  Slots = 2
  Requests <- ReaderOnly
  Plugged = {1}
  ListFirst = TRUE
  MaxChanges = 2
  MortalAt = {}
  MaxFaults = 1
PROPERTIES
  CancelEndsCall
