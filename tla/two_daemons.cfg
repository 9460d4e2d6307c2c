SPECIFICATION Spec
CHECK_DEADLOCK FALSE
CONSTANTS
  Daemons = {d1, d2}
  Clients = {}
  MaxContexts = 1
  AutoExits = {FALSE}
  SocketActivations = {FALSE}
  Faults = {}
  MaxSignals = 0
INVARIANTS
  AnotherIsFound
