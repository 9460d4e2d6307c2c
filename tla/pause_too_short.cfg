SPECIFICATION LiveSpec
CHECK_DEADLOCK FALSE
CONSTANTS
  Daemons = {d1}
  Clients = {c1}
  MaxContexts = 1
  AutoExits = {TRUE}
  SocketActivations = {FALSE}
  Faults = {}
  MaxSignals = 1
PROPERTIES
  PauseIsEnough
