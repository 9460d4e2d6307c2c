SPECIFICATION LiveSpec
CHECK_DEADLOCK FALSE
CONSTANTS
  Daemons = {d1}
  Clients = {c1, c2}
  MaxContexts = 2
  AutoExits = {TRUE}
  SocketActivations = {FALSE}
  Faults = {}
  MaxSignals = 0
PROPERTIES
  QuitsWhenInactive
