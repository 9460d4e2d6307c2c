SPECIFICATION LiveSpec
CHECK_DEADLOCK FALSE
CONSTANTS
  Daemons = {d1, d2}
  Clients = {c1, c2, c3}
  MaxContexts = 2
  AutoExits = {TRUE, FALSE}
  SocketActivations = {TRUE, FALSE}
  Faults = {"init", "record", "thread", "driver", "kill", "recycle"}
  MaxSignals = 1
CONSTRAINT Apart
INVARIANTS
  OneDaemon
  FilesLeadToDaemon
  IdleAlarm
PROPERTIES
  InactiveDaemonQuits
  ExitFollows
