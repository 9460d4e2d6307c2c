SPECIFICATION Spec
CONSTANTS
  NoHandle = NoHandle
  NoClient = NoClient
  Clients = {c1}
  Handles = {h1, h2}
  Commands = {"CONNECT", "RECONNECT", "DISCONNECT", "BEGIN_TRANSACTION", "END_TRANSACTION", "TRANSMIT", "RELEASE_CONTEXT", "CONTROL", "ATTRIB"}
  ConnectModes = {"SHARED", "DIRECT"}
  ReconnectModes = {"SHARED", "EXCLUSIVE"}
  Dispositions = {"UNPOWER", "EJECT"}
  Preferences = {{"T0", "T1"}, {"RAW"}}
  CardProtocols = {"T0", "T1"}
  DefaultProtocol = "T0"
  Faults = {"power", "status", "pts", "memory"}
  maxReaderHandles = 1
  contextMaxCardHandles = 2
  MaxLockCount = 1
  CardsAtStart = 0
  MaxCards = 1
  MaxRemovals = 1
SYMMETRY Symmetry
INVARIANTS
  TypeOK
  NoOrphanHandle
  NoPhantomConnection
