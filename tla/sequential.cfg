SPECIFICATION Spec
CONSTANTS
  NoHandle = NoHandle
  NoClient = NoClient
  Clients = {c1}
  Handles = {h1, h2}
  Commands = {"CONNECT", "DISCONNECT", "RECONNECT", "BEGIN_TRANSACTION", "END_TRANSACTION"}
  ConnectModes = {"SHARED", "EXCLUSIVE"}
  ReconnectModes = {"EXCLUSIVE"}
  Dispositions = {"LEAVE", "RESET", "UNPOWER"}
  Preferences = {{"T1"}, {"RAW"}}
  CardProtocols = {"T1"}
  DefaultProtocol = "T1"
  Faults = {}
  maxReaderHandles = 2
  contextMaxCardHandles = 2
  MaxLockCount = 3
  CardsAtStart = 1
  MaxCards = 1
  MaxRemovals = 0
SYMMETRY Symmetry
INVARIANTS
  ExclusiveAccess
  LockCountIsDepth
PROPERTIES
  UsedCardStaysPowered
  ConnectedCardIsPowered
