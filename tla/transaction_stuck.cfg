SPECIFICATION Spec
CONSTANTS
  NoHandle = NoHandle
  NoClient = NoClient
  Clients = {c1}
  Handles = {h1}
  Commands = {"CONNECT", "RECONNECT", "BEGIN_TRANSACTION", "END_TRANSACTION"}
  ConnectModes = {"SHARED"}
  ReconnectModes = {"SHARED"}
  Dispositions = {"LEAVE"}
  Preferences = {{"T1"}}
  CardProtocols = {"T1"}
  DefaultProtocol = "T1"
  Faults = {}
  maxReaderHandles = 2
  contextMaxCardHandles = 1
  MaxLockCount = 2
  CardsAtStart = 1
  MaxCards = 2
  MaxRemovals = 1
SYMMETRY Symmetry
INVARIANTS
  LockCanBeEnded
