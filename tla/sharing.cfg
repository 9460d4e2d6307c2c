SPECIFICATION Spec
CONSTANTS
  NoHandle = NoHandle
  NoClient = NoClient
  Clients = {c1, c2}
  Handles = {h1, h2}
  Commands = {"CONNECT", "DISCONNECT", "RECONNECT", "BEGIN_TRANSACTION", "END_TRANSACTION", "RELEASE_CONTEXT"}
  ConnectModes = {"SHARED"}
  ReconnectModes = {"SHARED"}
  Dispositions = {"LEAVE"}
  Preferences = {{"T1"}}
  CardProtocols = {"T1"}
  DefaultProtocol = "T1"
  Faults = {}
  maxReaderHandles = 2
  contextMaxCardHandles = 1
  MaxLockCount = 2
  CardsAtStart = 1
  MaxCards = 1
  MaxRemovals = 1
SYMMETRY Symmetry
INVARIANTS
  HandlesAreOwned
  NoPhantomConnection
  LockOwnerHasClient
PROPERTIES
  OrphansAreRefused
