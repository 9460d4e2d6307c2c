SPECIFICATION Spec
CONSTANTS
  NoHandle = NoHandle
  NoClient = NoClient
  Clients = {c1, c2}
  Handles = {h1, h2}
  Commands = {"CONNECT"}
  ConnectModes = {"SHARED", "EXCLUSIVE"}
  ReconnectModes = {"SHARED"}
  Dispositions = {"LEAVE"}
  Preferences = {{"T1"}}
  CardProtocols = {"T1"}
  DefaultProtocol = "T1"
  Faults = {}
  maxReaderHandles = 2
  contextMaxCardHandles = 1
  MaxLockCount = 2
  CardsAtStart = 1
  MaxCards = 1
  MaxRemovals = 0
SYMMETRY Symmetry
INVARIANTS
  ExclusiveAccess
