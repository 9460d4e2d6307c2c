SPECIFICATION FairSpec
CONSTANTS
  NoHandle = NoHandle
  NoClient = NoClient
  Clients = {c1, c2}
  Handles = {h1, h2, h3}
  Commands = {"CONNECT", "DISCONNECT", "BEGIN_TRANSACTION", "END_TRANSACTION"}
  ConnectModes = {"SHARED"}
  ReconnectModes = {"SHARED"}
  Dispositions = {"LEAVE"}
  Preferences = {{"T1"}}
  CardProtocols = {"T1"}
  DefaultProtocol = "T1"
  Faults = {}
  maxReaderHandles = 3
  contextMaxCardHandles = 1
  MaxLockCount = 3
  CardsAtStart = 1
  MaxCards = 1
  MaxRemovals = 0
INVARIANTS
  LockCountIsDepth
PROPERTIES
  CommandsAreAnswered
  UnusedCardIsPoweredOff
