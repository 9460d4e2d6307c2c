SPECIFICATION Spec
CONSTANTS
  NoThread = NoThread
  NoContext = NoContext
  NoHandle = NoHandle
  NULL = NULL
  Threads = {t1, t2}
  Contexts = {x1, x2}
  Handles = {h1}
  Maps = {m1, m2}
  Versions = {"same", "older", "incompatible"}
  MemoryFails = TRUE
  MaxRestarts = 1
  FixedTable = 1
  MaxTable = 2
  sharing_shall_block = TRUE
  Functions = {"ESTABLISH", "LIST_READERS", "IS_VALID"}
INVARIANT
  TableNeverShrinks
