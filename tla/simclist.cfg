SPECIFICATION Spec
CONSTANTS
  Values = {1, 2}
  CopyModes = {TRUE, FALSE}
  MaxSpares = 2
  MaxElements = 4
  MemoryFails = TRUE
INVARIANTS
  list_repOk
  NothingLost
PROPERTIES
  ImplementsListSpec
