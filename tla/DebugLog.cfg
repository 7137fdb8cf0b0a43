SPECIFICATION Spec
CONSTANTS
  Threads <- MCThreads
  Setters <- MCSetters
  Paths <- MCPaths
  NULL = NULL
  Empty = Empty
  Nobody = Nobody
  Calls = 3
INVARIANT FilesInOrder
INVARIANT EveryMessageOnce
PROPERTY CallsReturn
CHECK_DEADLOCK FALSE
