SPECIFICATION Spec
CONSTANTS
  d1 = d1
  d2 = d2
  None = None
  Conns <- Aliases
  ManualConns <- OneManual
  MaxBatches = 2
  MaxBlocks = 2
  MaxDepth = 4
PROPERTIES
  KeepsPromise
CHECK_DEADLOCK FALSE
