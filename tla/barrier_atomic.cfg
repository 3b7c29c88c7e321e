SPECIFICATION FairSpec
CONSTANTS
  d1 = d1
  d2 = d2
  None = None
  Conns <- Aliases
  ManualConns <- NoManual
  MaxBatches = 2
  MaxBlocks = 3
  MaxDepth = 4
INVARIANTS
  TypeOK
  CommittedBeforeDelivery
  SinkOutsideBlocks
  WholeBatches
  ContiguousDelivery
  NothingForgotten
PROPERTIES
  KeepsPromise
  EveryBatchSettles
CHECK_DEADLOCK FALSE
