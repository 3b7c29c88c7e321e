SPECIFICATION Spec
CONSTANTS
  r1 = r1
  p1 = p1
  None = None
  Redactions = {r1}
  Purges = {p1}
  MaxPk = 3
  Now = 3
  MaxBatchSize = 2
  Cutoffs <- EveryCutoff
  Sizes <- BoundarySizes
  MaxWrites = 1
INVARIANTS
  TypeOK
  NothingMissed
  ReportsAreExact
  BoundedBatches
PROPERTIES
  OnlyEligibleRows
CHECK_DEADLOCK FALSE
