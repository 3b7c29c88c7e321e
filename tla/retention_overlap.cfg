SPECIFICATION FairSpec
CONSTANTS
  r1 = r1
  r2 = r2
  p1 = p1
  None = None
  Redactions = {r1, r2}
  Purges = {p1}
  MaxPk = 2
  Now = 2
  MaxBatchSize = 1
  Cutoffs <- OldRows
  Sizes <- SingleRows
  MaxWrites = 1
INVARIANTS
  ReportsAreExact
PROPERTIES
  EveryRunEnds
CHECK_DEADLOCK FALSE
