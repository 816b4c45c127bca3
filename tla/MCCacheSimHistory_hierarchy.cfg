CONSTANTS
  Block = {0, 1, 2, 4}
  Geometry1 <- OneSetTwoWays
  Geometry2 <- TwoSetsTwoWays
  L1Cyc = 1
  L2Cyc = 2
  MemCyc = 4
  MaxLines = 40
SPECIFICATION HSpec
VIEW TablesAndUses
INVARIANTS
  TypeOK CachesWellPlaced Inclusion Accounting
PROPERTIES
  LosesNoWrite L1DropsLeastRecent L2DropsLeastRecent
CHECK_DEADLOCK FALSE
