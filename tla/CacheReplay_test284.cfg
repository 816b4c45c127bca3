CONSTANTS
  Block <- TraceBlocks
  Geometry1 <- TwoSetsTwoWays
  Geometry2 <- TwoSetsEightWays
  L1Cyc = 41
  L2Cyc = 59
  MemCyc = 97
  MaxLines = 41
SPECIFICATION ReplaySpec
INVARIANTS
  PrintsExpectedOutput
CHECK_DEADLOCK FALSE
