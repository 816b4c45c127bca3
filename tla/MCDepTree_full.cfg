CONSTANTS
  r1 = r1
  r2 = r2
  r3 = r3
  Reg = {r1, r2, r3}
  Opcode = {"add"}
  Latencies <- OneCycle
  ExitStart = 2
  MaxInsts = 3
SPECIFICATION FairSpec
PROPERTIES
  AlwaysReturns
CHECK_DEADLOCK FALSE
