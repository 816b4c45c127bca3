CONSTANTS
  r1 = r1
  r2 = r2
  r3 = r3
  Reg = {r1, r2}
  Opcode = {"add", "mul"}
  Latencies <- OneAndThree
  ExitStart = 2
  MaxInsts = 4
SPECIFICATION Spec
SYMMETRY RegSymmetry
INVARIANTS
  TypeOK
  AnswersLastWriters
  DepthIsCriticalPath
  ProgDepthIsLongestPath
  ExitDepsAreLeaves
  FreesEveryNodeOnce
CHECK_DEADLOCK FALSE
