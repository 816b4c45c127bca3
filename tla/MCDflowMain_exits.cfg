CONSTANTS
  Reg = {0, 1}
  Opcode <- Opcodes
  Latencies <- NoTables
  ExitStart = 2
  MaxInsts = 3
  MaxOps = 2
  Quota = 2
  Cycle = {2}
  InstLine <- Insts
  MaxLines = 3
  MaxQueries = 1
  Blank = Blank
  Bad = Bad
SPECIFICATION FairMainSpec
INVARIANTS
  AnswersAboutFiles BuffersSuffice
PROPERTIES
  ExitsUnlessLastSlotShared
