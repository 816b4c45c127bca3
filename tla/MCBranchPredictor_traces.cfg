CONSTANTS
  PC = {4, 8, 65540, 65548}
  Target = {100, 104}
  BTBSize = 3
  HistSize = 2
  TagSize = 1
  InitialState = {0, 1, 2, 3}
  MaxLines = 8
SPECIFICATION MCSpec
INVARIANTS
  TypeOK
  EntriesAreLastBranches
  HistoriesAreOutcomes
  MachinesAreCounters
  FlushesAreWrongPaths
  LearnsSteadyBranch
CHECK_DEADLOCK FALSE
