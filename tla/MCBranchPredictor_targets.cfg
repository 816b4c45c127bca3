CONSTANTS
  PC = {4, 8}
  Target = {100}
  BTBSize = 2
  HistSize = 1
  TagSize = 1
  InitialState = {1, 2}
  MaxLines = 2
SPECIFICATION HSpec
INVARIANTS
  PredictsTargets
CHECK_DEADLOCK FALSE
