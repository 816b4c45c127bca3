CONSTANTS
  NRegs = 2
  NWords = 2
  HalfWord = 16
  NThreads = 3
  BodyLength = 2
  LoadLats = {0, 1, 4}
  StoreLats = {2}
  SwitchCycs = {0, 3}
  Bodies <- NopOrLoad
  Leftover <- Nothing
  Images <- MCImages
SPECIFICATION HFairSpec
INVARIANTS
  IssueSafe IdleMeansNoneFree BoundedOvertaking LeavesOnlyWaiting
PROPERTIES
  Termination
