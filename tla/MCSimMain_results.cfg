CONSTANTS
  NRegs = 2
  NWords = 2
  HalfWord = 8
  NThreads = 2
  BodyLength = 3
  LoadLats = {2}
  StoreLats = {1}
  SwitchCycs = {1}
  Bodies <- Sharing
  Leftover <- Nothing
  Images <- MCImages
SPECIFICATION HMainSpec
INVARIANTS
  SameResults PrintsOwnRegisters CPIsComparable
PROPERTIES
  Completes
