CONSTANTS
  NRegs = 2
  NWords = 2
  HalfWord = 8
  NThreads = 2
  BodyLength = 2
  LoadLats = {2, 5}
  StoreLats = {3}
  SwitchCycs = {0, 2}
  Bodies <- Computing
  Leftover <- MoreCode
  Images <- MCImages
SPECIFICATION HSpec
INVARIANTS
  TypeOK FetchInProgram CriticalPath NeverSlowerThanSerial
  PrivateThreadsAreIsolated
PROPERTIES
  ArchSpec
