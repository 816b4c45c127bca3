CONSTANTS
  Inst = {"add", "store"}
  NoInst = "none"
  MaxInsts = 2
  MaxWords = 2
  ShortLength = 1
  Files <- PackedFiles
  GarbageTids = {1, 5}
SPECIFICATION Spec
INVARIANTS
  BlocksEndAtNextSegment
