CONSTANTS
  Inst = {"add", "store"}
  NoInst = "none"
  MaxInsts = 2
  MaxWords = 2
  ShortLength = 4
  Files <- AllFiles
  GarbageTids = {1, 5}
SPECIFICATION Spec
INVARIANTS
  TypeOK
  NeverUndefined
  LoadsDescribedImage
