SPECIFICATION Spec
CONSTANTS
  Pages = {1, 2, 3}
  FileOf <- MCFileOf
  Protections <- MCProtections
  MaxUpsets = 1
  Threads = {"a", "b"}
  Dumper = "dumper"
  MaxCalls = 2
  OtherProt <- MCOtherProt
  Scenes = {"write", "dump", "ask"}
INVARIANTS
  NothingTakenAway
  AloneIsExact
  DumpInPlace
  YesWasTrue
  NoIsTrue
CHECK_DEADLOCK FALSE
