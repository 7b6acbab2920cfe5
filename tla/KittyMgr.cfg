SPECIFICATION Spec
CONSTANTS
  Cells <- MCCells
  Patch = {"p", "q"}
  Backup = {"backup"}
  Covers <- MCCovers
  MaxWrites = 2
  MaxLost = 1
  Pids = {0, 1, 2}
  PathOf <- MCPathOf
  Elf <- MCElf
  Limit = 1
  MaxInits = 2
INVARIANTS
  LayersHold
  Usable
  DumpIsOneFile
CHECK_DEADLOCK FALSE
