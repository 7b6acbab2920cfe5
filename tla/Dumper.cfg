CONSTANT N = 3
SPECIFICATION Spec
INVARIANTS
  EarlyAbortKeepsPreviousDump
  OneVerdict
  ExportedIsComplete
  DumpIsPrefix
PROPERTIES
  DumpOnlyGrows
  Terminates
CHECK_DEADLOCK FALSE
