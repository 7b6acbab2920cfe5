CONSTANTS
  MaxSize = 4
  Byte = {0, 16}
  Wild = Wild
  Patterns <- MCPatterns
SPECIFICATION Spec
INVARIANTS
  ExactOnBuffer
  GenuineWhereRead
  ParsedAsWritten
CHECK_DEADLOCK FALSE
