CONSTANTS
  SignedChar = FALSE
  NoClass = NoClass
  Images <- MCImages
SPECIFICATION Spec
INVARIANTS
  WellNested
  MirrorsImage
  
  
CHECK_DEADLOCK FALSE
