CONSTANTS
  SignedChar = FALSE
  NoClass = NoClass
  Images <- MCImages
SPECIFICATION Spec
INVARIANT StandardCSharp
CHECK_DEADLOCK FALSE
