CONSTANTS
  Size = 6
  PageOf <- MCPageOf
SPECIFICATION Spec
INVARIANTS
  Accounting
  NothingLost
  CallsBounded
PROPERTY Terminates
CHECK_DEADLOCK FALSE
