CONSTANTS
  MaxStops = 2
  Watch = {w1, w2}
  Size = 16
  MaxHits = 7
  One = w1
SPECIFICATION MCSpec
INVARIANT SampleIsReal
PROPERTIES
  
  
  QuietCallsMatch
  
  
CHECK_DEADLOCK FALSE
