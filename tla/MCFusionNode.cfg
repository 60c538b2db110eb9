SPECIFICATION FairSpec
CONSTANTS
  NoResult = NoResult
  MaxPresses = 3
INVARIANTS
  AtMostOneBehind
PROPERTIES
  NeverGoesBack
  CatchesUp
CHECK_DEADLOCK FALSE
