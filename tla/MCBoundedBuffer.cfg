CONSTANTS
  MaxSize = 5
  Items = 9
SPECIFICATION BBSafety
INVARIANT ExactlyOnce
CHECK_DEADLOCK FALSE
