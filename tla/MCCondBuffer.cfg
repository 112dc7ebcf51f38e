CONSTANTS
  MaxSize = 5
  Items = 9
  CreateMayFail = TRUE
  Spurious = TRUE
SPECIFICATION FairSpec
INVARIANTS
  TypeOK
  AccessesAreSafe
  WaitersAreBlocked
PROPERTIES
  ImplementsBoundedBuffer
  EverythingConsumed
CHECK_DEADLOCK FALSE
