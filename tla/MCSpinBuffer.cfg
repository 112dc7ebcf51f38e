CONSTANTS
  MaxSize = 5
  Items = 9
  CreateMayFail = TRUE
SPECIFICATION FairSpec
INVARIANTS
  TypeOK
  AccessesAreSafe
PROPERTIES
  ImplementsBoundedBuffer
  LoopsEnd
CHECK_DEADLOCK FALSE
