CONSTANTS
  COUNT_HALT1 = 3
  COUNT_HALT2 = 6
  COUNT_DONE = 10
  CreateMayFail = TRUE
  Spurious = TRUE
SPECIFICATION FairSpec
INVARIANTS
  TypeOK
  OvershootByOne
  HaltsButOnce
  NoLostWakeup
  AllPrintedOnce
PROPERTY Terminates
CHECK_DEADLOCK FALSE
