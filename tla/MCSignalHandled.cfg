CONSTANTS
  MayFail = {}
  Punctual = TRUE
  Hoisted = FALSE
SPECIFICATION FairSpec
INVARIANT SignalIsHandled
CHECK_DEADLOCK FALSE
