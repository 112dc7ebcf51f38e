CONSTANTS
  MayFail = {"fork", "setpgid_self", "mkfifo", "creat", "read", "write", "close"}
  Punctual = FALSE
SPECIFICATION FairSpec
INVARIANT JoinsCompleteGroup
PROPERTY HandOverEnds
CHECK_DEADLOCK FALSE
