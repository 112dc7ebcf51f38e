CONSTANTS
  MayFail = {"fork", "setpgid_self", "mkfifo", "creat", "write", "close", "mmap", "signal", "munmap"}
  Punctual = FALSE
  Hoisted = TRUE
SPECIFICATION Spec
INVARIANTS
  TypeOK
  SignalsOnlyTheGroup
PROPERTIES
  ReachesTheWholeGroup
  ImplementsProcessGroup
CHECK_DEADLOCK FALSE
