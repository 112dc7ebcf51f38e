CONSTANTS
  MayFail = {"fork", "setpgid_self", "setpgid_child", "mkfifo", "creat", "read", "write", "close", "mmap", "signal", "munmap"}
  Punctual = FALSE
  Hoisted = FALSE
SPECIFICATION FairSpec
PROPERTIES
  Process0Ends
CHECK_DEADLOCK FALSE
