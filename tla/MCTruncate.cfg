CONSTANTS
  Contents <- MCContents
  Offsets <- MCOffsets
  Lines = 4
  MayFail = {"mkfifo", "open", "stat", "write", "read", "close"}
  WriteMayFail = TRUE
  Players = {"niramay", "srishti"}
  Owner = "temp"
  Names = {"a", "b"}
  Targets <- MCTargets
  Arguments <- MCArguments
SPECIFICATION MCSpec
INVARIANT TruncatesToLength
CHECK_DEADLOCK FALSE
