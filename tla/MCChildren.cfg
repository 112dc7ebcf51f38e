CONSTANTS
  num_children = 4
  StatusRange = 3
  ForkMayFail = TRUE
  Loops = 3
  Second = 5
  Longest = 7
  Measured = 4
SPECIFICATION MCSpec
INVARIANTS
  TypesOK
  OutputIsRight
  ReportsAreTrue
PROPERTY ProgramsEnd
CHECK_DEADLOCK FALSE
