CONSTANTS
  ForkMayFail = TRUE
  MaskMayFail = TRUE
  MayFail = {"fork", "SIGHUP", "SIGCONT", "kill", "sigprocmask", "signal", "sigpending"}
SPECIFICATION MCSpec
INVARIANTS
  TypesOK
  OneWaitSucceeds
  BlockedIsNotHandled
  HangupIsHandled
  SignalsStayHome
PROPERTY ProgramsEnd
CHECK_DEADLOCK FALSE
