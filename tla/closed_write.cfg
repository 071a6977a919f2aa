SPECIFICATION Spec
CONSTANTS
  Sessions <- TwoSessions
  FirstOpen <- TwoSessions
  FirstProd <- NoSession
  FinishedKept = 9
  MaxRows = 1
  MaxStream = 1
  Panics = FALSE
  MaxTabs = 2
  KeepGoing = FALSE
  ConfirmWrites = TRUE
  UserOps = {"Run", "Close"}
  Runs <- ReadsAndWrites
  Patient = FALSE
  MaxJobs = 3
  MaxDirect = 1
PROPERTIES ClosedSessionsWriteNothing
CHECK_DEADLOCK FALSE
