SPECIFICATION Spec
CONSTANTS
  Sessions <- TwoSessions
  FirstOpen <- TwoSessions
  FirstProd <- NoSession
  FinishedKept = 1
  MaxRows = 1
  MaxStream = 1
  Panics = FALSE
  MaxTabs = 2
  KeepGoing = FALSE
  ConfirmWrites = TRUE
  UserOps = {"Run", "Cancel"}
  Runs <- Reads
  Patient = FALSE
  MaxJobs = 3
  MaxDirect = 1
INVARIANTS CancelledResultsAreDropped
CHECK_DEADLOCK FALSE
