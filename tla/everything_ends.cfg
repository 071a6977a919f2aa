SPECIFICATION FairSpec
CONSTANTS
  Sessions <- TwoSessions
  FirstOpen <- TwoSessions
  FirstProd <- NoSession
  FinishedKept = 9
  MaxRows = 1
  MaxStream = 1
  Panics = FALSE
  MaxTabs = 2
  KeepGoing = FALSE
  ConfirmWrites = TRUE
  UserOps = {"Run", "Quit", "Cancel"}
  Runs <- Begins
  Patient = FALSE
  MaxJobs = 3
  MaxDirect = 1
PROPERTIES EveryJobEnds QuitsOnceIdle
CHECK_DEADLOCK FALSE
