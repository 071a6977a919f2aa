SPECIFICATION FairSpec
CONSTANTS
  Sessions <- TwoSessions
  FirstOpen <- TwoSessions
  FirstProd <- NoSession
  FinishedKept = 9
  MaxRows = 1
  MaxStream = 1
  Panics = FALSE
  MaxTabs = 2
  KeepGoing = FALSE
  ConfirmWrites = TRUE
  UserOps = {"Run", "Close", "Quit"}
  Runs <- BeginsOrWrites
  Patient = FALSE
  MaxJobs = 2
  MaxDirect = 1
PROPERTIES QuitsWhenEverySessionIsIdle
CHECK_DEADLOCK FALSE
