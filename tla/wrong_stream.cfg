SPECIFICATION Spec
CONSTANTS
  Sessions <- OneSession
  FirstOpen <- OneSession
  FirstProd <- NoSession
  FinishedKept = 9
  MaxRows = 1
  MaxStream = 3
  Panics = FALSE
  MaxTabs = 2
  KeepGoing = FALSE
  ConfirmWrites = TRUE
  UserOps = {"Run", "LoadMore"}
  Runs <- Reads
  Patient = FALSE
  MaxJobs = 3
  MaxDirect = 1
INVARIANTS LoadsOnFromItsOwnStream
CHECK_DEADLOCK FALSE
