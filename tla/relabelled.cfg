SPECIFICATION Spec
CONSTANTS
  Sessions <- OneSession
  FirstOpen <- OneSession
  FirstProd <- NoSession
  FinishedKept = 9
  MaxRows = 1
  MaxStream = 1
  Panics = FALSE
  MaxTabs = 2
  KeepGoing = FALSE
  ConfirmWrites = TRUE
  UserOps = {"Run", "Reconnect"}
  Runs <- ReadsAndWrites
  Patient = FALSE
  MaxJobs = 3
  MaxDirect = 1
INVARIANTS ProdAsksBeforeTheFirstWrite
CHECK_DEADLOCK FALSE
