SPECIFICATION Spec
CONSTANTS
  Sessions <- TwoSessions
  FirstOpen <- OneSession
  FirstProd <- OneSession
  FinishedKept = 9
  MaxRows = 1
  MaxStream = 1
  Panics = FALSE
  MaxTabs = 2
  KeepGoing = FALSE
  ConfirmWrites = TRUE
  UserOps = {"Run", "Open", "Close", "Reconnect", "Quit", "Dismiss", "Cancel"}
  Runs <- BeginsOrWrites
  Patient = FALSE
  MaxJobs = 2
  MaxDirect = 1
INVARIANTS OneOutstanding HeldAwaitAConfirm
PROPERTIES ImplementsLine
CHECK_DEADLOCK FALSE
