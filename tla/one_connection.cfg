SPECIFICATION Spec
CONSTANTS
  Sessions <- OneSession
  FirstOpen <- OneSession
  FirstProd <- NoSession
  FinishedKept = 1
  MaxRows = 1
  MaxStream = 1
  Panics = TRUE
  MaxTabs = 2
  KeepGoing = TRUE
  ConfirmWrites = TRUE
  UserOps = {"Run", "Cancel", "ToggleAutocommit", "Reconnect"}
  Runs <- Transactions
  Patient = FALSE
  MaxJobs = 3
  MaxDirect = 2
INVARIANTS
  DrawerAgrees
  OpenTransactionIsShown
PROPERTIES
  SentAreRunning
CHECK_DEADLOCK FALSE
