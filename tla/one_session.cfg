SPECIFICATION Spec
CONSTANTS
  Sessions <- OneSession
  FirstOpen <- OneSession
  FirstProd <- OneSession
  FinishedKept = 9
  MaxRows = 1
  MaxStream = 3
  Panics = FALSE
  MaxTabs = 2
  KeepGoing = FALSE
  ConfirmWrites = TRUE
  UserOps = {"Run", "LoadMore", "FetchAll", "Export", "Cancel", "Dismiss", "LoadSchema"}
  Runs <- ReadsAndWrites
  Patient = TRUE
  MaxJobs = 3
  MaxDirect = 1
INVARIANTS
  TypeOK
  DrawerAgrees
  TabsShowTheirOwnRows
  OfferedStreamIsKept
  ProdWritesAreConfirmed
PROPERTIES
  ImplementsLine
CHECK_DEADLOCK FALSE
