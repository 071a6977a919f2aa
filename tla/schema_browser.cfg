SPECIFICATION FairBrowse
CONSTANTS
  BrowseSessions <- Two
  Needles = {"", "t"}
  Users <- AllUsers
  SystemCatalogs <- Sys
  ViewNames <- Views
  Hits <- HitsName
INVARIANTS
  LoadsAreAwaited
  ChildrenAreNewer
  TreeIsFresh
  OneSpinner
PROPERTIES
  SelectionStays
  TreeComesToRest
CHECK_DEADLOCK FALSE
