--------------------------- MODULE MCSchemaBrowser ---------------------------
(* The schema browser on small instances: five kinds of users.             *)
EXTENDS SchemaBrowser

Two == {1, 2}
Sys == {"sys"}
Views == {"v"}
HitsName(text, name) == text = name

Reader == [may |-> {"Expand", "Move", "Collapse", "Refresh", "Describe"}, left |-> 6]
Opener == [may |-> {"Open", "OpenNew", "Switch", "Close", "Expand"}, left |-> 4]
Reconnector == [may |-> {"Expand", "Move", "Reconnect", "Close"}, left |-> 4]
Changer == [may |-> {"Expand", "Ddl", "Cancel", "RefreshAll", "Refresh", "Move"}, left |-> 5]
Searcher == [may |-> {"Expand", "Move", "Filter", "System", "RefreshAll"}, left |-> 5]
AllUsers == {Reader, Opener, Reconnector, Changer, Searcher}

FairBrowse == BrowseSpec /\ BrowseFairness
=============================================================================
