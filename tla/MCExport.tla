------------------------------ MODULE MCExport ------------------------------
(***************************************************************************)
(* One who exports every row of a result that was a write, on one session. *)
(***************************************************************************)
EXTENDS Export

ThatFile(input, format) == input
AllRead(sql) == sql = "read"
AWrite == <<"write">>
Redoer == {[may |-> {"Export", "Edit", "Enter", "Yes", "Cancel"}, left |-> 7]}
=============================================================================
