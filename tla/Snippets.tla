------------------------------ MODULE Snippets ------------------------------
(***************************************************************************)
(* Saved snippets: saving the statement under the cursor, the Manage list  *)
(* with rename, delete and edit, and the file that is written on every     *)
(* change (reducer/snippets.rs, qry-core/snippets.rs, history_store.rs).   *)
(* A snippet's SQL and tags go where it goes and are left out.             *)
(***************************************************************************)
EXTENDS Naturals, Sequences, SequencesExt

CONSTANTS
  SnipNames,        \* names of snippets
  Lower(_),         \* a name in lower case: what makes two the same
  Scopes,           \* connections; "global" is every one
  SnipFiles,        \* what the file may hold at the start
  SnipLeft          \* bound: what the user does

\* What is named is named, there is a connection to be on and another to be off, and
\* the file is a list of snippets.
ASSUME SnippetsAssumption ==
  /\ "" \notin SnipNames /\ SnipLeft \in Nat
  /\ Scopes # {} /\ \A c \in Scopes : Scopes # {c}
  /\ SnipFiles \subseteq Seq([name : SnipNames, conn : Scopes \cup {"global"}])

VARIABLES
  snippets,   \* the list, and whether the file was read
  editing,    \* which snippet, and whose session's editor holds it
  snipDialog, \* the dialog: a form, a confirm, or the Manage list
  here,       \* the active session: its id and connection
  snipDisk,   \* the file, the saves under way, the load
  snipLeft,
  snipCalm    \* ghost: no save overlapped another or the load
snipVars == <<snippets, editing, snipDialog, here, snipDisk, snipLeft, snipCalm>>

NoSnippet == <<"", "">>
None == [kind |-> "none"]
NotEditing == [session |-> 0, name |-> "", conn |-> ""]

Snippet(name, conn) == [name |-> name, conn |-> conn]
Key(s) == <<s.name, s.conn>>

\* The snippet of exactly this name and scope; 0 when there is none.
At(list, key) ==
  IF \E i \in DOMAIN list : Key(list[i]) = key
  THEN CHOOSE i \in DOMAIN list : Key(list[i]) = key ELSE 0

SameName(s, t) == s.conn = t.conn /\ Lower(s.name) = Lower(t.name)

\* May it go in, in the place of `replacing`?
Validates(list, s, replacing) ==
  \A i \in DOMAIN list : i # replacing => ~SameName(list[i], s)

-----------------------------------------------------------------------------
(* The user *)

SnipUser == /\ snipLeft > 0
            /\ snipLeft' = snipLeft - 1

\* The list changed: it is written.
Saved(list) ==
  /\ snippets' = [snippets EXCEPT !.list = list]
  /\ snipDisk' = [snipDisk EXCEPT !.saves = Append(@, list)]
  /\ snipCalm' = (snipCalm /\ snippets.loaded /\ snipDisk.saves = <<>>)

\* ctrl-s: the form, with the name and scope of the snippet this editor holds.
OpenSave ==
  /\ snipDialog = None /\ SnipUser
  /\ LET own == editing.session = here.session
         key == <<editing.name, editing.conn>>
     IN  snipDialog' = [kind |-> "save", replacing |-> IF own THEN key ELSE NoSnippet,
                        conn |-> IF own /\ editing.conn # "global" THEN editing.conn
                                 ELSE here.conn]
  /\ UNCHANGED <<snippets, editing, here, snipDisk, snipCalm>>

OpenManage ==
  /\ snipDialog = None /\ SnipUser
  /\ snipDialog' = [kind |-> "manage"]
  /\ UNCHANGED <<snippets, editing, here, snipDisk, snipCalm>>

\* `r`, `d` and `e` on the selected snippet, and running it.
OnSelected(i) ==
  LET s == snippets.list[i]
      form == [kind |-> "rename", key |-> Key(s),
               conn |-> IF s.conn = "global" THEN here.conn ELSE s.conn]
  IN  \/ snipDialog' = form /\ UNCHANGED editing
      \/ snipDialog' = [kind |-> "delete", key |-> Key(s)] /\ UNCHANGED editing
      \/ /\ snipDialog' = None
         /\ editing' = [session |-> here.session, name |-> s.name, conn |-> s.conn]
      \/ snipDialog' = None /\ UNCHANGED editing

Manage ==
  /\ snipDialog.kind = "manage"
  /\ \E i \in DOMAIN snippets.list : OnSelected(i)
  /\ UNCHANGED <<snippets, here, snipDisk, snipLeft, snipCalm>>

\* A mutant: the editor goes on with the name it had.
FollowsNothing(was, s) == editing

\* The editor's snippet is known by the name it is saved under.
Follows(was, s) ==
  IF was # NoSnippet /\ was = <<editing.name, editing.conn>>
  THEN [editing EXCEPT !.name = s.name, !.conn = s.conn] ELSE editing

\* The form is submitted: saved, or renamed and back to the list; or it says why
\* not and stays.
Submitted ==
  /\ snipDialog.kind \in {"save", "rename"}
  /\ \E name \in SnipNames, conn \in {snipDialog.conn, "global"} :
       LET renames == snipDialog.kind = "rename"
           i == At(snippets.list, IF renames THEN snipDialog.key ELSE snipDialog.replacing)
           s == Snippet(name, conn)
           was == IF i = 0 THEN NoSnippet ELSE Key(snippets.list[i])
       IN  /\ renames => i # 0
           /\ Validates(snippets.list, s, i)
           /\ editing' = Follows(was, s)
           /\ Saved(IF i = 0 THEN Append(snippets.list, s) ELSE ReplaceAt(snippets.list, i, s))
           /\ snipDialog' = IF renames THEN [kind |-> "manage"] ELSE None
  /\ UNCHANGED <<here, snipLeft>>

DeleteSnippet ==
  /\ snipDialog.kind = "delete"
  /\ LET i == At(snippets.list, snipDialog.key)
     IN  \/ /\ i # 0
            /\ Saved(RemoveAt(snippets.list, i))
            /\ editing' = IF snipDialog.key = <<editing.name, editing.conn>>
                          THEN NotEditing ELSE editing
         \/ i = 0 /\ UNCHANGED <<snippets, snipDisk, snipCalm, editing>>
  /\ snipDialog' = [kind |-> "manage"]
  /\ UNCHANGED <<here, snipLeft>>

CancelSnippet ==
  /\ snipDialog # None
  /\ snipDialog' = None
  /\ UNCHANGED <<snippets, editing, here, snipDisk, snipLeft, snipCalm>>

SwitchTo ==
  /\ snipDialog = None /\ SnipUser
  /\ here' = [session |-> 3 - here.session,
              conn |-> CHOOSE c \in Scopes : c # here.conn]
  /\ UNCHANGED <<snippets, editing, snipDialog, snipDisk, snipCalm>>

-----------------------------------------------------------------------------
(* The file *)

\* What was saved before the file came is kept behind what the file has, unless that
\* has one of exactly that name and scope.
WithFile(file, list) ==
  LET merged[n \in 0..Len(list)] ==
        IF n = 0 THEN file
        ELSE IF At(merged[n - 1], Key(list[n])) = 0 THEN Append(merged[n - 1], list[n])
        ELSE merged[n - 1]
  IN  merged[Len(list)]

\* The file was read.
SnippetsLoaded ==
  /\ ~snippets.loaded
  /\ snippets' = [list |-> WithFile(snipDisk.file, snippets.list), loaded |-> TRUE]
  /\ snipCalm' = (snipCalm /\ snippets.list = <<>>)
  /\ UNCHANGED <<editing, snipDialog, here, snipDisk, snipLeft>>

\* A save's task ends; any of those under way may.
SaveLands ==
  /\ \E i \in DOMAIN snipDisk.saves :
       LET rest == RemoveAt(snipDisk.saves, i)
       IN  \/ /\ snipDisk' = [file |-> snipDisk.saves[i], saves |-> rest]
              /\ UNCHANGED snipCalm
           \/ /\ snipDisk' = [snipDisk EXCEPT !.saves = rest]
              /\ snipCalm' = FALSE
  /\ UNCHANGED <<snippets, editing, snipDialog, here, snipLeft>>

SnipInit ==
  /\ snippets = [list |-> <<>>, loaded |-> FALSE]
  /\ editing = NotEditing /\ snipDialog = None
  /\ here = [session |-> 1, conn |-> CHOOSE c \in Scopes : TRUE]
  /\ snipDisk \in {[file |-> f, saves |-> <<>>] : f \in SnipFiles}
  /\ snipLeft = SnipLeft /\ snipCalm = TRUE

SnipNext ==
  \/ OpenSave \/ OpenManage \/ Manage \/ Submitted \/ DeleteSnippet \/ CancelSnippet
  \/ SwitchTo \/ SnippetsLoaded \/ SaveLands

SnipSpec == SnipInit /\ [][SnipNext]_snipVars

-----------------------------------------------------------------------------
(* Properties *)

\* In a scope no two snippets have the same name, whatever its case, and the one an
\* editor holds is one of them, so that saving it again replaces it: through any
\* renames, moves between scopes and deletions, of it and of others, from either
\* session.  Once nothing is being saved the file holds the list.  Unless a snippet
\* was saved before the file was read, or two saves overlapped, or one failed.
SnippetsStayThemselves ==
  snipCalm =>
    /\ \A i, j \in DOMAIN snippets.list :
         i # j => ~SameName(snippets.list[i], snippets.list[j])
    /\ editing # NotEditing => At(snippets.list, <<editing.name, editing.conn>>) # 0
    /\ snippets.loaded /\ snipDisk.saves = <<>> => snipDisk.file = snippets.list

=============================================================================
