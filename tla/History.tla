------------------------------- MODULE History -------------------------------
(***************************************************************************)
(* The query history of one connection: what is kept in memory             *)
(* (qry-core/history.rs), the dialog that lists, picks and deletes from    *)
(* it, recalling (reducer/history.rs, app/history.rs), and the file behind *)
(* it, which tasks of their own append to and rewrite (history_store.rs).  *)
(* The app may die at any time and start again on the file it left.        *)
(***************************************************************************)
EXTENDS Naturals, Sequences, SequencesExt

CONSTANTS
  Statements,       \* texts of statements
  Norm(_),          \* a text without its layout: what makes two the same
  Cap,              \* `max_entries`
  FileCap,          \* DEFAULT_CAP, what reading a file keeps
  FirstFiles,       \* what the file may hold when the app first starts
  HistUsers,        \* what one user does: [may |-> operations, left |-> how many (bound)]
  InFlight          \* bound: tasks under way when another write is asked for

ASSUME CapAssumption == Cap \in Nat \ {0} /\ FileCap \in Nat \ {0}

VARIABLES
  book,     \* memory: entries, the count of lines on file, whether the file was read
  disk,     \* the file's lines and its lock
  tasks,    \* blocking tasks under way, in the order they were asked for
  dialog,   \* the history dialog
  editor,   \* the editor's text, and what recalling put in it
  clock,    \* the time of the last statement; the user
  calm      \* ghost: no two writes have overlapped, and none was refused
histVars == <<book, disk, tasks, dialog, editor, clock, calm>>

Entry(sql, ts) == [sql |-> sql, ts |-> ts]
Half == [half |-> TRUE]     \* a line a crash left half of, without its newline

NoBook == [entries |-> <<>>, lines |-> 0, loaded |-> FALSE]
Closed == [open |-> FALSE, rows |-> <<>>, selected |-> 1, deleting |-> FALSE, query |-> ""]
NoRecall == 0

-----------------------------------------------------------------------------
(* A history *)

Trimmed(entries, cap) ==
  IF Len(entries) > cap THEN SubSeq(entries, Len(entries) - cap + 1, Len(entries)) ELSE entries

\* The newest entry takes on a statement that is the same but for its layout.
Push(entries, e, cap) ==
  IF entries # <<>> /\ Norm(Last(entries).sql) = Norm(e.sql)
  THEN ReplaceAt(entries, Len(entries), Entry(Last(entries).sql, e.ts))
  ELSE Trimmed(Append(entries, e), cap)

\* A file, read line by line; a line that cannot be read is skipped.
FromLines(lines) ==
  FoldLeft(LAMBDA h, l : IF l = Half THEN h ELSE Push(h, l, FileCap), <<>>, lines)

-----------------------------------------------------------------------------
(* Memory *)

UserMay(op) == op \in clock.may /\ clock.left > 0
UserDoes(op) == UserMay(op) /\ clock' = [clock EXCEPT !.left = @ - 1]

Compacts(b) == b.lines > Cap + Cap \div 10

\* A statement ended: it is pushed, its line appended, and the file rewritten
\* when it grew past the cap by a tenth.
Record(sql) ==
  /\ UserMay("Record") /\ Len(tasks) < InFlight
  /\ LET e == Entry(sql, clock.ts + 1)
         pushed == [book EXCEPT !.entries = Push(Trimmed(@, Cap), e, Cap), !.lines = @ + 1]
         append == [do |-> "append", entry |-> e]
         rewrite == [do |-> "rewrite", content |-> pushed.entries, at |-> "asked",
                     why |-> "compaction"]
     IN  /\ book' = IF Compacts(pushed)
                    THEN [pushed EXCEPT !.lines = Len(pushed.entries)] ELSE pushed
         /\ tasks' = tasks \o (IF Compacts(pushed) THEN <<append, rewrite>> ELSE <<append>>)
         /\ calm' = (calm /\ \A i \in DOMAIN tasks : tasks[i].do = "load"
                          /\ (Compacts(pushed) => book.loaded))
  /\ clock' = [clock EXCEPT !.ts = @ + 1, !.left = @ - 1]
  /\ UNCHANGED <<disk, dialog, editor>>

\* A mutant: what was recorded before the file came is dropped.
LoadedAlone(b, lines) ==
  [entries |-> Trimmed(FromLines(lines), Cap), lines |-> Len(lines), loaded |-> TRUE]

\* The file was read: what was recorded meanwhile follows, unless it is there.
Loaded(b, lines) ==
  LET read == [entries |-> Trimmed(FromLines(lines), Cap),
               lines |-> Len(lines), loaded |-> TRUE]
      add(x, e) == IF Contains(x.entries, e) THEN x
                   ELSE [x EXCEPT !.entries = Push(@, e, Cap), !.lines = @ + 1]
  IN  FoldLeft(add, read, b.entries)

-----------------------------------------------------------------------------
(* The dialog *)

\* The rows: the entries the query matches, newest first.
Matching(entries, query) ==
  LET newest == [i \in DOMAIN entries |-> Len(entries) + 1 - i]
  IN  SelectSeq(newest, LAMBDA i : query \in {"", Norm(entries[i].sql)})

Refiltered(d, entries) ==
  LET rows == Matching(entries, d.query)
      last == IF rows = <<>> THEN 1 ELSE Len(rows)
  IN  [d EXCEPT !.rows = rows, !.deleting = FALSE,
                !.selected = IF @ <= last THEN @ ELSE last]

Refresh(d, entries) == IF d.open THEN Refiltered(d, entries) ELSE d

Open ==
  /\ ~dialog.open /\ UserDoes("Open")
  /\ dialog' = Refiltered([Closed EXCEPT !.open = TRUE], book.entries)
  /\ UNCHANGED <<book, disk, tasks, editor, calm>>

Type ==
  /\ dialog.open /\ UserDoes("Type")
  /\ \E q \in {Norm(s) : s \in Statements} :
       dialog' = Refiltered([dialog EXCEPT !.query = q, !.selected = 1], book.entries)
  /\ UNCHANGED <<book, disk, tasks, editor, calm>>

Move ==
  /\ dialog.open /\ UserDoes("Move") /\ dialog.selected < Len(dialog.rows)
  /\ dialog' = [dialog EXCEPT !.selected = @ + 1, !.deleting = FALSE]
  /\ UNCHANGED <<book, disk, tasks, editor, calm>>

CloseDialog ==
  /\ dialog.open
  /\ dialog' = Closed
  /\ UNCHANGED <<book, disk, tasks, editor, clock, calm>>

\* The entry of the selected row, by the index it had when it was listed; there
\* may be none there any more.
RowIndex == dialog.rows[dialog.selected]
OnARow == dialog.open /\ dialog.selected \in DOMAIN dialog.rows
RowIsThere == OnARow /\ RowIndex \in DOMAIN book.entries

\* Picked: a statement of its own in the editor.
Pick ==
  /\ RowIsThere /\ UserDoes("Pick")
  /\ dialog' = Closed
  /\ editor' = [editor EXCEPT !.text = Append(@, <<book.entries[RowIndex].sql, ";">>)]
  /\ UNCHANGED <<book, disk, tasks, calm>>

AskDelete ==
  /\ OnARow /\ ~dialog.deleting /\ UserDoes("Delete")
  /\ dialog' = [dialog EXCEPT !.deleting = TRUE]
  /\ UNCHANGED <<book, disk, tasks, editor, calm>>

\* A mutant: the entry stays on file.
DeleteFromMemory ==
  /\ RowIsThere /\ dialog.deleting /\ UserDoes("Delete") /\ Len(tasks) < InFlight
  /\ LET left == RemoveAt(book.entries, RowIndex)
     IN  /\ book' = [book EXCEPT !.entries = left]
         /\ dialog' = Refresh(dialog, left)
         /\ UNCHANGED <<disk, tasks, editor, calm>>

\* The second press: out of memory, and the file is rewritten without it.
Delete ==
  /\ RowIsThere /\ dialog.deleting /\ UserDoes("Delete") /\ Len(tasks) < InFlight
  /\ LET left == RemoveAt(book.entries, RowIndex)
     IN  /\ book' = [book EXCEPT !.entries = left, !.lines = Len(left)]
         /\ dialog' = Refresh(dialog, left)
         /\ tasks' = Append(tasks, [do |-> "rewrite", content |-> left, at |-> "asked",
                                    why |-> "deletion"])
         /\ calm' = (calm /\ tasks = <<>> /\ book.loaded)
         /\ UNCHANGED <<disk, editor>>

-----------------------------------------------------------------------------
(* Recalling *)

\* The entry alt-up and alt-down go to from `from` (NoRecall: none): 0 is past
\* the newest.
Step(from, older, len) ==
  IF from = NoRecall THEN len
  ELSE IF older THEN (IF from > len THEN len ELSE IF from > 1 THEN from - 1 ELSE 1)
  ELSE IF from + 1 <= len THEN from + 1 ELSE 0

Recall(older) ==
  /\ ~dialog.open /\ UserDoes("Recall")
  /\ book.entries # <<>>
  /\ LET going == editor.recalled # NoRecall /\ editor.text = editor.put
         from == IF going THEN editor.recalled ELSE NoRecall
         to == Step(from, older, Len(book.entries))
         text == IF to = 0 THEN <<>> ELSE <<<<book.entries[to].sql>>>>
     IN  /\ going \/ (editor.text = <<>> /\ older)
         /\ editor' = [text |-> text, put |-> text, recalled |-> to]
  /\ UNCHANGED <<book, disk, tasks, dialog, calm>>

-----------------------------------------------------------------------------
(* The file *)

Without(i) == RemoveAt(tasks, i)

\* A line is added whole, to whichever line the file ends with.
AppendLands(i) ==
  /\ tasks[i].do = "append"
  /\ disk' = IF disk.lines # <<>> /\ Last(disk.lines) = Half THEN disk
             ELSE [disk EXCEPT !.lines = Append(@, tasks[i].entry)]
  /\ calm' = (calm /\ (disk.lines # <<>> => Last(disk.lines) # Half))
  /\ tasks' = Without(i)
  /\ UNCHANGED <<book, dialog, editor, clock>>

\* A rewrite takes the lock, or one an instance that died left long ago.
RewriteLocks(i) ==
  /\ tasks[i].do = "rewrite" /\ tasks[i].at = "asked" /\ disk.lock # "held"
  /\ disk' = [disk EXCEPT !.lock = "held"]
  /\ tasks' = [tasks EXCEPT ![i].at = "locked"]
  /\ UNCHANGED <<book, dialog, editor, clock, calm>>

\* It finds the lock taken, or left not long ago: nothing is rewritten.
RewriteSkips(i) ==
  /\ tasks[i].do = "rewrite" /\ tasks[i].at = "asked" /\ disk.lock # "free"
  /\ calm' = (calm /\ tasks[i].why = "compaction")
  /\ tasks' = Without(i)
  /\ UNCHANGED <<book, disk, dialog, editor, clock>>

\* The temporary file is whole and takes the file's place; the lock goes.
RewriteLands(i) ==
  /\ tasks[i].do = "rewrite" /\ tasks[i].at = "locked"
  /\ disk' = [lines |-> tasks[i].content, lock |-> "free"]
  /\ tasks' = Without(i)
  /\ UNCHANGED <<book, dialog, editor, clock, calm>>

\* The line of e is read as part of an entry written in another layout: it is not
\* known again, and stands twice.
ReadAsAnother(e, lines) ==
  Contains(lines, e) /\ ~Contains(Trimmed(FromLines(lines), Cap), e)

LoadLands(i) ==
  /\ tasks[i].do = "load"
  /\ \E b \in {Loaded(book, disk.lines)} :
       book' = b /\ dialog' = Refresh(dialog, b.entries)
  /\ tasks' = Without(i)
  /\ calm' = (calm /\ \A e \in ToSet(book.entries) : ~ReadAsAnother(e, disk.lines))
  /\ UNCHANGED <<disk, editor, clock>>

\* The app dies and is started again. What was not written is gone; an append may
\* leave half a line, a rewrite its lock.
Crash ==
  /\ UserDoes("Crash")
  /\ LET rewriting == \E i \in DOMAIN tasks : tasks[i].do = "rewrite" /\ tasks[i].at = "locked"
         appending == \E i \in DOMAIN tasks : tasks[i].do = "append"
         lock == IF rewriting THEN "left" ELSE disk.lock
     IN  \/ disk' = [disk EXCEPT !.lock = lock]
         \/ /\ appending
            /\ disk' = [lines |-> Append(SelectSeq(disk.lines, LAMBDA l : l # Half), Half),
                        lock |-> lock]
  /\ book' = NoBook /\ tasks' = <<[do |-> "load"]>> /\ dialog' = Closed
  /\ editor' = [text |-> <<>>, put |-> <<>>, recalled |-> NoRecall]
  /\ calm' = TRUE

-----------------------------------------------------------------------------

HistInit ==
  /\ book = NoBook /\ tasks = <<[do |-> "load"]>> /\ dialog = Closed
  /\ disk \in {[lines |-> f, lock |-> "free"] : f \in FirstFiles}
  /\ editor = [text |-> <<>>, put |-> <<>>, recalled |-> NoRecall]
  /\ clock \in {[ts |-> 0, may |-> u.may, left |-> u.left] : u \in HistUsers}
  /\ calm = TRUE

HistNext ==
  \/ \E s \in Statements : Record(s)
  \/ Open \/ Type \/ Move \/ CloseDialog \/ Pick \/ AskDelete \/ Delete
  \/ Recall(TRUE) \/ Recall(FALSE)
  \/ \E i \in DOMAIN tasks :
       AppendLands(i) \/ RewriteLocks(i) \/ RewriteSkips(i) \/ RewriteLands(i) \/ LoadLands(i)
  \/ Crash

HistSpec == HistInit /\ [][HistNext]_histVars

-----------------------------------------------------------------------------
(* Properties *)

\* What a history is once its neighbours that are the same are one.
Merged(entries) == FoldLeft(LAMBDA h, e : Push(h, e, Len(entries)), <<>>, entries)

\* Once nothing is being written, the file reads back as the history in memory,
\* with at most older entries before it: nothing recorded is missing, nothing
\* deleted comes back, and a compaction, its own append before or after it, and a
\* load that statements overtake change none of that.  Unless the writes of two
\* requests overlapped, a rewrite came before the file was read, a deletion found
\* the lock taken, a line went onto half of one, or one recorded before the file
\* came merged into another layout there: those lose entries, or bring them back.
HistoryReadsBack ==
  calm /\ tasks = <<>> => IsSuffix(Merged(book.entries), FromLines(disk.lines))

=============================================================================
