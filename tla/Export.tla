------------------------------- MODULE Export -------------------------------
(***************************************************************************)
(* Exporting a result to a file: the dialog and its confirms               *)
(* (reducer/export.rs, dialogs/exportform.rs), the look at the path        *)
(* (runtime.rs), the worker's check and writing (db.rs) and the file that  *)
(* is put in place only when it is whole (qry-core/exporter.rs).           *)
(*                                                                         *)
(* Columns, values and formats are left out: a file is how many of its     *)
(* batches of rows it holds.  So is the queue of jobs (see QueryRun): a    *)
(* job goes straight to its session's worker.                              *)
(***************************************************************************)
EXTENDS Integers, Sequences, FiniteSets

CONSTANTS
  ExpSessions,      \* sessions, all open
  Inputs,           \* what the user may type as the path, "" among it
  Formats,          \* of files
  FileOf(_, _),     \* the file that an input names, written in a format
  Batches,          \* how many batches of rows a whole result is
  ReadOnly(_),      \* whether a statement only reads (sql::is_read_only)
  Results,          \* bound: statements whose results still come
  ExpUsers          \* bound: what a user may do, and how often: records [may, left]

ASSUME BatchesAssumption == Batches \in Nat \ {0}
ASSUME FormatsAssumption == Formats # {}
ASSUME ExpUsersAssumption == \A u \in ExpUsers : u.left \in Nat

VARIABLES
  tabs,             \* per session: [sqls, active], the results shown
  activeSession,
  modal,            \* the dialog or confirm on screen, and the form it holds
  awaitingExport,   \* the session whose export the dialog waits for, or 0
  probes,           \* looks at a path: asked for, then answered
  inbox,            \* per session: exports on their way to its worker
  writer,           \* per session: the export its worker writes
  outbox,           \* per session: answers on their way back
  files,             \* the files: per target, what stands there
  temps,            \* the files beside them that are being written
  reruns,           \* ghost: the statements that were asked to run again
  expLeft           \* what still may happen
expVars == <<tabs, activeSession, modal, awaitingExport, probes, inbox, writer, outbox,
             files, temps, reruns, expLeft>>

Targets == {FileOf(p[1], p[2]) : p \in (Inputs \ {""}) \X Formats}

Nothing == [of |-> 0, batches |-> 0]              \* no file
Whole(of) == [of |-> of, batches |-> Batches]     \* the file of an export
Found == Whole(0)                                 \* found there at first
Foreign(n) == Whole(0 - n)                        \* written by another program

\* `said` is a ghost, the file the user agreed to replace; so is `misled`, that the
\* question came with an answer about another file than the form names.
NewForm(sql) ==
  [input |-> "", format |-> CHOOSE f \in Formats : TRUE, scope |-> "fetched", sql |-> sql,
   probe |-> [input |-> "", format |-> "", exists |-> FALSE], asked |-> <<"", "">>,
   overwrite |-> FALSE, rerun |-> FALSE, pending |-> FALSE, said |-> "", misled |-> FALSE]
NoModal == [kind |-> "none"]
Modal(kind, form) == [kind |-> kind, form |-> form]
AskToReplace(form, target) == [kind |-> "overwrite", form |-> form, about |-> target]
AskToRunAgain(form) == [kind |-> "rerun", form |-> form]
HasForm == modal.kind = "form"

Target(form) == FileOf(form.input, form.format)
ActiveTab(s) == tabs[s].sqls[tabs[s].active]

\* An export as the worker gets it.  `stood`, `said` and `misled` are ghosts.
ExportJob(s, form, fetched) ==
  [n |-> expLeft.left, fetched |-> fetched, target |-> Target(form), overwrite |-> form.overwrite,
   stood |-> files[Target(form)], said |-> form.said, misled |-> form.misled]

NoWriter == [step |-> "idle"]

-----------------------------------------------------------------------------
(* The dialog *)

\* After every event: the path and format shown are looked at, once.
Probed(form) ==
  LET wanted == <<form.input, form.format>>
      asks == form.input # "" /\ form.asked # wanted
  IN  [form |-> [form EXCEPT !.asked = IF asks THEN wanted ELSE @],
       asks |-> IF asks THEN {[input |-> form.input, format |-> form.format, seen |-> "not yet"]}
                        ELSE {}]

Show(form) ==
  LET p == Probed(form)
  IN  modal' = Modal("form", p.form) /\ probes' = probes \cup p.asks

\* What is known of the file that the form names, if anything is.
Exists(form) ==
  form.probe.input = form.input /\ form.probe.format = form.format /\ form.probe.exists

ExpMay(what) ==
  /\ expLeft.left > 0 /\ what \in expLeft.may
  /\ expLeft' = [expLeft EXCEPT !.left = @ - 1]

OpenExport ==
  /\ modal = NoModal /\ ExpMay("Export")
  /\ Show(NewForm(ActiveTab(activeSession)))
  /\ awaitingExport' = 0
  /\ UNCHANGED <<tabs, activeSession, inbox, writer, outbox, files, temps, reruns>>

\* A new path or format is a new file, to be asked about again; with the rows in
\* hand nothing runs again.
AfterChange(form, before) ==
  LET same == <<form.input, form.format>> = <<before.input, before.format>>
  IN  [form EXCEPT !.overwrite = @ /\ same, !.misled = @ /\ same,
                   !.rerun = @ /\ form.scope # "fetched"]

\* The fields take keys while the form waits, too.
EditField ==
  /\ HasForm /\ ExpMay("Edit")
  /\ LET form == modal.form
     IN  \/ \E i \in Inputs \ {form.input} : Show(AfterChange([form EXCEPT !.input = i], form))
         \/ \E f \in Formats \ {form.format} : Show(AfterChange([form EXCEPT !.format = f], form))
         \/ \E sc \in {"fetched", "all"} \ {form.scope} :
              Show(AfterChange([form EXCEPT !.scope = sc], form))
  /\ UNCHANGED <<tabs, activeSession, awaitingExport, inbox, writer, outbox, files, temps, reruns>>

\* Enter, and yes to a confirm, which submits again: the confirms the form still
\* needs come first.  What is exported is the tab that is shown by then.
Submit(form) ==
  LET s == activeSession
      job == ExportJob(s, form, form.scope = "fetched")
      sent == inbox' = [inbox EXCEPT ![s] = Append(@, job)]
  IN  CASE form.input = "" -> Show(form) /\ UNCHANGED <<awaitingExport, inbox, reruns>>
        [] form.input # "" /\ form.scope = "all" /\ ~ReadOnly(form.sql) /\ ~form.rerun ->
             modal' = AskToRunAgain(form) /\ UNCHANGED <<awaitingExport, probes, inbox, reruns>>
        [] form.input # "" /\ (form.scope = "all" => ReadOnly(form.sql) \/ form.rerun)
           /\ Exists(form) /\ ~form.overwrite ->
             modal' = AskToReplace([form EXCEPT !.misled = FALSE], Target(form)) /\ UNCHANGED <<awaitingExport, probes, inbox, reruns>>
        [] OTHER ->
             /\ sent
             /\ IF form.scope = "fetched"
                THEN /\ Show([form EXCEPT !.pending = TRUE])
                     /\ awaitingExport' = s
                     /\ reruns' = reruns
                ELSE /\ modal' = NoModal /\ awaitingExport' = 0 /\ probes' = probes
                     /\ reruns' = reruns \cup {[sql |-> ActiveTab(s), agreed |-> form.rerun]}

PressEnter ==
  /\ HasForm /\ awaitingExport = 0 /\ ExpMay("Enter")
  /\ Submit(modal.form)
  /\ UNCHANGED <<tabs, activeSession, writer, outbox, files, temps>>

\* `confirmed` shows the form again and submits it.
SayYes ==
  /\ modal.kind \in {"rerun", "overwrite"} /\ awaitingExport = 0 /\ ExpMay("Yes")
  /\ LET form == modal.form
     IN  Submit(IF modal.kind = "rerun" THEN [form EXCEPT !.rerun = TRUE]
                ELSE [form EXCEPT !.overwrite = TRUE, !.said = modal.about])
  /\ UNCHANGED <<tabs, activeSession, writer, outbox, files, temps>>

\* Esc: a confirm goes back to its dialog, the dialog goes.
CancelExport ==
  /\ modal # NoModal /\ ExpMay("Cancel")
  /\ awaitingExport' = 0
  /\ IF HasForm THEN modal' = NoModal /\ probes' = probes ELSE Show(modal.form)
  /\ UNCHANGED <<tabs, activeSession, inbox, writer, outbox, files, temps, reruns>>

\* The palette's `export csv <path>`: the rows in hand, at once.
Quick ==
  /\ modal = NoModal /\ ExpMay("Quick")
  /\ \E i \in Inputs \ {""}, f \in Formats :
       LET form == [NewForm(ActiveTab(activeSession)) EXCEPT !.input = i, !.format = f]
       IN  inbox' = [inbox EXCEPT ![activeSession] = Append(@, ExportJob(activeSession, form, TRUE))]
  /\ UNCHANGED <<tabs, activeSession, modal, awaitingExport, probes, writer, outbox, files, temps, reruns>>

SwitchSession ==
  /\ modal = NoModal /\ ExpMay("Switch")
  /\ \E s \in ExpSessions \ {activeSession} : activeSession' = s
  /\ UNCHANGED <<tabs, modal, awaitingExport, probes, inbox, writer, outbox, files, temps, reruns>>

\* A statement that ran in session s gives a result: its tab is shown if the last
\* one was.
ResultComes(s) ==
  /\ expLeft.results # <<>> /\ writer[s] = NoWriter
  /\ tabs' = [tabs EXCEPT ![s] =
       [sqls |-> Append(@.sqls, Head(expLeft.results)),
        active |-> IF @.active = Len(@.sqls) THEN Len(@.sqls) + 1 ELSE @.active]]
  /\ expLeft' = [expLeft EXCEPT !.results = Tail(@)]
  /\ UNCHANGED <<activeSession, modal, awaitingExport, probes, inbox, writer, outbox, files, temps, reruns>>

-----------------------------------------------------------------------------
(* Looking at the path, on a thread of its own *)

ProbeLooks(p) ==
  /\ p.seen = "not yet"
  /\ LET there == IF files[FileOf(p.input, p.format)] = Nothing THEN "no" ELSE "yes"
     IN  probes' = (probes \ {p}) \cup {[p EXCEPT !.seen = there]}
  /\ UNCHANGED <<tabs, activeSession, modal, awaitingExport, inbox, writer, outbox, files, temps, reruns, expLeft>>

\* The answer; kept only if it is about the path and format shown.
ProbeAnswered(p) ==
  /\ p.seen # "not yet"
  /\ LET about(form) == p.input = form.input /\ p.format = form.format
         rest == probes \ {p}
     IN  IF HasForm /\ about(modal.form)
         THEN /\ modal' = [modal EXCEPT !.form.probe =
                            [input |-> p.input, format |-> p.format, exists |-> p.seen = "yes"]]
              /\ probes' = rest
         ELSE modal' = modal /\ probes' = rest
  /\ UNCHANGED <<tabs, activeSession, awaitingExport, inbox, writer, outbox, files, temps, reruns, expLeft>>

-----------------------------------------------------------------------------
(* The worker, one export at a time, and its file *)

Answer(type, job) == [type |-> type, fetched |-> job.fetched, target |-> job.target]
Answers(s, type) == outbox' = [outbox EXCEPT ![s] = Append(@, Answer(type, writer[s].job))]

\* A mutant: only the dialog looks whether the file is there.
NothingStands(job) == FALSE

\* A file that is there and may not be replaced.
Stands(job) == ~job.overwrite /\ files[job.target] # Nothing

\* It is left alone.
TakeExport(s) ==
  /\ writer[s] = NoWriter /\ inbox[s] # <<>>
  /\ LET job == Head(inbox[s])
     IN  IF Stands(job)
         THEN /\ outbox' = [outbox EXCEPT ![s] = Append(@, Answer("exists", job))]
              /\ writer' = writer
         ELSE /\ outbox' = outbox
              /\ writer' = [writer EXCEPT ![s] =
                   [step |-> "creates", job |-> job, taken |-> 0,
                    streamed |-> IF job.fetched THEN Batches ELSE 0,
                    query |-> IF job.fetched THEN "ok" ELSE "running"]]
  /\ inbox' = [inbox EXCEPT ![s] = Tail(@)]
  /\ UNCHANGED <<tabs, activeSession, modal, awaitingExport, probes, files, temps, reruns, expLeft>>

Temp(w) == [of |-> w.job.n, batches |-> 0, abandoned |-> FALSE]
TempOf(w) == CHOOSE t \in temps : t.of = w.job.n /\ ~t.abandoned

\* AtomicFile::create: a name of its own beside the target.
Create(s) ==
  /\ writer[s].step = "creates"
  /\ temps' = temps \cup {Temp(writer[s])}
  /\ writer' = [writer EXCEPT ![s].step = "writes"]
  /\ UNCHANGED <<tabs, activeSession, modal, awaitingExport, probes, inbox, outbox, files, reruns, expLeft>>

\* The statement runs again: batches come through a channel of one, until it
\* ends or fails.
QueryStreams(s) ==
  /\ writer[s].step = "writes" /\ writer[s].query = "running"
  /\ \/ /\ writer[s].streamed < Batches /\ writer[s].streamed = writer[s].taken
        /\ writer' = [writer EXCEPT ![s].streamed = @ + 1]
     \/ /\ writer[s].streamed = Batches
        /\ writer' = [writer EXCEPT ![s].query = "ok"]
     \/ writer' = [writer EXCEPT ![s].query = "failed"]
  /\ UNCHANGED <<tabs, activeSession, modal, awaitingExport, probes, inbox, outbox, files, temps, reruns, expLeft>>

\* Some of the rows taken in are in the file, the others in a buffer, in an
\* INSERT not yet written or in a sheet in memory.
Holding(t, n) == (temps \ {t}) \cup {[t EXCEPT !.batches = n]}

TakeBatch(s) ==
  /\ writer[s].step = "writes" /\ writer[s].taken < writer[s].streamed
  /\ writer' = [writer EXCEPT ![s].taken = @ + 1]
  /\ LET t == TempOf(writer[s])
     IN  \E n \in t.batches..writer[s].taken + 1 : temps' = Holding(t, n)
  /\ UNCHANGED <<tabs, activeSession, modal, awaitingExport, probes, inbox, outbox, files, reruns, expLeft>>

\* A mutant: the writer does not wait to hear that the query went well.
EndsWithRows(w) == w.taken = w.streamed
Complete(w) == w.query = "ok" /\ w.taken = w.streamed

\* A mutant: what is held back is not written before the file is closed.
FlushedNothing(w) == temps

Flushed(w) == Holding(TempOf(w), w.taken)

FinishFile(s) ==
  /\ writer[s].step = "writes" /\ Complete(writer[s])
  /\ temps' = Flushed(writer[s])
  /\ writer' = [writer EXCEPT ![s].step = "renames"]
  /\ UNCHANGED <<tabs, activeSession, modal, awaitingExport, probes, inbox, outbox, files, reruns, expLeft>>

Rename(s) ==
  /\ writer[s].step = "renames"
  /\ LET t == TempOf(writer[s])
     IN  /\ files' = [files EXCEPT ![writer[s].job.target] = [of |-> t.of, batches |-> t.batches]]
         /\ temps' = temps \ {t}
  /\ Answers(s, "exported")
  /\ writer' = [writer EXCEPT ![s] = NoWriter]
  /\ UNCHANGED <<tabs, activeSession, modal, awaitingExport, probes, inbox, reruns, expLeft>>

\* The query failed, or a step did: the sink is dropped and its file with it.
WriterStops(s) ==
  /\ writer[s] # NoWriter
  /\ temps' = {t \in temps : t.of # writer[s].job.n}
  /\ Answers(s, "failed")
  /\ writer' = [writer EXCEPT ![s] = NoWriter]
  /\ UNCHANGED <<tabs, activeSession, modal, awaitingExport, probes, inbox, files, reruns, expLeft>>

\* The dialog that waits closes, keeps its fields, or asks now; a job's answer
\* only makes a toast.
HearExport(s) ==
  /\ outbox[s] # <<>>
  /\ outbox' = [outbox EXCEPT ![s] = Tail(@)]
  /\ LET a == Head(outbox[s])
         waits == a.fetched /\ awaitingExport = s /\ HasForm
         form == [modal.form EXCEPT !.pending = FALSE]
         about == [form EXCEPT !.misled = @ \/ a.target # Target(form)]
     IN  IF waits
         THEN /\ awaitingExport' = 0
              /\ modal' = CASE a.type = "exported" -> NoModal
                            [] a.type = "failed" -> Modal("form", form)
                            [] a.type = "exists" -> AskToReplace(about, a.target)
         ELSE UNCHANGED <<awaitingExport, modal>>
  /\ UNCHANGED <<tabs, activeSession, probes, inbox, writer, files, temps, reruns, expLeft>>

-----------------------------------------------------------------------------

FirstTabs == [s \in ExpSessions |-> [sqls |-> <<"read">>, active |-> 1]]
ExpInit ==
  /\ expLeft \in {[may |-> u.may, left |-> u.left, results |-> Results] : u \in ExpUsers}
  /\ tabs = FirstTabs /\ activeSession = CHOOSE s \in ExpSessions : \A t \in ExpSessions : s <= t
  /\ modal = NoModal /\ awaitingExport = 0 /\ probes = {}
  /\ inbox = [s \in ExpSessions |-> <<>>] /\ outbox = [s \in ExpSessions |-> <<>>]
  /\ writer = [s \in ExpSessions |-> NoWriter]
  /\ files \in [Targets -> {Nothing, Found}]
  /\ temps = {} /\ reruns = {}

\* Another program writes a file, or removes it.
Outside ==
  /\ ExpMay("Outside")
  /\ \E t \in Targets :
       files' = [files EXCEPT ![t] = IF @ = Nothing THEN Foreign(expLeft.left) ELSE Nothing]
  /\ UNCHANGED <<tabs, activeSession, modal, awaitingExport, probes, inbox, writer, outbox, temps, reruns>>

\* The app is killed, and started again.
Killed ==
  /\ ExpMay("Killed")
  /\ tabs' = FirstTabs /\ activeSession' = activeSession
  /\ modal' = NoModal /\ awaitingExport' = 0 /\ probes' = {}
  /\ inbox' = [s \in ExpSessions |-> <<>>] /\ outbox' = [s \in ExpSessions |-> <<>>]
  /\ writer' = [s \in ExpSessions |-> NoWriter]
  /\ temps' = {[t EXCEPT !.abandoned = TRUE] : t \in temps}
  /\ UNCHANGED <<files, reruns>>

Writes(s) ==
  TakeExport(s) \/ Create(s) \/ QueryStreams(s) \/ TakeBatch(s) \/ FinishFile(s) \/ Rename(s) \/ WriterStops(s)

ExpNext ==
  \/ OpenExport \/ EditField \/ PressEnter \/ SayYes \/ CancelExport \/ Quick \/ SwitchSession
  \/ \E p \in probes : ProbeLooks(p) \/ ProbeAnswered(p)
  \/ \E s \in ExpSessions : ResultComes(s) \/ Writes(s) \/ HearExport(s)
  \/ Outside \/ Killed

ExpSpec == ExpInit /\ [][ExpNext]_expVars

-----------------------------------------------------------------------------
(* Properties *)

\* Whatever fails, stops or is killed, and however many exports go to one file at
\* once, every target holds what was there or a whole export, never part of one; and
\* a temporary file is there only while its export is, or since the app was killed.
TargetsAreWhole ==
  /\ \A t \in Targets : files[t] = Nothing \/ files[t].batches = Batches
  /\ \A t \in temps : ~t.abandoned => \E s \in ExpSessions : writer[s] # NoWriter /\ writer[s].job.n = t.of

\* A file that stood there when its export was asked for is replaced only if the
\* user agreed to replace that very file: whatever the dialog knew of it, and however
\* the path was changed before and after.  (Not when an answer about another file
\* asked: README, "Where the code disagrees".)
ReplacedIfAgreed ==
  [][\A s \in ExpSessions :
       LET job == writer[s].job
       IN  writer[s].step = "renames" /\ files'[job.target] # files[job.target]
           /\ files[job.target] = job.stood /\ job.stood # Nothing /\ ~job.misled
             => job.said = job.target]_expVars

\* export.rs:6, T307:113: a statement that is not a plain read is run again only once
\* the user agreed to that.
RerunsAreAgreed == \A r \in reruns : ReadOnly(r.sql) \/ r.agreed

=============================================================================
