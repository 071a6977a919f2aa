------------------------------ MODULE QueryRun ------------------------------
(***************************************************************************)
(* Running SQL: the reducer's side of crates/qry/src/app/reducer/run.rs,   *)
(* with the answers of db.rs and export.rs, the sessions of sessions.rs    *)
(* and the confirms of dialogs.rs, composed with the workers (Worker) and  *)
(* the registry of jobs (JobRegistry).                                     *)
(*                                                                         *)
(* The reducer handles one event at a time, so each action below is one    *)
(* event with every effect it has: the statements a user runs wait in      *)
(* their session's queue and go to its worker one at a time.               *)
(*                                                                         *)
(* A modal that only waits (New Connection, Export) is left out: the user  *)
(* may close it at once, and closed it changes nothing here.               *)
(***************************************************************************)
EXTENDS Worker, FiniteSets, SequencesExt

CONSTANTS
  FinishedKept, \* how many finished jobs the registry keeps (FINISHED_KEPT, 50)
  FirstOpen,    \* the sessions that are open, and idle, when the model starts
  FirstProd,    \* ... and those of them on a connection labelled prod
  MaxTabs,      \* the most result tabs a session keeps (MAX_TABS, 20)
  KeepGoing,    \* config continue_on_error
  ConfirmWrites,\* config confirm_writes_on_prod
  UserOps,      \* bound: what the user does in this instance
  Runs,         \* bound: the runs the user may start, sequences of statements
  Patient,      \* bound: whether the user waits for an idle session to run more
  MaxJobs,      \* bound: most jobs made
  MaxDirect     \* bound: most commands sent past the queue

ASSUME QueryRunAssumption ==
  /\ Sessions \subseteq Nat /\ IsFiniteSet(Sessions)
  /\ FinishedKept \in Nat
  /\ FirstProd \subseteq FirstOpen /\ FirstOpen \subseteq Sessions
  /\ MaxTabs \in Nat \ {0}
  /\ {KeepGoing, ConfirmWrites, Patient} \subseteq BOOLEAN
  /\ Runs \subseteq Seq(Statements) \ {<<>>}
  /\ MaxJobs \in Nat /\ MaxDirect \in Nat

INSTANCE JobRegistry

VARIABLES
  session,      \* per session: its SessionState
  jobs,         \* the registry
  made,         \* the id of the newest job
  dialog,       \* the confirm that is open
  quitWhenIdle, \* quit once every session is idle
  quit,         \* the app has quit
  direct,       \* how many commands were sent past the queue
  stopped       \* history: the jobs cancelled while they ran

appVars == <<session, jobs, made, dialog, quitWhenIdle, quit, direct, stopped>>
vars == <<workerVars, appVars>>

-----------------------------------------------------------------------------
(* Session state. *)

\* A queued statement: `how` it runs, the tab it loads on for, and as what
\* job.  The empty statement is that of a tab made with nothing in flight.
Hows == {"query", "all", "more", "export"}
NoSql == "none"
Item == [sql : Statements \cup {NoSql}, how : Hows, tab : Nat, job : Nat]
NoItem == [sql |-> NoSql, how |-> "none", tab |-> 0, job |-> NoJob]

\* A result tab; `job` is a ghost, the job whose statement it shows.
Tab == [number : Nat, job : Nat, sql : Statements \cup {NoSql}, rows : Seq(Nat \X Nat),
        truncated : BOOLEAN, stopped : BOOLEAN]

Fresh(status, prod) ==
  [status |-> status, prod |-> prod, confirmed |-> FALSE,
   queue |-> <<>>, inFlight |-> NoItem, running |-> 0, txChanges |-> <<>>,
   inTx |-> FALSE, autocommit |-> TRUE, cursor |-> 0, cursorKept |-> FALSE,
   tabs |-> <<>>, tabsMade |-> 0, held |-> <<>>]

\* `sessions.get(id)` finds a session that was opened and not closed.
Live == {s \in Sessions : session[s].status \in {"connecting", "open", "failed"}}

\* `busy`, `is_open` and `tx_open`.
Busy(ss) == ss.running > 0 \/ ss.queue # <<>>
IsOpen(ss) == ss.status = "open"
TxOpen(ss) == ss.inTx \/ ~ss.autocommit

NoDialog == [kind |-> "none", who |-> {}]
Confirm(kind, who) == [kind |-> kind, who |-> who]

-----------------------------------------------------------------------------
(* pump: a session's next statement goes out when its worker is free. *)

CommandOf(item) ==
  Statement(CASE item.how = "query"  -> "Query"
              [] item.how = "all"    -> "QueryAll"
              [] item.how = "more"   -> "FetchMore"
              [] item.how = "export" -> "Export", item.sql, item.job)

\* Reading on from a stream does nothing to the transaction.
ChangeOf(item) == IF item.how = "more" THEN "none" ELSE TxChange(item.sql)

\* Only with nothing in flight, and a fault: without looking.
SendsAtOnce(ss) == ss.queue # <<>>
Sends(ss) == ss.inFlight = NoItem /\ ss.queue # <<>>

Pumped(ss) ==
  IF Sends(ss)
    THEN [ss EXCEPT !.inFlight = Head(ss.queue), !.queue = Tail(@), !.running = @ + 1,
                    !.txChanges = Append(@, ChangeOf(Head(ss.queue)))]
    ELSE ss

\* Its job starts, and a fault: it is left queued.
StartedNothing(js, ss) == js
Started(js, ss) == IF Sends(ss) THEN Start(js, Head(ss.queue).job) ELSE js

Sent(ss) == IF Sends(ss) THEN <<CommandOf(Head(ss.queue))>> ELSE <<>>

To(s, out) == [t \in Sessions |-> IF t = s THEN out ELSE <<>>]

\* The end of a handler that pumps session s, having made ss of it and js of
\* the registry.  With nothing left to send it quits, if quitting waits on
\* every session being idle.
Pump(s, ss, js) ==
  /\ session' = [session EXCEPT ![s] = Pumped(ss)]
  /\ jobs' = Started(js, ss)
  /\ Deliver(To(s, Sent(ss)))
  /\ quit' = (/\ quitWhenIdle /\ ~Busy(ss) /\ ss.inFlight = NoItem
              /\ \A t \in Sessions \ {s} : ~Busy(session[t]))

\* The end of one that only changes session s.
Only(s, ss) ==
  /\ session' = [session EXCEPT ![s] = ss]
  /\ UNCHANGED <<jobs, quit, cmds, stopping>>

-----------------------------------------------------------------------------
(* enqueue_on. *)

KindOf(item) == CASE item.how = "more"   -> "FetchMore"
                  [] item.how = "export" -> "Export"
                  [] OTHER               -> "Query"

\* What a run asks for, before it has job ids.
Wanted(sql, how, tab) == [sql |-> sql, how |-> how, tab |-> tab, job |-> NoJob]

\* The i-th next job id, and a fault: counted from zero.
JobIdFromZero(i) == made + i - 1
JobId(i) == made + i

Numbered(items) ==
  [i \in DOMAIN items |-> [items[i] EXCEPT !.job = JobId(i)]]

Enqueued(s, items) ==
  [id \in DOMAIN jobs \cup JobId(1)..JobId(Len(items)) |->
     IF id \in DOMAIN jobs THEN jobs[id]
     ELSE [session |-> s, kind |-> KindOf(items[id - JobId(0)]), state |-> "queued"]]

\* What is enqueued goes behind what waits.
Behind(queue, items) == queue \o items

\* The first write of a session on a prod connection asks first.  A fault: only
\* the first statement is looked at.
AsksForTheFirst(s, items) ==
  ConfirmWrites /\ ~ReadOnly(items[1].sql) /\ ~quitWhenIdle /\ session[s].prod
    /\ ~session[s].confirmed

Asks(s, items) ==
  /\ ConfirmWrites
  /\ \E i \in DOMAIN items : ~ReadOnly(items[i].sql)
  /\ ~quitWhenIdle
  /\ session[s].prod
  /\ ~session[s].confirmed

\* A statement closes the kept stream before it runs, so the tab that had it
\* can load no more.
Closes(items) == \E i \in DOMAIN items : items[i].how # "more"

\* Session s, now ss, queues what it is given.
Queue(s, ss, items) ==
  LET numbered == Numbered(items)
  IN  /\ made' = made + Len(items)
      /\ Pump(s, [ss EXCEPT !.cursor = IF Closes(items) THEN 0 ELSE @,
                            !.queue = Behind(@, numbered)],
              Enqueued(s, items))

EnqueueOn(s, items) ==
  /\ made + Len(items) <= MaxJobs
  /\ IF Asks(s, items)
       THEN /\ Only(s, [session[s] EXCEPT !.held = items])
            /\ dialog' = Confirm("RunOnProd", {s})
            /\ UNCHANGED made
       ELSE /\ Queue(s, session[s], items)
            /\ dialog' = NoDialog

-----------------------------------------------------------------------------
(* What the user does.  A confirm takes every key but its own and quit's.   *)

untouchedByUser == <<current, early, stream, conn, alive, answers>>

User(op) == op \in UserOps /\ ~quit /\ UNCHANGED untouchedByUser
Acts(op, s) == User(op) /\ dialog = NoDialog /\ s \in Live
Waits(s) == Patient => ~Busy(session[s])

\* Every statement, the selection or the statement under the cursor.
Run(s) ==
  /\ Acts("Run", s)
  /\ Waits(s)
  /\ \E run \in Runs : EnqueueOn(s, [i \in DOMAIN run |-> Wanted(run[i], "query", 0)])
  /\ UNCHANGED <<quitWhenIdle, direct, stopped, cancels>>

\* `L` on the tab whose stream is kept, one read at a time.
LoadMore(s) ==
  /\ Acts("LoadMore", s)
  /\ Waits(s)
  /\ session[s].inFlight.how # "more"
  /\ \A i \in DOMAIN session[s].queue : session[s].queue[i].how # "more"
  /\ \E i \in DOMAIN session[s].tabs :
       LET tab == session[s].tabs[i]
       IN  /\ tab.truncated /\ session[s].cursor = tab.number
           /\ EnqueueOn(s, <<Wanted(tab.sql, "more", tab.number)>>)
  /\ UNCHANGED <<quitWhenIdle, direct, stopped, cancels>>

Truncated(s) ==
  \E i \in DOMAIN session[s].tabs :
    session[s].tabs[i].truncated /\ session[s].tabs[i].sql = "select"

\* `A`, and `L` without a stream: asks first.  Only reads are truncated here.
AskToFetchAll(s) ==
  /\ Acts("FetchAll", s)
  /\ Truncated(s)
  /\ dialog' = Confirm("FetchAll", {s})
  /\ UNCHANGED <<session, jobs, made, quitWhenIdle, quit, direct, stopped, cmds, stopping, cancels>>

FetchAll(s) ==
  /\ User("FetchAll")
  /\ dialog = Confirm("FetchAll", {s})
  /\ EnqueueOn(s, <<Wanted("select", "all", 0)>>)
  /\ UNCHANGED <<quitWhenIdle, direct, stopped, cancels>>

\* The Export dialog with every row as its scope.
ExportAll(s) ==
  /\ Acts("Export", s)
  /\ \E i \in DOMAIN session[s].tabs : session[s].tabs[i].sql = "select"
  /\ EnqueueOn(s, <<Wanted("select", "export", 0)>>)
  /\ UNCHANGED <<quitWhenIdle, direct, stopped, cancels>>

\* The prod confirm said yes: what the session held runs, and it is not asked
\* again.
Release(s) ==
  LET held == session[s].held
  IN  /\ User("Run")
      /\ dialog = Confirm("RunOnProd", {s})
      /\ made + Len(held) <= MaxJobs
      /\ Queue(s, [session[s] EXCEPT !.confirmed = TRUE, !.held = <<>>], held)
      /\ dialog' = NoDialog
      /\ UNCHANGED <<quitWhenIdle, direct, stopped, cancels>>

\* Esc: no run is held any more.  A fault: it is left behind.
StillHeld == session
NothingHeld == [s \in Sessions |-> [session[s] EXCEPT !.held = <<>>]]

Dismiss ==
  /\ User("Dismiss")
  /\ dialog # NoDialog
  /\ dialog' = NoDialog
  /\ session' = NothingHeld
  /\ UNCHANGED <<jobs, made, quitWhenIdle, quit, direct, stopped, cmds, stopping, cancels>>

\* `ctrl-c`, or the drawer on a running job: the running job is cancelled and
\* what waits behind it is dropped.  A connection that is open is asked to stop.
\* The queue is dropped, and a fault: only its jobs are.
DroppedJobs(ss) == ss
Dropped(ss) == [ss EXCEPT !.queue = <<>>]

QueuedIds(ss) == {ss.queue[i].job : i \in DOMAIN ss.queue}
Asked(s) == {[session |-> s, job |-> session[s].inFlight.job]}

CancelRunning(s) ==
  LET ss == session[s]
      job == ss.inFlight.job
  IN  /\ Acts("Cancel", s)
      /\ job \in Running(jobs)
      /\ jobs' = RemoveQueued(Cancel(jobs, job), QueuedIds(ss))
      /\ session' = [session EXCEPT ![s] = Dropped(ss)]
      /\ cancels' = IF conn[s].open THEN cancels \cup Asked(s) ELSE cancels
      /\ stopped' = stopped \cup {job}
      /\ UNCHANGED <<made, dialog, quitWhenIdle, quit, direct, cmds, stopping>>

\* What waits, without the statement of job id: `retain`.
Without(queue, id) ==
  LET places == {i \in DOMAIN queue : queue[i].job = id}
  IN  IF places = {} THEN queue ELSE RemoveAt(queue, CHOOSE i \in places : TRUE)

\* The drawer on a waiting job: it is dropped, never sent.
DropQueued(s) ==
  /\ Acts("Cancel", s)
  /\ \E id \in Queued(jobs) \cap JobsOf(jobs, s) :
       /\ session' = [session EXCEPT ![s].queue = Without(@, id)]
       /\ jobs' = Cancel(jobs, id)
  /\ UNCHANGED <<made, dialog, quitWhenIdle, quit, direct, stopped, cmds, stopping, cancels>>

\* Commands that go to the worker past the queue.
SendDirect(s, command) ==
  /\ direct < MaxDirect
  /\ direct' = direct + 1
  /\ Deliver(To(s, <<command>>))

ToggleAutocommit(s) ==
  /\ Acts("ToggleAutocommit", s)
  /\ IsOpen(session[s])
  /\ SendDirect(s, Direct("SetAutocommit", ~session[s].autocommit))
  /\ UNCHANGED <<session, jobs, made, dialog, quitWhenIdle, quit, stopped, cancels>>

LoadSchema(s) ==
  /\ Acts("LoadSchema", s)
  /\ SendDirect(s, Direct("LoadSchema", FALSE))
  /\ UNCHANGED <<session, jobs, made, dialog, quitWhenIdle, quit, stopped, cancels>>

\* The rows in hand go to a file: no job.
ExportFetched(s) ==
  /\ Acts("Export", s)
  /\ session[s].tabs # <<>>
  /\ SendDirect(s, Direct("ExportFetched", FALSE))
  /\ UNCHANGED <<session, jobs, made, dialog, quitWhenIdle, quit, stopped, cancels>>

-----------------------------------------------------------------------------
(* Sessions come and go. *)

\* A session connects again, to its record as it is now: `retarget`.
Reconnect(s) ==
  /\ Acts("Reconnect", s)
  /\ \E prod \in BOOLEAN :
       /\ session' = [session EXCEPT ![s] =
            [@ EXCEPT !.status = "connecting", !.prod = prod, !.inTx = FALSE,
                      !.autocommit = TRUE, !.cursor = 0, !.cursorKept = FALSE]]
       /\ SendDirect(s, Direct("Connect", prod))
  /\ UNCHANGED <<jobs, made, dialog, quitWhenIdle, quit, stopped, cancels>>

\* Ids grow: the next one is the least never used.
Unused == {s \in Sessions : session[s].status = "unused"}
NextId(s) == s \in Unused /\ \A t \in Unused : s <= t

OpenSession(s) ==
  /\ User("Open")
  /\ dialog = NoDialog
  /\ NextId(s)
  /\ \E prod \in BOOLEAN :
       /\ session' = [session EXCEPT ![s] = Fresh("connecting", prod)]
       /\ SendDirect(s, Direct("Connect", prod))
  /\ UNCHANGED <<jobs, made, dialog, quitWhenIdle, quit, stopped, cancels>>

\* `close`: the session goes, its jobs end and its worker is let go, to finish
\* what was sent to it.  A running export is stopped.  The last session to go
\* leaves a fresh scratch.
Exporting(ss) == ss.inFlight.how = "export"

Close(s) ==
  /\ jobs' = CloseSession(jobs, s)
  /\ cancels' = IF Exporting(session[s]) /\ conn[s].open THEN cancels \cup Asked(s) ELSE cancels
  /\ IF Live = {s}
       THEN \E new \in Sessions :
              /\ NextId(new)
              /\ session' = [session EXCEPT ![s] = Fresh("closed", FALSE),
                                            ![new] = Fresh("connecting", FALSE)]
              /\ Deliver(To(new, <<Direct("Connect", FALSE)>>))
       ELSE /\ session' = [session EXCEPT ![s] = Fresh("closed", FALSE)]
            /\ UNCHANGED <<cmds, stopping>>
  /\ UNCHANGED <<made, quitWhenIdle, quit, direct, stopped>>

\* A busy session, or one with a transaction open, asks first.
CloseOrConfirm(s) ==
  /\ Acts("Close", s)
  /\ IF Busy(session[s]) \/ TxOpen(session[s])
       THEN /\ dialog' = Confirm("CloseSession", {s})
            /\ UNCHANGED <<session, jobs, made, quitWhenIdle, quit, direct, stopped,
                           cmds, stopping, cancels>>
       ELSE /\ dialog' = NoDialog
            /\ Close(s)

CloseConfirmed(s) ==
  /\ User("Close")
  /\ dialog = Confirm("CloseSession", {s})
  /\ dialog' = NoDialog
  /\ Close(s)

-----------------------------------------------------------------------------
(* Quitting. *)

InTransaction == {s \in Live : TxOpen(session[s]) /\ IsOpen(session[s])}

\* `ctrl-q`, which a confirm does not take: with a transaction open it asks.
Quit ==
  /\ User("Quit")
  /\ IF InTransaction = {}
       THEN quit' = TRUE /\ UNCHANGED dialog
       ELSE dialog' = Confirm("Quit", InTransaction) /\ UNCHANGED quit
  /\ UNCHANGED <<session, jobs, made, quitWhenIdle, direct, stopped, cmds, stopping, cancels>>

\* Each of them rolls back, oldest session first, and the app quits once all
\* sessions are idle.
Rollback(s) == [Wanted("commit", "query", 0) EXCEPT
  !.job = JobId(Cardinality({t \in dialog.who : t <= s}))]

RollingBack(s) ==
  [session[s] EXCEPT !.held = <<>>, !.cursor = 0, !.queue = Behind(@, <<Rollback(s)>>)]

QuitRollingBack ==
  /\ User("Quit")
  /\ dialog.kind = "Quit"
  /\ made + Cardinality(dialog.who) <= MaxJobs
  /\ made' = made + Cardinality(dialog.who)
  /\ session' = [s \in Sessions |-> IF s \in dialog.who THEN Pumped(RollingBack(s))
                                                        ELSE NothingHeld[s]]
  /\ jobs' = [id \in DOMAIN jobs \cup {Rollback(s).job : s \in dialog.who} |->
                IF id \in DOMAIN jobs THEN jobs[id]
                ELSE LET s == CHOOSE t \in dialog.who : Rollback(t).job = id
                     IN  [session |-> s, kind |-> "Query",
                          state |-> IF Sends(RollingBack(s)) THEN "running" ELSE "queued"]]
  /\ Deliver([s \in Sessions |-> IF s \in dialog.who THEN Sent(RollingBack(s)) ELSE <<>>])
  /\ quitWhenIdle' = TRUE
  /\ dialog' = NoDialog
  /\ UNCHANGED <<quit, direct, stopped, cancels>>

-----------------------------------------------------------------------------
(* The answers of a session's worker, in order. *)

NewTab(ss, job, sql, rows, truncated, stops) ==
  LET tab == [number |-> ss.tabsMade + 1, job |-> job, sql |-> sql, rows |-> rows,
              truncated |-> truncated, stopped |-> stops]
      tabs == Append(ss.tabs, tab)
  IN  [ss EXCEPT !.tabsMade = @ + 1,
                 !.tabs = IF Len(tabs) > MaxTabs THEN Tail(tabs) ELSE tabs]

\* `saturating_sub`.
Less(n) == IF n > 0 THEN n - 1 ELSE 0
Rest(seq) == IF seq = <<>> THEN seq ELSE Tail(seq)

\* What every ending does first: one less runs, and nothing is in flight.
Ended(ss) == [ss EXCEPT !.running = Less(@), !.txChanges = Rest(@), !.inFlight = NoItem]

\* ... and one that succeeded did what it does to the transaction.  A fault: not
\* for one that was cancelled.
SucceededUnlessCancelled(ss) ==
  IF IsCancelled(jobs, ss.inFlight.job) \/ ss.txChanges \in {<<>>, <<"none">>} THEN Ended(ss)
  ELSE [Ended(ss) EXCEPT !.inTx = Head(ss.txChanges) = "begins"]
Succeeded(ss) ==
  LET change == IF ss.txChanges = <<>> THEN "none" ELSE Head(ss.txChanges)
  IN  [Ended(ss) EXCEPT !.inTx = CASE change = "begins" -> TRUE
                                   [] change = "ends"   -> FALSE
                                   [] OTHER             -> @]

\* The answer to a statement that was cancelled shows nothing: the next is sent.
\* Faults: it is shown; nothing is sent.
NeverCancelled(s) == FALSE
WasCancelled(s) == IsCancelled(jobs, session[s].inFlight.job)

SkipStuck(s, ended) == Only(s, ended)
Skip(s, ended) == Pump(s, ended, jobs)

\* `done`: a new tab, which can load on if the stream was kept.
Done(s, answer) ==
  LET ss == session[s]
      item == ss.inFlight
      ended == [Succeeded(ss) EXCEPT !.cursorKept = FALSE]
      shown == NewTab(ended, item.job, item.sql, answer.rows, answer.more, FALSE)
  IN  IF WasCancelled(s)
        THEN Skip(s, ended)
        ELSE Pump(s, [shown EXCEPT !.cursor = IF ss.cursorKept /\ answer.more
                                                THEN shown.tabsMade ELSE @],
                  Finish(jobs, item.job))

\* `stopped` and `failed`: a tab with the rows that came, if any, and the rest
\* of the queue is dropped.
Failed(s, answer) ==
  LET ss == session[s]
      item == ss.inFlight
      ended == [Ended(ss) EXCEPT !.cursorKept = FALSE]
      shown == NewTab(ended, item.job, item.sql, answer.rows, FALSE, TRUE)
      failed == Fail(jobs, item.job)
  IN  IF WasCancelled(s) THEN Skip(s, ended)
      ELSE IF KeepGoing THEN Pump(s, shown, failed)
      ELSE Pump(s, Dropped(shown), RemoveQueued(failed, QueuedIds(ss)))

\* No tab can load on, and a fault: the one that could still can.
Placed(ss) == ss
Placeless(ss) == [ss EXCEPT !.cursor = 0]

\* `more_rows`: at the end of their tab's rows, if it is still there.
Extended(tab, answer) ==
  [tab EXCEPT !.rows = @ \o answer.rows, !.truncated = answer.more, !.stopped = @ \/ ~answer.ok]

MoreRows(s, answer) ==
  LET ss == session[s]
      item == ss.inFlight
      ended == IF answer.more THEN Ended(ss) ELSE Placeless(Ended(ss))
  IN  IF item.how # "more" THEN Only(s, ss)
      ELSE IF WasCancelled(s) THEN Skip(s, Placeless(ended))
      ELSE Pump(s, [ended EXCEPT !.tabs = [i \in DOMAIN @ |->
                      IF @[i].number = item.tab THEN Extended(@[i], answer) ELSE @[i]]],
                IF answer.ok THEN Finish(jobs, item.job) ELSE Fail(jobs, item.job))

\* `job_ended`: only the export the session runs.
ExportEnded(s, answer) ==
  LET ss == session[s]
      ended == IF answer.ok THEN Succeeded(ss) ELSE Ended(ss)
  IN  IF answer.job = NoJob \/ ss.inFlight.job # answer.job THEN Only(s, ss)
      ELSE Pump(s, ended,
                IF WasCancelled(s) THEN jobs
                ELSE IF answer.ok THEN Finish(jobs, answer.job) ELSE Fail(jobs, answer.job))

\* What an answer does to the session alone.
Told(ss, answer) ==
  CASE answer.type = "Connected"     -> [ss EXCEPT !.status = "open", !.inTx = FALSE,
                                           !.autocommit = TRUE, !.cursor = 0,
                                           !.cursorKept = FALSE]
    [] answer.type = "ConnectFailed" -> [ss EXCEPT !.status = "failed"]
    [] answer.type = "CursorKept"    -> [ss EXCEPT !.cursorKept = TRUE]
    [] answer.type = "CursorClosed"  -> Placeless(ss)
    [] answer.type = "Autocommit" /\ answer.ok ->
                                        [ss EXCEPT !.autocommit = answer.more, !.inTx = FALSE]
    [] OTHER                         -> ss

\* The answers of a session that was closed are dropped.
Hear(s) ==
  /\ ~quit
  /\ answers[s] # <<>>
  /\ answers' = [answers EXCEPT ![s] = Tail(@)]
  /\ LET answer == Head(answers[s])
     IN  IF s \notin Live THEN Only(s, session[s])
         ELSE CASE answer.type = "QueryDone" -> Done(s, answer)
                [] answer.type \in {"QueryStopped", "QueryFailed"} -> Failed(s, answer)
                [] answer.type = "MoreRows" -> MoreRows(s, answer)
                [] answer.type \in {"Exported", "ExportFailed"} -> ExportEnded(s, answer)
                [] OTHER -> Only(s, Told(session[s], answer))
  /\ UNCHANGED <<current, early, stream, conn, alive, cancels,
                 made, dialog, quitWhenIdle, direct, stopped>>

\* A command could not reach the worker: it is forgotten with all it ran.  A
\* fault: what it ran is not.
GivenUpHalf(ss) == [ss EXCEPT !.status = "failed", !.running = 0, !.txChanges = <<>>]
GivenUp(ss) ==
  [ss EXCEPT !.status = "failed", !.running = 0, !.txChanges = <<>>, !.inTx = FALSE,
             !.queue = <<>>, !.inFlight = NoItem, !.cursor = 0, !.cursorKept = FALSE]

WorkerStopped(s) ==
  /\ ~quit
  /\ stopping[s]
  /\ stopping' = [stopping EXCEPT ![s] = FALSE]
  /\ session' = IF s \in Live THEN [session EXCEPT ![s] = GivenUp(@)] ELSE session
  /\ jobs' = IF s \in Live THEN CloseSession(jobs, s) ELSE jobs
  /\ UNCHANGED <<cmds, current, early, stream, conn, alive, answers, cancels,
                 made, dialog, quitWhenIdle, quit, direct, stopped>>

-----------------------------------------------------------------------------
(* The whole. *)

Init ==
  /\ WorkerInit(FirstOpen, FirstProd)
  /\ session = [s \in Sessions |-> IF s \in FirstOpen THEN Fresh("open", s \in FirstProd)
                                                      ELSE Fresh("unused", FALSE)]
  /\ jobs = NoJobs
  /\ made = 0
  /\ dialog = NoDialog
  /\ quitWhenIdle = FALSE /\ quit = FALSE
  /\ direct = 0
  /\ stopped = {}

Work(s) == ~quit /\ (Take(s) \/ EndCommand(s) \/ Die(s)) /\ UNCHANGED appVars
CancelArrives == ~quit /\ (\E cancel \in cancels : CancelFires(cancel)) /\ UNCHANGED appVars

UserActs(s) ==
  \/ Run(s) \/ LoadMore(s) \/ AskToFetchAll(s) \/ FetchAll(s) \/ ExportAll(s) \/ Release(s)
  \/ CancelRunning(s) \/ DropQueued(s)
  \/ ToggleAutocommit(s) \/ LoadSchema(s) \/ ExportFetched(s)
  \/ Reconnect(s) \/ OpenSession(s) \/ CloseOrConfirm(s) \/ CloseConfirmed(s)

Next ==
  \/ \E s \in Sessions : UserActs(s) \/ Hear(s) \/ WorkerStopped(s) \/ Work(s)
  \/ CancelArrives
  \/ Dismiss \/ Quit \/ QuitRollingBack

Spec == Init /\ [][Next]_vars

\* The server answers every statement in the end, the runtime starts a task
\* that has a command, and the event loop takes from its channels in turn.
\* The user and the cancels owe nothing.
FairSpec ==
  /\ Spec
  /\ \A s \in Sessions :
       /\ WF_vars(~quit /\ (Take(s) \/ EndCommand(s)) /\ UNCHANGED appVars)
       /\ WF_vars(Hear(s))
       /\ WF_vars(WorkerStopped(s))

-----------------------------------------------------------------------------
(* What must hold. *)

SessionState ==
  [status : {"unused", "connecting", "open", "failed", "closed"},
   prod : BOOLEAN, confirmed : BOOLEAN, queue : Seq(Item),
   inFlight : Item \cup {NoItem}, running : Nat, txChanges : Seq({"begins", "ends", "none"}),
   inTx : BOOLEAN, autocommit : BOOLEAN, cursor : Nat, cursorKept : BOOLEAN,
   tabs : Seq(Tab), tabsMade : Nat, held : Seq(Item)]

Dialogs == [kind : {"none", "RunOnProd", "FetchAll", "CloseSession", "Quit"},
            who : SUBSET Sessions]

\* Every variable of the app's side is what the code declares it to be.
TypeOK ==
  /\ session \in [Sessions -> SessionState]
  /\ DOMAIN jobs \subseteq 1..made /\ \A id \in DOMAIN jobs : jobs[id] \in Job
  /\ made \in Nat
  /\ dialog \in Dialogs
  /\ quitWhenIdle \in BOOLEAN /\ quit \in BOOLEAN
  /\ direct \in Nat
  /\ stopped \subseteq 1..made

\* The statements session s has sent and heard no answer to, and how far each
\* has come.
Ending == {"QueryDone", "QueryStopped", "QueryFailed", "MoreRows", "Exported", "ExportFailed"}
Answered(s) == {i \in DOMAIN answers[s] : answers[s][i].type \in Ending /\ answers[s][i].job # NoJob}
Awaiting(s) == {i \in DOMAIN cmds[s] : cmds[s][i].type \in StatementTypes}
Outstanding(s) ==
  {[at |-> "answers", n |-> i, job |-> answers[s][i].job] : i \in Answered(s)}
  \cup {[at |-> "current", n |-> 1, job |-> c.job] : c \in {c \in {current[s]} : c.type \in StatementTypes}}
  \cup {[at |-> "cmds", n |-> i, job |-> cmds[s][i].job] : i \in Awaiting(s)}

\* A session sends its next statement only when the last one answered, so the
\* one it has in flight is the only one outstanding on the channels, and
\* `running` and `tx_changes` count just that one.  (A worker that died lost its
\* channels.)
OneOutstanding ==
  \A s \in Live : alive[s] =>
    LET ss == session[s]
    IN  IF ss.inFlight = NoItem
          THEN Outstanding(s) = {} /\ ss.running = 0 /\ ss.txChanges = <<>>
          ELSE /\ \E one \in Outstanding(s) : Outstanding(s) = {one} /\ one.job = ss.inFlight.job
               /\ ss.running = 1 /\ ss.txChanges = <<ChangeOf(ss.inFlight)>>

\* The jobs drawer agrees with the sessions: a queued job waits in its
\* session's queue, in the order the queue will send, behind what is in
\* flight; a running one is in flight; a closed session has no open job.
Ascending(seq) == \A i, j \in DOMAIN seq : i < j => seq[i].job < seq[j].job
DrawerAgrees ==
  \A s \in Sessions :
    LET ss == session[s]
    IN  /\ Queued(jobs) \cap JobsOf(jobs, s) = QueuedIds(ss)
        /\ Running(jobs) \cap JobsOf(jobs, s) = {ss.inFlight.job} \ (stopped \cup {NoJob})
        /\ Ascending(<<ss.inFlight>> \o ss.queue)

\* What the worker is given is running in the drawer: a statement dropped
\* while it waited, by the user, by a cancel or by a failure, is never sent.
SentAreRunning ==
  [][\A s \in Sessions :
       \A i \in (DOMAIN cmds'[s]) \ (DOMAIN cmds[s]) :
         cmds'[s][i].type \in StatementTypes => cmds'[s][i].job \in Running(jobs')]_vars

\* A tab shows its own statement's rows, from the first on, without a gap.
TabsShowTheirOwnRows ==
  \A s \in Live : \A i \in DOMAIN session[s].tabs :
    LET tab == session[s].tabs[i]
    IN  tab.rows = RowsOf(tab.job, 0, Len(tab.rows))

\* Nothing is on its way between session s and its worker.
Quiet(s) == s \in Live /\ cmds[s] = <<>> /\ current[s] = NoCommand /\ answers[s] = <<>>

\* A tab that offers to load on has its stream: the worker keeps the one that
\* stands right after the tab's last row.
OfferedStreamIsKept ==
  \A s \in Sessions : Quiet(s) =>
    \A i \in DOMAIN session[s].tabs :
      LET tab == session[s].tabs[i]
      IN  tab.number = session[s].cursor =>
            tab.truncated /\ stream[s] = [job |-> tab.job, read |-> Len(tab.rows)]

\* A transaction the server holds open is shown, and so asked about before the
\* session closes or the app quits.
OpenTransactionIsShown ==
  \A s \in Sessions :
    Quiet(s) /\ IsOpen(session[s]) /\ conn[s].tx => TxOpen(session[s])

\* A connection labelled prod runs no write before one was confirmed.
ProdWritesAreConfirmed ==
  \A s \in Live :
    /\ conn[s].prod /\ ConfirmWrites
    /\ current[s].type \in {"Query", "QueryAll"} /\ ~ReadOnly(current[s].sql)
    => session[s].confirmed

\* Statements are held only while the confirm that holds them can still be
\* answered, or the quit confirm that replaced it.
HeldAwaitAConfirm ==
  \A s \in Live : session[s].held # <<>> => dialog.kind = "Quit" \/ dialog = Confirm("RunOnProd", {s})

\* Every job ends, unless the app quits first.
Open(id) == id \in Queued(jobs) \cup Running(jobs)
EveryJobEnds == \A id \in 1..MaxJobs : Open(id) ~> (~Open(id) \/ quit)

\* Once quitting waits on the sessions being idle, the app quits.
QuitsOnceIdle == quitWhenIdle ~> quit
=============================================================================
