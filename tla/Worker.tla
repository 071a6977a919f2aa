------------------------------- MODULE Worker -------------------------------
(***************************************************************************)
(* The database workers (crates/qry/src/db.rs) and the channels to and     *)
(* from them (sessions.rs, runtime.rs): each session has one task that     *)
(* takes commands from an unbounded channel, one at a time, and sends the  *)
(* answers of a command when all of it is done.                            *)
(*                                                                         *)
(* A statement is one of four kinds, told apart by what the code asks of   *)
(* its text; a row is the job of the statement that read it and its place  *)
(* in that statement's stream.  The servers are Postgres and SQLite, which *)
(* stream reads and on which qry begins again after each end of a          *)
(* transaction with autocommit off.  Progress answers, which only move a   *)
(* row count, are left out.                                                *)
(***************************************************************************)
EXTENDS Naturals, Sequences

CONSTANTS
  Sessions,   \* session ids
  MaxRows,    \* most rows a query keeps (config max_rows)
  MaxStream,  \* bound: most rows a statement gives
  Panics      \* whether a worker task may die of a panic

ASSUME WorkerAssumption ==
  /\ MaxRows \in Nat \ {0}
  /\ MaxStream \in Nat
  /\ Panics \in BOOLEAN

VARIABLES
  cmds,     \* per session: the commands sent and not taken, oldest first
  current,  \* per session: the command being run
  early,    \* per session: what that command will answer first
  stream,   \* per session: the kept cursor
  conn,     \* per session: the open connection, on both its ends
  alive,    \* per session: whether its worker still runs
  answers,  \* per session: the answers sent and not handled, oldest first
  stopping, \* per session: a WorkerStopped event waits
  cancels   \* the cancels asked for and not carried out yet

workerVars == <<cmds, current, early, stream, conn, alive, answers, stopping, cancels>>

-----------------------------------------------------------------------------
(* Statements, commands and answers. *)

\* A commit stands for a rollback too: either ends the transaction.
Statements == {"select", "update", "begin", "commit"}

\* `is_read_only`: transaction control writes nothing by itself.
ReadOnly(sql) == sql # "update"

\* `streams`: what returns rows and changes nothing is streamed.
Streams(sql) == sql = "select"

\* `tx_change`: what a statement does to the transaction.
TxChange(sql) == CASE sql = "begin"  -> "begins"
                   [] sql = "commit" -> "ends"
                   [] OTHER          -> "none"

NoJob == 0

CommandTypes == {"Query", "QueryAll", "FetchMore", "Export",
                 "ExportFetched", "SetAutocommit", "LoadSchema", "Connect"}
StatementTypes == {"Query", "QueryAll", "FetchMore", "Export"}

\* `job` is the statement a command was sent for, which only exports carry in
\* the code; `on` is the argument of SetAutocommit, and of Connect whether the
\* record is of a prod server.
Command == [type : CommandTypes, sql : Statements, job : Nat, on : BOOLEAN]

Statement(type, sql, job) == [type |-> type, sql |-> sql, job |-> job, on |-> FALSE]
Direct(type, on) == [type |-> type, sql |-> "select", job |-> NoJob, on |-> on]

NoCommand == Direct("none", FALSE)

Answer(type) == [type |-> type, job |-> NoJob, rows |-> <<>>, more |-> FALSE, ok |-> TRUE]
RowsAnswer(type, job, rows, more, ok) ==
  [type |-> type, job |-> job, rows |-> rows, more |-> more, ok |-> ok]

\* The rows of job's stream after the first `from`, up to the `to`-th.
RowsOf(job, from, to) == [i \in 1..(to - from) |-> <<job, from + i>>]

NoStream == [job |-> NoJob, read |-> 0]
NoConnection == [open |-> FALSE, prod |-> FALSE, tx |-> FALSE, manual |-> FALSE]

-----------------------------------------------------------------------------
(* Both ends of the channels. *)

\* The reducer's commands reach a live worker; for one that is gone the
\* runtime queues a WorkerStopped event, on a channel of its own.
Deliver(out) ==
  /\ cmds' = [s \in Sessions |-> IF alive[s] THEN cmds[s] \o out[s] ELSE cmds[s]]
  /\ stopping' = [s \in Sessions |-> stopping[s] \/ (~alive[s] /\ out[s] # <<>>)]

\* The worker takes its next command.  All but FetchMore and an export of
\* rows in hand close the kept stream first; that is answered with the rest.
ClosesStream(command) == command.type \notin {"FetchMore", "ExportFetched"}

Take(s) ==
  /\ alive[s]
  /\ current[s] = NoCommand
  /\ cmds[s] # <<>>
  /\ LET command == Head(cmds[s])
         closes == ClosesStream(command) /\ stream[s] # NoStream
     IN  /\ current' = [current EXCEPT ![s] = command]
         /\ stream' = [stream EXCEPT ![s] = IF closes THEN NoStream ELSE @]
         /\ early' = [early EXCEPT ![s] = IF closes THEN <<Answer("CursorClosed")>> ELSE <<>>]
  /\ cmds' = [cmds EXCEPT ![s] = Tail(@)]
  /\ UNCHANGED <<conn, alive, answers, stopping, cancels>>

\* A command ends: its answers are sent together.
Ends(s, type, last) ==
  /\ current[s].type = type
  /\ answers' = [answers EXCEPT ![s] = @ \o early[s] \o last]
  /\ current' = [current EXCEPT ![s] = NoCommand]
  /\ early' = [early EXCEPT ![s] = <<>>]
  /\ UNCHANGED <<cmds, alive, stopping, cancels>>

-----------------------------------------------------------------------------
(* What each command may come to. *)

\* Where a transaction may stand after a statement succeeds: with autocommit
\* off the next one is begun, which may fail.
TxAfter(c, sql) ==
  CASE TxChange(sql) = "begins" -> {TRUE}
    [] TxChange(sql) = "ends"   -> IF c.manual THEN {TRUE, FALSE} ELSE {FALSE}
    [] OTHER                    -> {c.tx}

\* ... and after it fails: the server may have ended what it could not commit.
TxAfterFailure(c, sql) == IF TxChange(sql) = "ends" THEN {c.tx, FALSE} ELSE {c.tx}

QueryFails(s, type) ==
  /\ Ends(s, type, <<RowsAnswer("QueryFailed", current[s].job, <<>>, FALSE, FALSE)>>)
  /\ \E tx \in TxAfterFailure(conn[s], current[s].sql) : conn' = [conn EXCEPT ![s].tx = tx]
  /\ UNCHANGED stream

QueryExecutes(s, type) ==
  /\ conn[s].open
  /\ ~Streams(current[s].sql)
  /\ Ends(s, type, <<RowsAnswer("QueryDone", current[s].job, <<>>, FALSE, TRUE)>>)
  /\ \E tx \in TxAfter(conn[s], current[s].sql) : conn' = [conn EXCEPT ![s].tx = tx]
  /\ UNCHANGED stream

\* A read ends within the limit, if there is one.
ReadEnds(s, type, limit) ==
  /\ conn[s].open
  /\ Streams(current[s].sql)
  /\ \E n \in 0..limit :
       Ends(s, type, <<RowsAnswer("QueryDone", current[s].job, RowsOf(current[s].job, 0, n), FALSE, TRUE)>>)
  /\ UNCHANGED <<conn, stream>>

\* A read stops at the limit with more rows waiting: its stream is kept.
ReadKept(s) ==
  /\ conn[s].open
  /\ Streams(current[s].sql)
  /\ MaxRows < MaxStream
  /\ LET job == current[s].job
     IN  /\ Ends(s, "Query",
              <<Answer("CursorKept"),
                RowsAnswer("QueryDone", job, RowsOf(job, 0, MaxRows), TRUE, TRUE)>>)
         /\ stream' = [stream EXCEPT ![s] = [job |-> job, read |-> MaxRows]]
  /\ UNCHANGED conn

\* A read fails after some rows: they are kept.
ReadStops(s, type, limit) ==
  /\ conn[s].open
  /\ Streams(current[s].sql)
  /\ \E n \in 1..limit :
       Ends(s, type, <<RowsAnswer("QueryStopped", current[s].job, RowsOf(current[s].job, 0, n), FALSE, FALSE)>>)
  /\ UNCHANGED <<conn, stream>>

\* The next rows of the kept stream, or the error that there is none.  The
\* look-ahead makes sure a kept stream has at least one row more.
ReadOn(s) ==
  /\ LET job == stream[s].job
         from == stream[s].read
         Reads(to, more, ok) == Ends(s, "FetchMore",
           <<RowsAnswer("MoreRows", current[s].job, RowsOf(job, from, to), more, ok)>>)
     IN  \/ /\ stream[s] = NoStream
            /\ Reads(from, FALSE, FALSE)
            /\ UNCHANGED stream
         \/ /\ stream[s] # NoStream
            /\ from + MaxRows < MaxStream
            /\ Reads(from + MaxRows, TRUE, TRUE)
            /\ stream' = [stream EXCEPT ![s].read = from + MaxRows]
         \/ /\ stream[s] # NoStream
            /\ \E n \in 1..MaxRows, ok \in BOOLEAN :
                 from + n <= MaxStream /\ Reads(from + n, FALSE, ok)
            /\ stream' = [stream EXCEPT ![s] = NoStream]
  /\ UNCHANGED conn

\* An export of every row runs the statement again; the file may also be
\* there already.  One of the rows in hand touches no connection.
ExportEnds(s) ==
  /\ \E ok \in BOOLEAN :
       /\ ok => conn[s].open
       /\ Ends(s, "Export",
            <<RowsAnswer(IF ok THEN "Exported" ELSE "ExportFailed", current[s].job, <<>>, FALSE, ok)>>)
  /\ UNCHANGED <<conn, stream>>

ExportFetchedEnds(s) ==
  /\ Ends(s, "ExportFetched", <<Answer("Exported")>>)
  /\ UNCHANGED <<conn, stream>>

\* Off begins a transaction, on commits it; either may fail, and a failed
\* commit may have ended it.
AutocommitEnds(s) ==
  /\ LET on == current[s].on
     IN  \/ /\ conn[s].open
            /\ Ends(s, "SetAutocommit", <<RowsAnswer("Autocommit", NoJob, <<>>, on, TRUE)>>)
            /\ conn' = [conn EXCEPT ![s].manual = ~on, ![s].tx = ~on]
         \/ /\ Ends(s, "SetAutocommit", <<RowsAnswer("Autocommit", NoJob, <<>>, on, FALSE)>>)
            /\ \E tx \in {conn[s].tx, conn[s].tx /\ ~on} : conn' = [conn EXCEPT ![s].tx = tx]
  /\ UNCHANGED stream

SchemaEnds(s) ==
  /\ Ends(s, "LoadSchema", <<Answer("Schema")>>)
  /\ UNCHANGED <<conn, stream>>

\* A new connection replaces the old one once it is open; a failed attempt
\* leaves the old one where it was.
ConnectEnds(s) ==
  /\ \/ /\ Ends(s, "Connect", <<Answer("Connected")>>)
        /\ conn' = [conn EXCEPT ![s] = [open |-> TRUE, prod |-> current[s].on,
                                        tx |-> FALSE, manual |-> FALSE]]
     \/ /\ Ends(s, "Connect", <<Answer("ConnectFailed")>>)
        /\ UNCHANGED conn
  /\ UNCHANGED stream

\* Only reads are fetched again in full.
EndCommand(s) ==
  \/ QueryFails(s, "Query") \/ QueryFails(s, "QueryAll")
  \/ QueryExecutes(s, "Query")
  \/ ReadEnds(s, "Query", MaxRows) \/ ReadEnds(s, "QueryAll", MaxStream)
  \/ ReadKept(s)
  \/ ReadStops(s, "Query", MaxRows) \/ ReadStops(s, "QueryAll", MaxStream)
  \/ ReadOn(s)
  \/ ExportEnds(s) \/ ExportFetchedEnds(s)
  \/ AutocommitEnds(s)
  \/ SchemaEnds(s)
  \/ ConnectEnds(s)

\* The cancel handle stops whatever the connection runs at that moment; what
\* it runs then fails, which it may do at any time anyway.
CancelFires(cancel) ==
  /\ cancels' = cancels \ {cancel}
  /\ UNCHANGED <<cmds, current, early, stream, conn, alive, answers, stopping>>

\* The task panics in a command: the channel and the connection go with it,
\* the answers of that command are never sent.
Die(s) ==
  /\ Panics
  /\ alive[s]
  /\ current[s] # NoCommand
  /\ alive' = [alive EXCEPT ![s] = FALSE]
  /\ cmds' = [cmds EXCEPT ![s] = <<>>]
  /\ current' = [current EXCEPT ![s] = NoCommand]
  /\ early' = [early EXCEPT ![s] = <<>>]
  /\ stream' = [stream EXCEPT ![s] = NoStream]
  /\ conn' = [conn EXCEPT ![s] = NoConnection]
  /\ UNCHANGED <<answers, stopping, cancels>>

WorkerInit(open, prod) ==
  /\ cmds = [s \in Sessions |-> <<>>]
  /\ current = [s \in Sessions |-> NoCommand]
  /\ early = [s \in Sessions |-> <<>>]
  /\ stream = [s \in Sessions |-> NoStream]
  /\ conn = [s \in Sessions |-> [NoConnection EXCEPT !.open = s \in open, !.prod = s \in prod]]
  /\ alive = [s \in Sessions |-> TRUE]
  /\ answers = [s \in Sessions |-> <<>>]
  /\ stopping = [s \in Sessions |-> FALSE]
  /\ cancels = {}
=============================================================================
