------------------------------ MODULE RowStream ------------------------------
(***************************************************************************)
(* How a statement's rows are read: all at once, up to a limit, or as a    *)
(* stream of batches that stops at the limit and is read on later          *)
(* (qry-core/shared.rs, postgres.rs, mysql.rs, sqlite.rs and oracle.rs;    *)
(* the worker's Cursor in qry/src/db.rs).  A row is its number.            *)
(***************************************************************************)
EXTENDS Naturals, Sequences, SequencesExt

CONSTANTS
  Backends,       \* "postgres", "mysql" (and MariaDB), "sqlite", "oracle"
  MostRows,       \* bound: of a statement
  FetchSizes,     \* bound: rows to a batch; zero is taken as one
  Limits          \* bound: rows to an answer; zero is no limit

ASSUME RowStreamAssumption ==
  /\ MostRows \in Nat /\ FetchSizes \subseteq Nat /\ Limits \subseteq Nat
  /\ Backends \subseteq {"postgres", "mysql", "sqlite", "oracle"}

VARIABLES
  source,   \* [backend, rows, fails, size, limit]: the statement and how it is read
  stream,   \* what its task still sends, then how it ends
  channel,  \* at most one item on its way
  cursor,   \* the Cursor: what it carries, and the read it is doing
  answers   \* ghost: what each read gave, in order
streamVars == <<source, stream, channel, cursor, answers>>

Smaller(a, b) == IF a < b THEN a ELSE b
Rows(from, to) == [i \in 1..(to + 1 - from) |-> from + i - 1]

-----------------------------------------------------------------------------
(* Reading all at once: the rows kept, whether there were more, and what the *)
(* statement is said to have affected.                                       *)

KeptRows(n, limit) == IF limit = 0 THEN n ELSE Smaller(n, limit)
Cut(n, limit) == limit > 0 /\ n > limit

\* The count comes after the last row, so a cut result has none.
LimitedPostgres(n, limit) ==
  [rows |-> Rows(1, KeptRows(n, limit)), truncated |-> Cut(n, limit),
   affected |-> IF Cut(n, limit) THEN 0 ELSE n]
LimitedMysql(n, limit) ==
  [rows |-> Rows(1, KeptRows(n, limit)), truncated |-> Cut(n, limit), affected |-> 0]
LimitedSqlite(n, limit) ==
  [rows |-> Rows(1, KeptRows(n, limit)), truncated |-> Cut(n, limit), affected |-> KeptRows(n, limit)]
LimitedOracle(n, limit) ==
  [rows |-> Rows(1, KeptRows(n, limit)), truncated |-> Cut(n, limit), affected |-> KeptRows(n, limit)]

Limited(backend, n, limit) ==
  CASE backend = "postgres" -> LimitedPostgres(n, limit)
    [] backend = "mysql"    -> LimitedMysql(n, limit)
    [] backend = "sqlite"   -> LimitedSqlite(n, limit)
    [] backend = "oracle"   -> LimitedOracle(n, limit)

-----------------------------------------------------------------------------
(* What a backend streams when n rows come, and then its end or an error.  *)

Columns == <<"columns">>
Batch(rows) == <<"rows", rows>>

Full(n, size) == [i \in 1..(n \div size) |-> Batch(Rows((i - 1) * size + 1, i * size))]

\* A fault: the rows that do not fill a batch are not sent.
NoRest(n, size) == <<>>

Rest(n, size) == IF n % size = 0 THEN <<>> ELSE <<Batch(Rows((n \div size) * size + 1, n))>>

\* The columns go with the first row, or at the end if there was none.
StreamPostgres(n, size, fails) ==
  (IF n > 0 \/ ~fails THEN <<Columns>> ELSE <<>>)
    \o Full(n, size) \o (IF fails THEN <<>> ELSE Rest(n, size))

\* Columns, batches as they fill, and the rest.
StreamMysql(n, size, fails) ==
  <<Columns>> \o Full(n, size) \o (IF fails THEN <<>> ELSE Rest(n, size))

\* The columns are typed by the first batch, so they wait for it.
StreamSqlite(n, size, fails) ==
  (IF n >= size \/ ~fails THEN <<Columns>> ELSE <<>>)
    \o Full(n, size) \o (IF fails THEN <<>> ELSE Rest(n, size))

StreamOracle(n, size, fails) ==
  <<Columns>> \o Full(n, size) \o (IF fails THEN <<>> ELSE Rest(n, size))

Streamed(s) ==
  LET size == IF s.size = 0 THEN 1 ELSE s.size
  IN  CASE s.backend = "postgres" -> StreamPostgres(s.rows, size, s.fails)
        [] s.backend = "mysql"    -> StreamMysql(s.rows, size, s.fails)
        [] s.backend = "sqlite"   -> StreamSqlite(s.rows, size, s.fails)
        [] s.backend = "oracle"   -> StreamOracle(s.rows, size, s.fails)

-----------------------------------------------------------------------------
(* The Cursor *)

StreamInit ==
  /\ source \in [backend : Backends, rows : 0..MostRows, fails : BOOLEAN,
                 size : FetchSizes, limit : Limits]
  /\ stream = Streamed(source)
  /\ channel = <<>>
  /\ cursor = [phase |-> "reads", carry |-> <<>>, rows |-> <<>>, columns |-> FALSE]
  /\ answers = <<>>

\* The stream's task sends when there is room.
SendItem ==
  /\ stream # <<>> /\ channel = <<>>
  /\ channel' = <<Head(stream)>> /\ stream' = Tail(stream)
  /\ UNCHANGED <<source, cursor, answers>>

Answered(rows, carry, more, error) ==
  /\ answers' = Append(answers, [rows |-> rows, more |-> more, error |-> error])
  /\ cursor' = [cursor EXCEPT !.phase = IF more THEN "kept" ELSE "ended", !.carry = carry, !.rows = <<>>]

Enough(rows) == source.limit > 0 /\ Len(rows) >= source.limit

\* A fault: rows past the limit are not kept for the next answer.
PastLost(rows, limit) == <<>>

PastLimit(rows, limit) == SubSeq(rows, limit + 1, Len(rows))

\* The next item of a read that has not enough rows yet.
Receive ==
  /\ cursor.phase = "reads" /\ ~Enough(cursor.rows) /\ channel # <<>>
  /\ channel' = <<>>
  /\ cursor' = IF channel[1] = Columns THEN [cursor EXCEPT !.columns = TRUE]
               ELSE [cursor EXCEPT !.rows = @ \o channel[1][2]]
  /\ UNCHANGED <<source, stream, answers>>

Ended == stream = <<>> /\ channel = <<>>

\* The stream ended before the limit.
ReadToTheEnd ==
  /\ cursor.phase = "reads" /\ ~Enough(cursor.rows) /\ Ended
  /\ Answered(cursor.rows, <<>>, FALSE, source.fails)
  /\ UNCHANGED <<source, stream, channel>>

\* Enough rows: those past the limit wait for the next read, and show that there
\* are more; without any it looks one batch further.
AtTheLimit ==
  /\ cursor.phase = "reads" /\ Enough(cursor.rows)
  /\ LET rows == SubSeq(cursor.rows, 1, source.limit)
         past == PastLimit(cursor.rows, source.limit)
     IN  IF past # <<>> THEN Answered(rows, past, TRUE, FALSE)
         ELSE /\ cursor' = [cursor EXCEPT !.phase = "looks", !.rows = rows]
              /\ answers' = answers
  /\ UNCHANGED <<source, stream, channel>>

LooksFurther ==
  /\ cursor.phase = "looks"
  /\ \/ /\ channel # <<>> /\ channel' = <<>>
        /\ IF channel[1] = Columns
           THEN cursor' = [cursor EXCEPT !.columns = TRUE] /\ answers' = answers
           ELSE Answered(cursor.rows, channel[1][2], TRUE, FALSE)
     \/ /\ Ended /\ channel' = channel
        /\ Answered(cursor.rows, <<>>, FALSE, source.fails)
  /\ UNCHANGED <<source, stream>>

\* `L`: the next rows, those that were carried over first.
FetchMore ==
  /\ cursor.phase = "kept"
  /\ cursor' = [cursor EXCEPT !.phase = "reads", !.rows = cursor.carry, !.carry = <<>>]
  /\ UNCHANGED <<source, stream, channel, answers>>

\* A command needs the connection: the reader goes, and the task with it.
CloseStream ==
  /\ cursor.phase = "kept"
  /\ cursor' = [cursor EXCEPT !.phase = "closed", !.carry = <<>>]
  /\ stream' = <<>> /\ channel' = <<>>
  /\ UNCHANGED <<source, answers>>

StreamNext ==
  \/ SendItem \/ Receive \/ ReadToTheEnd \/ AtTheLimit \/ LooksFurther \/ FetchMore \/ CloseStream

StreamSpec == StreamInit /\ [][StreamNext]_streamVars

-----------------------------------------------------------------------------
(* Properties *)

\* What the i-th answer goes on after: the last row of the one before.
Before(given, i) == IF i = 1 THEN 0 ELSE Last(given[i - 1].rows)

\* However the limit and the batches fall, the answers hold the rows in order, each
\* once; every answer but the last is as long as the limit, and none is empty that
\* says there is more before it; the last says so and holds the last row, or that the
\* statement failed.  The first holds what the same statement read at once would.
ReadsAreWhole ==
  LET goesTo(i) == Before(answers, i) + Len(answers[i].rows)
      last == answers[Len(answers)]
  IN  /\ \A i \in DOMAIN answers :
           /\ answers[i].rows = Rows(Before(answers, i) + 1, goesTo(i))
           /\ answers[i].more => source.limit > 0 /\ Len(answers[i].rows) = source.limit
           /\ i > 1 => answers[i - 1].more /\ answers[i].rows # <<>>
      /\ answers # <<>> /\ ~last.more /\ ~last.error => goesTo(Len(answers)) = source.rows
      /\ answers # <<>> /\ ~source.fails =>
           LET at_once == Limited(source.backend, source.rows, source.limit)
           IN  answers[1].rows = at_once.rows /\ answers[1].more = at_once.truncated
      /\ cursor.phase = "ended" => cursor.columns \/ source.fails

=============================================================================
