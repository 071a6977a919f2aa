----------------------------- MODULE MCQueryRun -----------------------------
(* Instances of QueryRun: what the user runs in each of them. *)
EXTENDS QueryRun

\* A run that may fail before its last statement, a write, and a read.
ReadsAndWrites == {<<"select", "update">>, <<"select">>}

\* What a transaction is made of.
Transactions == {<<"begin">>, <<"commit">>}

\* One statement at a time, which begins a transaction or writes.
BeginsOrWrites == {<<"begin">>, <<"update">>}

\* A transaction begins.
Begins == {<<"begin">>}

OneSession == {1}
TwoSessions == {1, 2}
NoSession == {}

-----------------------------------------------------------------------------
\* The line of a session: what it has in flight, then its queue.
Ids(items) == [i \in DOMAIN items |-> items[i].job]
LineOf(ss) == (IF ss.inFlight = NoItem THEN <<>> ELSE <<ss.inFlight.job>>) \o Ids(ss.queue)

Promise == INSTANCE StatementLine WITH
  asked <- made,
  line <- [s \in Sessions |-> LineOf(session[s])],
  tabs <- [s \in Sessions |-> Ids(session[s].tabs)],
  cancelled <- stopped

\* Queues, registry, channels and workers together run one line of statements
\* per session: each statement is answered once, in turn, and shown only then.
ImplementsLine == Promise!LineSpec
=============================================================================
