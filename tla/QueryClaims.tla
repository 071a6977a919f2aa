---------------------------- MODULE QueryClaims ----------------------------
(***************************************************************************)
(* What a comment, a message or a doc of the repository says of running    *)
(* SQL and the code does not do.  Each has a run of its own that shows the *)
(* shortest way there.                                                     *)
(***************************************************************************)
EXTENDS MCQueryRun

\* Two reads in one run, and one.
Reads == {<<"select">>, <<"select", "select">>}

\* run.rs:238: `L` adds the next rows "from its kept stream".  The answer to
\* the statement before may bring the cursor back while the next one runs, and
\* the read then goes on in that one's stream.
LoadsOnFromItsOwnStream == TabsShowTheirOwnRows

\* run.rs:521: "A cancelled statement that finished anyway: its result is
\* dropped."  What was cancelled is known by its registry entry, and finished
\* jobs of other sessions may have trimmed that before the result comes.
CancelledResultsAreDropped ==
  \A s \in Sessions : \A i \in DOMAIN session[s].tabs :
    session[s].tabs[i].job \notin stopped

\* confirm.rs:185: "Closing the session cancels it", of the query it runs.
\* Only an export is cancelled: a write goes on and takes effect.
ClosedSessionsWriteNothing ==
  [][\A s \in Sessions :
       session[s].status = "closed" /\ current[s].sql = "update" /\ current'[s] = NoCommand =>
         answers'[s][Len(answers'[s])].type = "QueryFailed"]_vars

\* README.md:102: "A connection labelled `prod` asks before the first write of
\* each session."  A write enqueued before the session was pointed at the prod
\* record runs there unasked.
ProdAsksBeforeTheFirstWrite == ProdWritesAreConfirmed

\* run.rs:145: "Quits once every session is idle, if quitting waits on that."
\* Closing the last busy session leaves every session idle and nobody asks.
QuitsWhenEverySessionIsIdle == QuitsOnceIdle
=============================================================================
