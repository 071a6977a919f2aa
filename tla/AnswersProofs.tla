---------------------------- MODULE AnswersProofs ----------------------------
(***************************************************************************)
(* What is asked is answered for: a run on a prod server waits only for    *)
(* the confirm that is open, a session has one statement out at its worker *)
(* at most, wherever the answers stand, and once they are heard it shows   *)
(* the transaction its connection has, for any sessions, runs and          *)
(* operations and any bounds.                                              *)
(***************************************************************************)
EXTENDS QueryRunProofs

-----------------------------------------------------------------------------
(* What an answer does to its session. *)

\* Session ss with its statement ended: what waits is kept or dropped, what is
\* held is kept.
EndsAs(ss, after) ==
  /\ after \in SessionState
  /\ after.inFlight = NoItem /\ after.queue \in {ss.queue, <<>>}
  /\ after.status = ss.status /\ after.held = ss.held
  /\ after.running = Less(ss.running) /\ after.txChanges = Rest(ss.txChanges)

\* ... and with its statement still out.
StaysAs(ss, after) ==
  /\ after \in SessionState
  /\ after.inFlight = ss.inFlight /\ after.queue = ss.queue /\ after.held = ss.held
  /\ after.running = ss.running /\ after.txChanges = ss.txChanges
  /\ after.status \in {ss.status, "open", "failed"}

\* What the code does to a session beside ending its statement leaves that
\* ended.
LEMMA StillEnded ==
  ASSUME NEW ss, NEW a, EndsAs(ss, a)
  PROVE  /\ EndsAs(ss, [a EXCEPT !.cursorKept = FALSE])
         /\ \A cursor \in Nat : EndsAs(ss, [a EXCEPT !.cursor = cursor])
         /\ \A tx \in BOOLEAN : EndsAs(ss, [a EXCEPT !.inTx = tx])
         /\ \A tabs \in Seq(Tab) : EndsAs(ss, [a EXCEPT !.tabs = tabs])
         /\ EndsAs(ss, Dropped(a))
<1>0. a \in SessionState
  BY DEF EndsAs
<1>1. EndsAs(ss, [a EXCEPT !.cursorKept = FALSE])
  <2> DEFINE b == [a EXCEPT !.cursorKept = FALSE]
  <2>1. /\ b \in SessionState /\ b.inFlight = a.inFlight /\ b.queue = a.queue /\ b.status = a.status
        /\ b.held = a.held /\ b.running = a.running /\ b.txChanges = a.txChanges
    BY <1>0 DEF SessionState
  <2> HIDE DEF b
  <2> QED
    BY <2>1 DEF EndsAs, b
<1>2. ASSUME NEW cursor \in Nat PROVE EndsAs(ss, [a EXCEPT !.cursor = cursor])
  <2> DEFINE b == [a EXCEPT !.cursor = cursor]
  <2>1. /\ b \in SessionState /\ b.inFlight = a.inFlight /\ b.queue = a.queue /\ b.status = a.status
        /\ b.held = a.held /\ b.running = a.running /\ b.txChanges = a.txChanges
    BY <1>0 DEF SessionState
  <2> HIDE DEF b
  <2> QED
    BY <2>1 DEF EndsAs, b
<1>3. ASSUME NEW tx \in BOOLEAN PROVE EndsAs(ss, [a EXCEPT !.inTx = tx])
  <2> DEFINE b == [a EXCEPT !.inTx = tx]
  <2>1. /\ b \in SessionState /\ b.inFlight = a.inFlight /\ b.queue = a.queue /\ b.status = a.status
        /\ b.held = a.held /\ b.running = a.running /\ b.txChanges = a.txChanges
    BY <1>0 DEF SessionState
  <2> HIDE DEF b
  <2> QED
    BY <2>1 DEF EndsAs, b
<1>4. ASSUME NEW tabs \in Seq(Tab) PROVE EndsAs(ss, [a EXCEPT !.tabs = tabs])
  <2> DEFINE b == [a EXCEPT !.tabs = tabs]
  <2>1. /\ b \in SessionState /\ b.inFlight = a.inFlight /\ b.queue = a.queue /\ b.status = a.status
        /\ b.held = a.held /\ b.running = a.running /\ b.txChanges = a.txChanges
    BY <1>0 DEF SessionState
  <2> HIDE DEF b
  <2> QED
    BY <2>1 DEF EndsAs, b
<1>5. EndsAs(ss, Dropped(a))
  <2> DEFINE b == Dropped(a)
  <2>1. b \in SessionState
    BY <1>0, EndedTyped
  <2>2. /\ b.inFlight = a.inFlight /\ b.queue = <<>> /\ b.status = a.status
        /\ b.held = a.held /\ b.running = a.running /\ b.txChanges = a.txChanges
    BY <1>0 DEF SessionState, Dropped
  <2> HIDE DEF b
  <2> QED
    BY <2>1, <2>2 DEF EndsAs, b
<1> QED
  BY <1>1, <1>2, <1>3, <1>4, <1>5

\* Every end of a statement is one, and showing its rows too.
LEMMA EndedEnds ==
  ASSUME NEW ss \in SessionState
  PROVE  EndsAs(ss, Ended(ss)) /\ EndsAs(ss, Succeeded(ss))
<1>1. EndsAs(ss, Ended(ss))
  <2>1. Ended(ss) \in SessionState
    BY EndedTyped
  <2>2. /\ Ended(ss).inFlight = NoItem /\ Ended(ss).queue = ss.queue /\ Ended(ss).status = ss.status
        /\ Ended(ss).held = ss.held /\ Ended(ss).running = Less(ss.running)
        /\ Ended(ss).txChanges = Rest(ss.txChanges)
    BY DEF Ended, SessionState
  <2> QED
    BY <2>1, <2>2 DEF EndsAs
<1>2. EndsAs(ss, Succeeded(ss))
  <2> DEFINE change == IF ss.txChanges = <<>> THEN "none" ELSE Head(ss.txChanges)
             ended == Ended(ss)
             tx == CASE change = "begins" -> TRUE [] change = "ends" -> FALSE [] OTHER -> ended.inTx
  <2>1. Succeeded(ss) = [ended EXCEPT !.inTx = tx]
    BY DEF Succeeded
  <2>2. ended.inTx \in BOOLEAN
    BY <1>1 DEF EndsAs, SessionState
  <2>4. EndsAs(ss, ended)
    BY <1>1
  <2> HIDE DEF ended, change
  <2>3. tx \in BOOLEAN
    BY <2>2
  <2> HIDE DEF tx
  <2> QED
    <3>1. \A in \in BOOLEAN : EndsAs(ss, [ended EXCEPT !.inTx = in])
      BY <2>4, StillEnded
    <3>2. EndsAs(ss, [ended EXCEPT !.inTx = tx])
      BY <2>3, <3>1
    <3> QED
      BY <2>1, <3>2
<1> QED
  BY <1>1, <1>2

\* A tab more leaves it ended.
LEMMA NewTabEnds ==
  ASSUME NEW ss, NEW a, EndsAs(ss, a), NEW job \in Nat, NEW sql \in Statements \cup {NoSql},
         NEW rows \in Rows, NEW truncated \in BOOLEAN, NEW stops \in BOOLEAN
  PROVE  EndsAs(ss, NewTab(a, job, sql, rows, truncated, stops))
<1> DEFINE shown == NewTab(a, job, sql, rows, truncated, stops)
<1>0. a \in SessionState
  BY DEF EndsAs
<1>1. shown \in SessionState
  BY <1>0, NewTabTyped
<1>2. /\ shown.inFlight = a.inFlight /\ shown.queue = a.queue /\ shown.status = a.status
      /\ shown.held = a.held /\ shown.running = a.running /\ shown.txChanges = a.txChanges
  BY <1>0 DEF NewTab, SessionState
<1> HIDE DEF shown
<1> QED
  BY <1>1, <1>2 DEF EndsAs, shown

\* The answers that end the statement in flight of session ss.
EndsIt(ss, answer) ==
  \/ answer.type \in {"QueryDone", "QueryStopped", "QueryFailed"}
  \/ answer.type = "MoreRows" /\ ss.inFlight.how = "more"
  \/ answer.type \in {"Exported", "ExportFailed"} /\ answer.job # NoJob /\ ss.inFlight.job = answer.job

\* Hearing an answer ends what is in flight and pumps, or leaves it in flight:
\* never one half of either.
LEMMA HearShape ==
  ASSUME Typed, NEW s \in Live, Hear(s)
  PROVE  IF EndsIt(session[s], Head(answers[s]))
           THEN \E after, js : EndsAs(session[s], after) /\ Pump(s, after, js)
           ELSE \E after : StaysAs(session[s], after) /\ Only(s, after)
<1> DEFINE ss == session[s]
           answer == Head(answers[s])
           item == ss.inFlight
           Over == \E after, js : EndsAs(ss, after) /\ Pump(s, after, js)
           Out == \E after : StaysAs(ss, after) /\ Only(s, after)
<1>1. ss \in SessionState /\ answer \in AnswerSet
  <2>1. s \in Sessions
    BY DEF Live
  <2>2. answers[s] \in Seq(AnswerSet) /\ answers[s] # <<>>
    BY <2>1 DEF Hear, Typed, ChannelsOK
  <2>3. answer \in AnswerSet
    BY <2>2, HeadAndTail
  <2> QED
    BY <2>1, <2>3 DEF Typed, TypeOK
<1>2. item.job \in Nat /\ item.sql \in Statements \cup {NoSql} /\ answer.rows \in Rows /\ answer.more \in BOOLEAN
  <2>1. item \in Item \cup {NoItem} /\ answer.rows \in Rows /\ answer.more \in BOOLEAN
    BY <1>1 DEF SessionState, AnswerSet
  <2> QED
    BY <2>1 DEF Item, NoItem, NoJob
<1>3. ASSUME NEW after, EndsAs(ss, after), Skip(s, after) PROVE Over
  BY <1>3 DEF Skip
<1>4. StaysAs(ss, ss)
  BY <1>1 DEF StaysAs
<1>5. CASE answer.type = "QueryDone"
  <2> DEFINE ended == [Succeeded(ss) EXCEPT !.cursorKept = FALSE]
             shown == NewTab(ended, item.job, item.sql, answer.rows, answer.more, FALSE)
             cursor == IF ss.cursorKept /\ answer.more THEN shown.tabsMade ELSE shown.cursor
             after == [shown EXCEPT !.cursor = cursor]
  <2>1. IF WasCancelled(s) THEN Skip(s, ended) ELSE Pump(s, after, Finish(jobs, item.job))
    BY <1>5 DEF Hear, Done
  <2>2. EndsAs(ss, ended)
    BY <1>1, EndedEnds, StillEnded
  <2>3. EndsAs(ss, shown)
    BY <1>2, <2>2, NewTabEnds
  <2>4. cursor \in Nat
    BY <2>3 DEF EndsAs, SessionState
  <2> HIDE DEF ended, shown, cursor
  <2>5. EndsAs(ss, after)
    BY <2>3, <2>4, StillEnded
  <2>6. Over
    BY <1>3, <2>1, <2>2, <2>5
  <2> QED
    BY <1>5, <2>6 DEF EndsIt
<1>6. CASE answer.type \in {"QueryStopped", "QueryFailed"}
  <2> DEFINE ended == [Ended(ss) EXCEPT !.cursorKept = FALSE]
             shown == NewTab(ended, item.job, item.sql, answer.rows, FALSE, TRUE)
  <2>1. \/ Skip(s, ended) \/ \E js : Pump(s, shown, js) \/ Pump(s, Dropped(shown), js)
    BY <1>6 DEF Hear, Failed
  <2>2. EndsAs(ss, ended)
    BY <1>1, EndedEnds, StillEnded
  <2>3. EndsAs(ss, shown)
    BY <1>2, <2>2, NewTabEnds
  <2> HIDE DEF ended, shown
  <2>4. EndsAs(ss, Dropped(shown))
    BY <2>3, StillEnded
  <2>5. Over
    BY <1>3, <2>1, <2>2, <2>3, <2>4
  <2> QED
    BY <1>6, <2>5 DEF EndsIt
<1>7. CASE answer.type = "MoreRows"
  <2> DEFINE ended == IF answer.more THEN Ended(ss) ELSE Placeless(Ended(ss))
             longer == [i \in DOMAIN ended.tabs |->
                          IF ended.tabs[i].number = item.tab THEN Extended(ended.tabs[i], answer)
                          ELSE ended.tabs[i]]
             after == [ended EXCEPT !.tabs = longer]
  <2>1. /\ item.how # "more" => Only(s, ss)
        /\ item.how = "more" => \/ Skip(s, Placeless(ended))
                                \/ \E js : Pump(s, after, js)
    BY <1>7 DEF Hear, MoreRows
  <2>2. EndsAs(ss, ended)
    BY <1>1, EndedEnds, StillEnded DEF Placeless
  <2> HIDE DEF ended
  <2>3. EndsAs(ss, Placeless(ended))
    BY <2>2, StillEnded DEF Placeless
  <2>4. longer \in Seq(Tab)
    <3>1. ended.tabs \in Seq(Tab)
      BY <2>2 DEF EndsAs, SessionState
    <3> QED
      BY <1>1, <3>1, ExtendedTyped
  <2> HIDE DEF longer
  <2>5. EndsAs(ss, after)
    BY <2>2, <2>4, StillEnded
  <2>6. item.how = "more" => Over
    BY <1>3, <2>1, <2>3, <2>5
  <2>7. EndsIt(ss, answer) <=> item.how = "more"
    BY <1>7 DEF EndsIt
  <2>8. item.how # "more" => Out
    BY <1>4, <2>1
  <2> HIDE DEF Over, Out
  <2>9. IF EndsIt(ss, answer) THEN Over ELSE Out
    BY <2>6, <2>7, <2>8
  <2> QED
    BY <2>9 DEF Over, Out
<1>8. CASE answer.type \in {"Exported", "ExportFailed"}
  <2> DEFINE ended == IF answer.ok THEN Succeeded(ss) ELSE Ended(ss)
  <2>1. EndsIt(ss, answer) <=> ~(answer.job = NoJob \/ item.job # answer.job)
    BY <1>8 DEF EndsIt
  <2>2. IF EndsIt(ss, answer) THEN \E js : Pump(s, ended, js) ELSE Only(s, ss)
    BY <1>8, <2>1 DEF Hear, ExportEnded
  <2>3. EndsAs(ss, ended)
    BY <1>1, EndedEnds
  <2> HIDE DEF ended
  <2> QED
    BY <1>4, <2>2, <2>3
<1>9. CASE answer.type \notin Ending
  <2>1. Only(s, Told(ss, answer))
    BY <1>9 DEF Hear, Ending
  <2>2. StaysAs(ss, Told(ss, answer))
    <3>1. Told(ss, answer) \in SessionState
      BY <1>1, ToldTyped
    <3> HIDE DEF ss, answer
    <3> DEFINE Same(b) == /\ b.inFlight = ss.inFlight /\ b.queue = ss.queue /\ b.held = ss.held
                          /\ b.running = ss.running /\ b.txChanges = ss.txChanges
                          /\ b.status \in {ss.status, "open", "failed"}
    <3>2. Same([ss EXCEPT !.status = "open", !.inTx = FALSE, !.autocommit = TRUE, !.cursor = 0,
                          !.cursorKept = FALSE])
      BY <1>1 DEF SessionState
    <3>3. Same([ss EXCEPT !.status = "failed"]) /\ Same([ss EXCEPT !.cursorKept = TRUE])
      BY <1>1 DEF SessionState
    <3>4. Same([ss EXCEPT !.cursor = 0])
      BY <1>1 DEF SessionState
    <3>5. Same([ss EXCEPT !.autocommit = answer.more, !.inTx = FALSE]) /\ Same(ss)
      BY <1>1 DEF SessionState
    <3> HIDE DEF Same
    <3>6. Same(Told(ss, answer))
      BY <3>2, <3>3, <3>4, <3>5 DEF Told, Placeless
    <3> QED
      BY <3>1, <3>6 DEF StaysAs, Same
  <2>3. ~EndsIt(ss, answer)
    BY <1>9 DEF EndsIt, Ending
  <2> QED
    BY <2>1, <2>2, <2>3
<1> QED
  BY <1>5, <1>6, <1>7, <1>8, <1>9 DEF Ending
-----------------------------------------------------------------------------
(* The confirm of a run on a prod server. *)

\* Every session holds what it held, or nothing.
HeldAsWas ==
  \A s \in Live' : session'[s].held = <<>> \/ (s \in Live /\ session'[s].held = session[s].held)

\* The session an event is for, put back with what it held or nothing.
LEMMA OneChanges ==
  ASSUME NEW s \in Live, session'[s].held \in {<<>>, session[s].held},
         \A t \in Sessions \ {s} : session'[t] = session[t]
  PROVE  HeldAsWas
BY DEF HeldAsWas, Live

\* Holding no more than before is fine while the confirm stays, when it gives
\* way to that of quitting, and when there was none.
LEMMA HeldStays ==
  ASSUME HeldAwaitAConfirm, HeldAsWas,
         UNCHANGED dialog \/ dialog'.kind = "Quit" \/ dialog.kind \notin {"Quit", "RunOnProd"}
  PROVE  HeldAwaitAConfirm'
<1> SUFFICES ASSUME NEW s \in Live', session'[s].held # <<>>
             PROVE  dialog'.kind = "Quit" \/ dialog' = Confirm("RunOnProd", {s})
  BY DEF HeldAwaitAConfirm, Confirm
<1>1. s \in Live /\ session[s].held # <<>>
  BY DEF HeldAsWas
<1>2. dialog.kind = "Quit" \/ dialog = Confirm("RunOnProd", {s})
  BY <1>1 DEF HeldAwaitAConfirm
<1> QED
  BY <1>2 DEF Confirm

\* The pump touches nothing held.
LEMMA PumpedHolds ==
  ASSUME NEW ss \in SessionState
  PROVE  Pumped(ss).held = ss.held
BY DEF Pumped, SessionState

\* Enqueueing adds to the queue alone.
LEMMA QueuesHolds ==
  ASSUME Typed, NEW s \in Sessions, NEW ss \in SessionState, NEW items \in Seq(Item)
  PROVE  /\ Queues(s, ss, items) \in SessionState
         /\ Queues(s, ss, items).held = ss.held /\ Queues(s, ss, items).inFlight = ss.inFlight
         /\ Queues(s, ss, items).running = ss.running
         /\ Queues(s, ss, items).txChanges = ss.txChanges
         /\ Queues(s, ss, items).status = ss.status
BY QueuesTyped DEF Queues, SessionState

\* What the user runs, and the confirm it may wait for.
LEMMA RunsHold ==
  ASSUME Typed, Agreed, HeldAwaitAConfirm, NEW s \in Sessions,
         Run(s) \/ LoadMore(s) \/ FetchAll(s) \/ ExportAll(s) \/ Release(s)
  PROVE  HeldAwaitAConfirm'
<1>1. session[s] \in SessionState /\ session \in [Sessions -> SessionState] /\ s \in Live
  <2>1. dialog \in {Confirm("FetchAll", {s}), Confirm("RunOnProd", {s})} => s \in dialog.who
    BY DEF Confirm
  <2>2. s \in Live
    BY <2>1 DEF Run, LoadMore, FetchAll, ExportAll, Release, Acts, Agreed
  <2> QED
    BY <2>2 DEF Typed, TypeOK
<1>2. ASSUME NEW ss \in SessionState, ss.held \in {<<>>, session[s].held}, NEW items \in Seq(Item),
             Queue(s, ss, items)
      PROVE  HeldAsWas
  <2>1. session' = [session EXCEPT ![s] = Pumped(Queues(s, ss, items))]
    BY <1>2 DEF Queue, Pump, Queues
  <2>2. Pumped(Queues(s, ss, items)).held = ss.held
    BY <1>2, QueuesHolds, PumpedHolds
  <2>3. session'[s] = Pumped(Queues(s, ss, items)) /\ \A t \in Sessions \ {s} : session'[t] = session[t]
    BY <1>1, <2>1
  <2> QED
    BY <1>1, <1>2, <2>2, <2>3, OneChanges
<1>3. CASE Release(s)
  <2> DEFINE ss == [session[s] EXCEPT !.confirmed = TRUE, !.held = <<>>]
  <2>1. <<>> \in Seq(Item)
    OBVIOUS
  <2>2. ss \in SessionState /\ session[s].held \in Seq(Item) /\ ss.held = <<>>
    BY <1>1, <2>1 DEF SessionState
  <2>3. Queue(s, ss, session[s].held) /\ dialog = Confirm("RunOnProd", {s})
    BY <1>3 DEF Release
  <2> HIDE DEF ss
  <2>4. ASSUME NEW t \in Live' PROVE session'[t].held = <<>>
    <3>1. session' = [session EXCEPT ![s] = Pumped(Queues(s, ss, session[s].held))]
      BY <2>3 DEF Queue, Pump, Queues
    <3>2. Pumped(Queues(s, ss, session[s].held)).held = <<>>
      BY <2>2, QueuesHolds, PumpedHolds
    <3>3. CASE t = s
      BY <1>1, <3>1, <3>2, <3>3
    <3>4. CASE t # s
      <4>1. t \in Live /\ session'[t] = session[t]
        BY <1>1, <3>1, <3>4 DEF Live
      <4>2. dialog.kind # "Quit" /\ dialog # Confirm("RunOnProd", {t})
        BY <2>3, <3>4 DEF Confirm
      <4> QED
        BY <4>1, <4>2 DEF HeldAwaitAConfirm
    <3> QED
      BY <3>3, <3>4
  <2> QED
    BY <2>4 DEF HeldAwaitAConfirm
<1>4. CASE ~Release(s)
  <2>1. PICK items \in Seq(Item) : EnqueueOn(s, items)
    BY <1>4, RunsEnqueue
  <2>2. dialog.kind \notin {"Quit", "RunOnProd"}
    BY <1>4 DEF Run, LoadMore, FetchAll, ExportAll, Acts, NoDialog, Confirm
  <2>3. CASE Asks(s, items)
    <3>1. /\ session' = [session EXCEPT ![s] = [session[s] EXCEPT !.held = items]]
          /\ dialog' = Confirm("RunOnProd", {s})
      BY <2>1, <2>3 DEF EnqueueOn, Only
    <3>2. ASSUME NEW t \in Live', t # s PROVE session'[t].held = <<>>
      <4>1. t \in Live /\ session'[t] = session[t]
        BY <1>1, <3>1, <3>2 DEF Live
      <4> QED
        BY <2>2, <4>1 DEF HeldAwaitAConfirm, Confirm
    <3> QED
      BY <3>1, <3>2 DEF HeldAwaitAConfirm
  <2>4. CASE ~Asks(s, items)
    <3>1. Queue(s, session[s], items)
      BY <2>1, <2>4 DEF EnqueueOn
    <3> QED
      BY <1>1, <1>2, <2>2, <3>1, HeldStays
  <2> QED
    BY <2>3, <2>4
<1> QED
  BY <1>3, <1>4

\* Everything else a user does to a session.
LEMMA ActsHold ==
  ASSUME Typed, Agreed, HeldAwaitAConfirm, NEW s \in Sessions, UserActs(s)
  PROVE  HeldAwaitAConfirm'
<1>0. session[s] \in SessionState /\ session \in [Sessions -> SessionState]
  BY DEF Typed, TypeOK
<1>1. CASE Run(s) \/ LoadMore(s) \/ FetchAll(s) \/ ExportAll(s) \/ Release(s)
  BY <1>1, RunsHold
<1>2. CASE \/ AskToFetchAll(s) \/ ToggleAutocommit(s) \/ LoadSchema(s) \/ ExportFetched(s)
  <2>1. UNCHANGED session /\ dialog.kind \notin {"Quit", "RunOnProd"}
    <3>1. UNCHANGED session /\ dialog = NoDialog
      BY <1>2 DEF AskToFetchAll, ToggleAutocommit, LoadSchema, ExportFetched, Acts
    <3> QED
      BY <3>1 DEF NoDialog
  <2>2. HeldAsWas
    BY <2>1 DEF HeldAsWas, Live
  <2> QED
    BY <2>1, <2>2, HeldStays
<1>3. CASE CancelRunning(s) \/ DropQueued(s) \/ Reconnect(s)
  <2>1. s \in Live /\ dialog.kind \notin {"Quit", "RunOnProd"}
    <3>1. s \in Live /\ dialog = NoDialog
      BY <1>3 DEF CancelRunning, DropQueued, Reconnect, Acts
    <3> QED
      BY <3>1 DEF NoDialog
  <2>2. CASE CancelRunning(s)
    <3>1. session'[s] = Dropped(session[s]) /\ \A t \in Sessions \ {s} : session'[t] = session[t]
      BY <1>0, <2>2 DEF CancelRunning
    <3>2. Dropped(session[s]).held = session[s].held
      BY <1>0 DEF Dropped, SessionState
    <3>3. HeldAsWas
      BY <2>1, <3>1, <3>2, OneChanges
    <3> QED
      BY <2>1, <3>3, HeldStays
  <2>3. CASE DropQueued(s)
    <3>1. PICK id : session' = [session EXCEPT ![s].queue = Without(@, id)]
      BY <2>3 DEF DropQueued
    <3> DEFINE b == [session[s] EXCEPT !.queue = Without(session[s].queue, id)]
    <3>2. session'[s] = b /\ \A t \in Sessions \ {s} : session'[t] = session[t]
      BY <1>0, <3>1
    <3>3. b.held = session[s].held
      BY <1>0 DEF SessionState
    <3> HIDE DEF b
    <3>4. HeldAsWas
      BY <2>1, <3>2, <3>3, OneChanges
    <3> QED
      BY <2>1, <3>4, HeldStays
  <2>4. CASE Reconnect(s)
    <3>1. PICK prod \in BOOLEAN : session' = [session EXCEPT ![s] =
            [session[s] EXCEPT !.status = "connecting", !.prod = prod, !.inTx = FALSE,
                               !.autocommit = TRUE, !.cursor = 0, !.cursorKept = FALSE]]
      BY <2>4 DEF Reconnect
    <3> DEFINE b == [session[s] EXCEPT !.status = "connecting", !.prod = prod, !.inTx = FALSE,
                                       !.autocommit = TRUE, !.cursor = 0, !.cursorKept = FALSE]
    <3>2. b.held = session[s].held
      BY <1>0 DEF SessionState
    <3>3. session'[s] = b /\ \A t \in Sessions \ {s} : session'[t] = session[t]
      BY <1>0, <3>1
    <3> HIDE DEF b
    <3>4. HeldAsWas
      BY <2>1, <3>2, <3>3, OneChanges
    <3> QED
      BY <2>1, <3>4, HeldStays
  <2> QED
    BY <1>3, <2>2, <2>3, <2>4
<1>4. CASE OpenSession(s)
  <2>1. dialog.kind \notin {"Quit", "RunOnProd"}
    BY <1>4 DEF OpenSession, NoDialog
  <2>2. PICK prod \in BOOLEAN : session' = [session EXCEPT ![s] = Fresh("connecting", prod)]
    BY <1>4 DEF OpenSession
  <2>3. HeldAsWas
    BY <1>0, <2>2 DEF HeldAsWas, Live, Fresh
  <2> QED
    BY <2>1, <2>3, HeldStays
<1>5. CASE CloseOrConfirm(s) \/ CloseConfirmed(s)
  <2>1. dialog.kind \notin {"Quit", "RunOnProd"}
    BY <1>5 DEF CloseOrConfirm, CloseConfirmed, Acts, NoDialog, Confirm
  <2>2. CASE Close(s)
    <3>1. \/ session' = [session EXCEPT ![s] = Fresh("closed", FALSE)]
          \/ \E new \in Sessions : session' = [session EXCEPT ![s] = Fresh("closed", FALSE),
                                                              ![new] = Fresh("connecting", FALSE)]
      BY <2>2 DEF Close
    <3>2. HeldAsWas
      BY <1>0, <3>1 DEF HeldAsWas, Live, Fresh
    <3> QED
      BY <2>1, <3>2, HeldStays
  <2>3. CASE UNCHANGED session
    <3>1. HeldAsWas
      BY <2>3 DEF HeldAsWas, Live
    <3> QED
      BY <2>1, <3>1, HeldStays
  <2> QED
    BY <1>5, <2>2, <2>3 DEF CloseOrConfirm, CloseConfirmed
<1> QED
  BY <1>1, <1>2, <1>3, <1>4, <1>5 DEF UserActs

\* The step, whoever takes it.
LEMMA NextHolds ==
  ASSUME Typed, Agreed, HeldAwaitAConfirm, [Next]_vars
  PROVE  HeldAwaitAConfirm'
<1>0. session \in [Sessions -> SessionState] /\ Live \subseteq Sessions
  BY DEF Typed, TypeOK, Live
<1>1. ASSUME NEW s \in Sessions, Hear(s) PROVE HeldAwaitAConfirm'
  <2>1. UNCHANGED dialog
    BY <1>1 DEF Hear
  <2>2. CASE s \notin Live
    <3>1. session' = [session EXCEPT ![s] = session[s]]
      BY <1>1, <2>2 DEF Hear, Only
    <3>2. HeldAsWas
      BY <1>0, <3>1 DEF HeldAsWas, Live
    <3> QED
      BY <2>1, <3>2, HeldStays
  <2>3. CASE s \in Live
    <3>1. session'[s].held = session[s].held /\ \A t \in Sessions \ {s} : session'[t] = session[t]
      <4>1. ASSUME NEW after, NEW js, EndsAs(session[s], after), Pump(s, after, js)
            PROVE  session'[s].held = session[s].held /\ \A t \in Sessions \ {s} : session'[t] = session[t]
        <5>1. Pumped(after).held = session[s].held
          BY <4>1, PumpedHolds DEF EndsAs
        <5> QED
          BY <1>0, <4>1, <5>1 DEF Pump
      <4>2. ASSUME NEW after, StaysAs(session[s], after), Only(s, after)
            PROVE  session'[s].held = session[s].held /\ \A t \in Sessions \ {s} : session'[t] = session[t]
        BY <1>0, <4>2 DEF StaysAs, Only
      <4> QED
        BY <1>1, <2>3, <4>1, <4>2, HearShape
    <3>2. HeldAsWas
      BY <2>3, <3>1, OneChanges
    <3> QED
      BY <2>1, <3>2, HeldStays
  <2> QED
    BY <2>2, <2>3
<1>2. ASSUME NEW s \in Sessions, WorkerStopped(s) PROVE HeldAwaitAConfirm'
  <2>1. UNCHANGED dialog
    BY <1>2 DEF WorkerStopped
  <2>2. session[s] \in SessionState
    BY <1>0
  <2>3. GivenUp(session[s]).held = session[s].held
    BY <2>2 DEF GivenUp, SessionState
  <2>4. CASE s \in Live
    <3>1. session'[s] = GivenUp(session[s]) /\ \A t \in Sessions \ {s} : session'[t] = session[t]
      BY <1>0, <1>2, <2>4 DEF WorkerStopped
    <3>2. HeldAsWas
      BY <2>3, <2>4, <3>1, OneChanges
    <3> QED
      BY <2>1, <3>2, HeldStays
  <2>5. CASE s \notin Live
    <3>1. HeldAsWas
      BY <1>2, <2>5 DEF WorkerStopped, HeldAsWas, Live
    <3> QED
      BY <2>1, <3>1, HeldStays
  <2> QED
    BY <2>4, <2>5
<1>3. CASE Dismiss \/ QuitRollingBack
  <2>1. ASSUME NEW t \in Sessions PROVE session'[t].held = <<>>
    <3>1. NothingHeld[t].held = <<>>
      BY <1>0 DEF NothingHeld, SessionState
    <3>2. ASSUME t \in dialog.who PROVE Pumped(RollingBack(t)).held = <<>>
      <4>1. RollingBack(t) \in SessionState /\ session[t] \in SessionState
        BY <1>0, <3>2, RollingBackTyped
      <4>2. RollingBack(t).held = <<>>
        BY <4>1 DEF RollingBack, SessionState
      <4> QED
        BY <4>1, <4>2, PumpedHolds
    <3> QED
      BY <1>3, <3>1, <3>2 DEF Dismiss, QuitRollingBack
  <2> QED
    BY <2>1 DEF HeldAwaitAConfirm, Live
<1>4. CASE Quit
  <2>1. HeldAsWas /\ (UNCHANGED dialog \/ dialog'.kind = "Quit")
    BY <1>4 DEF Quit, Confirm, HeldAsWas, Live
  <2> QED
    BY <2>1, HeldStays
<1>5. CASE UNCHANGED appVars
  <2>1. HeldAsWas /\ UNCHANGED dialog
    BY <1>5 DEF appVars, HeldAsWas, Live
  <2> QED
    BY <2>1, HeldStays
<1> QED
  BY <1>1, <1>2, <1>3, <1>4, <1>5, ActsHold DEF Next, Work, CancelArrives, vars

\* A run on a prod server that was held for a confirm is never left behind:
\* what a session holds can still be confirmed, or the quit confirm that took
\* that one's place is open (run.rs, `confirm_prod`).
THEOREM HeldIsAskedFor == Spec => []HeldAwaitAConfirm
<1>1. Init => HeldAwaitAConfirm
  BY DEF Init, HeldAwaitAConfirm, Live, Fresh
<1> QED
  BY <1>1, InitTyped, NextTyped, InitAgreed, NextAgreed, NextHolds, PTL DEF Spec

-----------------------------------------------------------------------------
(* One statement out at a time. *)

\* Of what stands on a channel, none is in B; exactly one is, and it is in G.
NoneIn(q, B) == \A i \in DOMAIN q : q[i] \notin B
OneIn(q, B, G) == \E i \in DOMAIN q : q[i] \in G /\ \A j \in DOMAIN q \ {i} : q[j] \notin B

\* What is sent last, and what is taken first.
LEMMA OnAChannel ==
  ASSUME NEW S, NEW B, NEW G, G \subseteq B, NEW p \in Seq(S)
  PROVE  /\ \A q \in Seq(S) : /\ NoneIn(p, B) /\ NoneIn(q, B) => NoneIn(p \o q, B)
                              /\ OneIn(p, B, G) /\ NoneIn(q, B) => OneIn(p \o q, B, G)
                              /\ NoneIn(p, B) /\ OneIn(q, B, G) => OneIn(p \o q, B, G)
         /\ p # <<>> => /\ NoneIn(p, B) => Head(p) \notin B /\ NoneIn(Tail(p), B)
                        /\ OneIn(p, B, G) =>
                             \/ Head(p) \in G /\ NoneIn(Tail(p), B)
                             \/ Head(p) \notin B /\ OneIn(Tail(p), B, G)
<1>1. ASSUME NEW q \in Seq(S)
      PROVE  /\ NoneIn(p, B) /\ NoneIn(q, B) => NoneIn(p \o q, B)
             /\ OneIn(p, B, G) /\ NoneIn(q, B) => OneIn(p \o q, B, G)
             /\ NoneIn(p, B) /\ OneIn(q, B, G) => OneIn(p \o q, B, G)
  <2> DEFINE m == Len(p)
             n == Len(q)
             r == p \o q
  <2>1. /\ m \in Nat /\ n \in Nat /\ DOMAIN p = 1..m /\ DOMAIN q = 1..n /\ DOMAIN r = 1..(m + n)
        /\ \A i \in 1..m : r[i] = p[i]
        /\ \A i \in 1..n : r[m + i] = q[i]
    BY Joined
  <2> HIDE DEF m, n, r
  <2>2. \A k \in DOMAIN r : \/ k \in DOMAIN p /\ r[k] = p[k]
                            \/ k - m \in DOMAIN q /\ r[k] = q[k - m]
    <3>1. ASSUME NEW k \in 1..(m + n), k > m
          PROVE  k - m \in 1..n /\ r[k] = q[k - m]
      <4>1. k - m \in 1..n /\ m + (k - m) = k
        BY <2>1, <3>1
      <4> QED
        BY <2>1, <4>1
    <3> QED
      BY <2>1, <3>1
  <2>3. NoneIn(p, B) /\ NoneIn(q, B) => NoneIn(r, B)
    BY <2>2 DEF NoneIn
  <2>4. ASSUME OneIn(p, B, G), NoneIn(q, B) PROVE OneIn(r, B, G)
    <3>1. PICK i \in DOMAIN p : p[i] \in G /\ \A j \in DOMAIN p \ {i} : p[j] \notin B
      BY <2>4 DEF OneIn
    <3>2. i \in DOMAIN r /\ r[i] \in G
      BY <2>1, <3>1
    <3>3. ASSUME NEW k \in DOMAIN r \ {i} PROVE r[k] \notin B
      BY <2>2, <2>4, <3>1 DEF NoneIn
    <3> QED
      BY <3>2, <3>3 DEF OneIn
  <2>5. ASSUME NoneIn(p, B), OneIn(q, B, G) PROVE OneIn(r, B, G)
    <3>1. PICK i \in DOMAIN q : q[i] \in G /\ \A j \in DOMAIN q \ {i} : q[j] \notin B
      BY <2>5 DEF OneIn
    <3>2. m + i \in DOMAIN r /\ r[m + i] \in G
      BY <2>1, <3>1
    <3>3. ASSUME NEW k \in DOMAIN r \ {m + i} PROVE r[k] \notin B
      <4>1. k - m # i
        BY <2>1, <3>1
      <4> QED
        BY <2>2, <2>5, <3>1, <4>1 DEF NoneIn
    <3> QED
      BY <3>2, <3>3 DEF OneIn
  <2> QED
    BY <2>3, <2>4, <2>5 DEF r
<1>2. ASSUME p # <<>>
      PROVE  /\ NoneIn(p, B) => Head(p) \notin B /\ NoneIn(Tail(p), B)
             /\ OneIn(p, B, G) => \/ Head(p) \in G /\ NoneIn(Tail(p), B)
                                  \/ Head(p) \notin B /\ OneIn(Tail(p), B, G)
  <2> DEFINE t == Tail(p)
             n == Len(p)
  <2>1. /\ n \in Nat /\ DOMAIN p = 1..n /\ 1 \in DOMAIN p /\ Head(p) = p[1] /\ DOMAIN t = 1..(n - 1)
        /\ \A i \in DOMAIN t : i + 1 \in DOMAIN p /\ t[i] = p[i + 1]
    BY <1>2, HeadAndTail
  <2> HIDE DEF t, n
  <2>2. NoneIn(p, B) => Head(p) \notin B /\ NoneIn(t, B)
    BY <2>1 DEF NoneIn
  <2>3. ASSUME OneIn(p, B, G)
        PROVE  (Head(p) \in G /\ NoneIn(t, B)) \/ (Head(p) \notin B /\ OneIn(t, B, G))
    <3>1. PICK i \in DOMAIN p : p[i] \in G /\ \A j \in DOMAIN p \ {i} : p[j] \notin B
      BY <2>3 DEF OneIn
    <3>2. CASE i = 1
      <4>1. \A k \in DOMAIN t : k + 1 # 1
        BY <2>1
      <4>2. NoneIn(t, B)
        BY <2>1, <3>1, <3>2, <4>1 DEF NoneIn
      <4> QED
        BY <2>1, <3>1, <3>2, <4>2
    <3>3. CASE i # 1
      <4>1. i - 1 \in DOMAIN t /\ t[i - 1] = p[i]
        <5>1. i \in 1..n /\ i - 1 \in 1..(n - 1) /\ (i - 1) + 1 = i
          BY <2>1, <3>3
        <5> QED
          BY <2>1, <5>1
      <4>2. ASSUME NEW k \in DOMAIN t \ {i - 1} PROVE t[k] \notin B
        <5>1. k + 1 # i
          BY <2>1, <3>1
        <5> QED
          BY <2>1, <3>1, <5>1
      <4>3. OneIn(t, B, G)
        BY <3>1, <4>1, <4>2 DEF OneIn
      <4> QED
        BY <2>1, <3>1, <3>3, <4>3
    <3> QED
      BY <3>2, <3>3
  <2> QED
    BY <2>2, <2>3 DEF t
<1> QED
  BY <1>1, <1>2

\* The commands that carry a statement, and the answers that end the one sent
\* as an item.
Asking == {c \in CommandSet : c.type \in StatementTypes}
Telling == {a \in AnswerSet : a.type \in Ending /\ a.job # NoJob}
EndsOf(how) == CASE how \in {"query", "all"} -> {"QueryDone", "QueryStopped", "QueryFailed"}
                 [] how = "more"             -> {"MoreRows"}
                 [] how = "export"           -> {"Exported", "ExportFailed"}
TellingOf(item) == {a \in Telling : a.type \in EndsOf(item.how) /\ a.job = item.job}

\* Session ss and its channels q, c and a, when its worker lives: nothing is out,
\* or the one statement in flight is, and the session counts it.
OutAt(item, q, c, a) ==
  \/ OneIn(q, Asking, {CommandOf(item)}) /\ c \notin Asking /\ NoneIn(a, Telling)
  \/ NoneIn(q, Asking) /\ c = CommandOf(item) /\ NoneIn(a, Telling)
  \/ NoneIn(q, Asking) /\ c \notin Asking /\ OneIn(a, Telling, TellingOf(item))

Lined(ss, q, c, a) ==
  /\ \A i \in DOMAIN a : a[i].type \in Ending /\ a[i].job = NoJob => a[i].type = "Exported"
  /\ IF ss.inFlight = NoItem
       THEN /\ NoneIn(q, Asking) /\ c \notin Asking /\ NoneIn(a, Telling)
            /\ ss.running = 0 /\ ss.txChanges = <<>>
       ELSE /\ OutAt(ss.inFlight, q, c, a)
            /\ ss.inFlight.job # NoJob
            /\ ss.running = 1 /\ ss.txChanges = <<ChangeOf(ss.inFlight)>>

\* The inductive invariant.  A worker that is told to be gone is gone, what a
\* command answers first ends no statement, and an unused session was sent
\* nothing.
Aside(s) ==
  /\ stopping[s] => ~alive[s]
  /\ \A i \in DOMAIN early[s] : early[s][i].type \notin Ending
  /\ session[s].status = "unused" => cmds[s] = <<>> /\ current[s] = NoCommand /\ answers[s] = <<>>

Answering ==
  \A s \in Sessions :
    /\ Aside(s)
    /\ s \in Live /\ alive[s] => Lined(session[s], cmds[s], current[s], answers[s])

\* A statement's command asks.
LEMMA CommandAsks ==
  ASSUME NEW item \in Item
  PROVE  CommandOf(item) \in Asking /\ CommandOf(item).job = item.job
<1>1. CommandOf(item) \in CommandSet
  BY CommandTyped
<1>2. CommandOf(item).type \in StatementTypes /\ CommandOf(item).job = item.job
  BY DEF CommandOf, Statement, StatementTypes, Item, Hows
<1> QED
  BY <1>1, <1>2 DEF Asking

\* A sequence of one.
LEMMA AloneOnAChannel ==
  ASSUME NEW c, NEW B, NEW G
  PROVE  /\ c \notin B => NoneIn(<<c>>, B)
         /\ c \in G => OneIn(<<c>>, B, G)
BY DEF NoneIn, OneIn

\* The pump sends the next statement only when none is out.
LEMMA PumpLines ==
  ASSUME NEW ss \in SessionState, NEW q \in Seq(CommandSet), NEW c, NEW a \in Seq(AnswerSet),
         Lined(ss, q, c, a), \A i \in DOMAIN ss.queue : ss.queue[i].job # NoJob
  PROVE  Lined(Pumped(ss), q \o Sent(ss), c, a)
<1>1. CASE Sends(ss)
  <2> DEFINE item == Head(ss.queue)
             command == CommandOf(item)
             after == Pumped(ss)
  <2>1. ss.queue \in Seq(Item) /\ ss.queue # <<>> /\ ss.inFlight = NoItem
    BY <1>1 DEF Sends, SessionState
  <2>2. item \in Item /\ item.job # NoJob
    BY <2>1, HeadAndTail
  <2>3. /\ NoneIn(q, Asking) /\ c \notin Asking /\ NoneIn(a, Telling)
        /\ ss.running = 0 /\ ss.txChanges = <<>>
    BY <2>1 DEF Lined
  <2>4. after.inFlight = item /\ after.running = ss.running + 1
        /\ after.txChanges = Append(ss.txChanges, ChangeOf(item))
    BY <1>1 DEF Pumped, SessionState
  <2>5. Sent(ss) = <<command>>
    BY <1>1 DEF Sent
  <2>6. command \in Asking
    BY <2>2, CommandAsks
  <2>7. item # NoItem
    BY <2>2 DEF NoItem
  <2> HIDE DEF item, command, after
  <2>8. <<command>> \in Seq(CommandSet) /\ command \in CommandSet
    BY <2>6 DEF Asking
  <2>9. OneIn(q \o <<command>>, Asking, {command})
    <3>1. OneIn(<<command>>, Asking, {command})
      BY AloneOnAChannel
    <3> QED
      BY <2>3, <2>6, <2>8, <3>1, OnAChannel
  <2>10. after.running = 1 /\ after.txChanges = <<ChangeOf(item)>>
    BY <2>3, <2>4
  <2>11. OutAt(item, q \o Sent(ss), c, a)
    BY <2>3, <2>5, <2>9 DEF OutAt, command
  <2>12. Lined(after, q \o Sent(ss), c, a)
    BY <2>2, <2>4, <2>7, <2>10, <2>11 DEF Lined
  <2> QED
    BY <2>12 DEF after
<1>2. CASE ~Sends(ss)
  <2>1. Pumped(ss) = ss /\ Sent(ss) = <<>> /\ q \o <<>> = q
    BY <1>2 DEF Pumped, Sent
  <2> QED
    BY <2>1
<1> QED
  BY <1>1, <1>2

\* What is sent past the queue changes nothing of it, nor what is done to a
\* session beside its statement.
LEMMA DirectLines ==
  ASSUME NEW ss, NEW after, NEW q \in Seq(CommandSet), NEW c, NEW a, Lined(ss, q, c, a),
         after.inFlight = ss.inFlight, after.running = ss.running, after.txChanges = ss.txChanges,
         ss.inFlight \in Item \cup {NoItem},
         NEW out \in Seq(CommandSet), NoneIn(out, Asking)
  PROVE  Lined(after, q \o out, c, a)
<1> DEFINE r == q \o out
<1>1. NoneIn(q, Asking) => NoneIn(r, Asking)
  BY OnAChannel
<1>2. ASSUME ss.inFlight # NoItem
      PROVE  OneIn(q, Asking, {CommandOf(ss.inFlight)}) => OneIn(r, Asking, {CommandOf(ss.inFlight)})
  <2>1. {CommandOf(ss.inFlight)} \subseteq Asking
    BY <1>2, CommandAsks
  <2> HIDE DEF r
  <2> DEFINE G == {CommandOf(ss.inFlight)}
  <2> HIDE DEF G
  <2>2. OneIn(q, Asking, G) => OneIn(q \o out, Asking, G)
    BY <2>1, OnAChannel DEF G
  <2> QED
    BY <2>2 DEF r, G
<1> HIDE DEF r
<1>3. Lined(after, r, c, a)
  BY <1>1, <1>2 DEF Lined, OutAt
<1> QED
  BY <1>3 DEF r

\* In a session that is open, with its channels as they were.
Alike(ss, after) ==
  after.inFlight = ss.inFlight /\ after.running = ss.running /\ after.txChanges = ss.txChanges

\* What the app does to session s without a statement going out.
Calm(s, out) ==
  /\ NoneIn(out, Asking)
  /\ session'[s].status = "unused" => session[s].status = "unused" /\ out = <<>>
  /\ s \in Live' => \/ s \in Live /\ Alike(session[s], session'[s])
                    \/ session[s].status = "unused" /\ Alike(Fresh("unused", FALSE), session'[s])

\* A step of the app alone keeps the line when each session is calm or pumped.
LEMMA AppLines ==
  ASSUME Typed, Answering, UNCHANGED <<current, early, alive, answers>>, NEW out,
         \A s \in Sessions :
           /\ out[s] \in Seq(CommandSet)
           /\ cmds'[s] = IF alive[s] THEN cmds[s] \o out[s] ELSE cmds[s]
           /\ stopping'[s] => stopping[s] \/ ~alive[s]
           /\ \/ Calm(s, out[s])
              \/ /\ session'[s].status # "unused"
                 /\ alive[s] => Lined(session'[s], cmds[s] \o out[s], current[s], answers[s])
  PROVE  Answering'
<1> SUFFICES ASSUME NEW s \in Sessions
             PROVE  /\ Aside(s)'
                    /\ s \in Live' /\ alive[s] => Lined(session'[s], cmds'[s], current[s], answers[s])
  BY DEF Answering
<1>1. /\ Aside(s) /\ out[s] \in Seq(CommandSet) /\ cmds[s] \in Seq(CommandSet)
      /\ cmds'[s] = IF alive[s] THEN cmds[s] \o out[s] ELSE cmds[s]
      /\ stopping'[s] => stopping[s] \/ ~alive[s]
      /\ s \in Live /\ alive[s] => Lined(session[s], cmds[s], current[s], answers[s])
      /\ session[s].inFlight \in Item \cup {NoItem}
  BY DEF Answering, Typed, TypeOK, ChannelsOK, SessionState
<1>2. CASE Calm(s, out[s])
  <2>1. Aside(s)'
    BY <1>1, <1>2 DEF Aside, Calm
  <2>2. ASSUME s \in Live, alive[s], Alike(session[s], session'[s])
        PROVE  Lined(session'[s], cmds'[s], current[s], answers[s])
    BY <1>1, <1>2, <2>2, DirectLines DEF Calm, Alike
  <2>3. ASSUME session[s].status = "unused", alive[s], Alike(Fresh("unused", FALSE), session'[s])
        PROVE  Lined(session'[s], cmds'[s], current[s], answers[s])
    <3>1. cmds[s] = <<>> /\ current[s] = NoCommand /\ answers[s] = <<>>
      BY <1>1, <2>3 DEF Aside
    <3>2. NoneIn(cmds'[s], Asking)
      BY <1>1, <1>2, <2>3, <3>1 DEF Calm
    <3>3. NoCommand \notin Asking
      BY DEF NoCommand, Direct, Asking, StatementTypes
    <3>4. session'[s].inFlight = NoItem /\ session'[s].running = 0 /\ session'[s].txChanges = <<>>
      BY <2>3 DEF Alike, Fresh
    <3> QED
      BY <3>1, <3>2, <3>3, <3>4 DEF Lined, NoneIn
  <2> QED
    BY <1>2, <2>1, <2>2, <2>3 DEF Calm
<1>3. CASE /\ session'[s].status # "unused"
           /\ alive[s] => Lined(session'[s], cmds[s] \o out[s], current[s], answers[s])
  BY <1>1, <1>3 DEF Aside
<1> QED
  BY <1>2, <1>3

\* One that only changes sessions, and sends at most a command past the queue.
LEMMA CalmLines ==
  ASSUME Typed, Answering, UNCHANGED <<current, early, alive, answers>>,
         \/ UNCHANGED <<cmds, stopping>>
         \/ \E s \in Sessions, type \in CommandTypes \ StatementTypes, on \in BOOLEAN :
              /\ session'[s].status # "unused"
              /\ Deliver(To(s, <<Direct(type, on)>>)),
         \A s \in Sessions : Calm(s, <<>>)
  PROVE  Answering'
<1>0. \A s \in Sessions : cmds[s] \o <<>> = cmds[s]
  BY DEF Typed, ChannelsOK
<1>1. CASE UNCHANGED <<cmds, stopping>>
  <2> DEFINE out == [s \in Sessions |-> <<>>]
  <2>1. \A s \in Sessions : out[s] = <<>> /\ out[s] \in Seq(CommandSet)
    OBVIOUS
  <2> HIDE DEF out
  <2>2. \A s \in Sessions : /\ out[s] \in Seq(CommandSet)
                            /\ cmds'[s] = IF alive[s] THEN cmds[s] \o out[s] ELSE cmds[s]
                            /\ stopping'[s] => stopping[s] \/ ~alive[s]
                            /\ Calm(s, out[s])
    BY <1>0, <1>1, <2>1
  <2> QED
    BY <2>2, AppLines
<1>2. ASSUME NEW s \in Sessions, NEW type \in CommandTypes \ StatementTypes, NEW on \in BOOLEAN,
             session'[s].status # "unused", Deliver(To(s, <<Direct(type, on)>>))
      PROVE  Answering'
  <2> DEFINE c == Direct(type, on)
             out == To(s, <<c>>)
  <2>1. c \in CommandSet /\ c \notin Asking
    BY CommandTyped DEF Direct, Asking
  <2>2. \A t \in Sessions : out[t] = IF t = s THEN <<c>> ELSE <<>>
    BY DEF To
  <2>3. \A t \in Sessions : /\ cmds'[t] = IF alive[t] THEN cmds[t] \o out[t] ELSE cmds[t]
                            /\ stopping'[t] => stopping[t] \/ ~alive[t]
    BY <1>2 DEF Deliver
  <2> HIDE DEF c, out
  <2>4. NoneIn(<<c>>, Asking) /\ <<c>> \in Seq(CommandSet) /\ <<>> \in Seq(CommandSet)
    BY <2>1, AloneOnAChannel
  <2>5. Calm(s, out[s])
    BY <1>2, <2>2, <2>4 DEF Calm
  <2>6. \A t \in Sessions : out[t] \in Seq(CommandSet) /\ Calm(t, out[t])
    BY <2>2, <2>4, <2>5
  <2> QED
    BY <2>3, <2>6, AppLines
<1> QED
  BY <1>1, <1>2

\* One that pumps session s, which stood in line.
LEMMA PumpOneLines ==
  ASSUME Typed, Answering, UNCHANGED <<current, early, alive, answers>>, NEW s \in Live,
         NEW ss \in SessionState, ss.status # "unused", Alike(session[s], ss),
         \A i \in DOMAIN ss.queue : ss.queue[i].job # NoJob, NEW js, Pump(s, ss, js)
  PROVE  Answering'
<1>0. /\ session \in [Sessions -> SessionState] /\ s \in Sessions
      /\ cmds[s] \in Seq(CommandSet) /\ answers[s] \in Seq(AnswerSet)
      /\ session[s].inFlight \in Item \cup {NoItem}
  BY DEF Live, Typed, TypeOK, ChannelsOK, SessionState
<1> DEFINE out == To(s, Sent(ss))
<1>1. \A t \in Sessions : out[t] = IF t = s THEN Sent(ss) ELSE <<>>
  BY DEF To
<1>2. \A t \in Sessions : /\ cmds'[t] = IF alive[t] THEN cmds[t] \o out[t] ELSE cmds[t]
                          /\ stopping'[t] => stopping[t] \/ ~alive[t]
  BY DEF Pump, Deliver
<1>3. session' = [session EXCEPT ![s] = Pumped(ss)]
  BY DEF Pump
<1> HIDE DEF out
<1>4. Sent(ss) \in Seq(CommandSet) /\ Pumped(ss) \in SessionState /\ Pumped(ss).status = ss.status
  BY PumpedTyped DEF Pumped, SessionState
<1>5. ASSUME alive[s] PROVE Lined(Pumped(ss), cmds[s] \o Sent(ss), current[s], answers[s])
  <2>1. Lined(session[s], cmds[s], current[s], answers[s])
    BY <1>0, <1>5 DEF Answering
  <2>2. Lined(ss, cmds[s], current[s], answers[s])
    BY <2>1 DEF Lined, Alike
  <2> QED
    BY <1>0, <2>2, PumpLines
<1>6. ASSUME NEW t \in Sessions \ {s} PROVE Calm(t, <<>>)
  <2>1. session'[t] = session[t]
    BY <1>0, <1>3
  <2>2. t \in Live' => t \in Live
    BY <2>1 DEF Live
  <2>3. NoneIn(<<>>, Asking) /\ Alike(session[t], session'[t])
    BY <2>1 DEF NoneIn, Alike
  <2> QED
    BY <2>1, <2>2, <2>3 DEF Calm
<1>7. <<>> \in Seq(CommandSet)
  OBVIOUS
<1>8. session'[s].status # "unused" /\ session'[s] = Pumped(ss)
  BY <1>0, <1>3, <1>4
<1>9. \A t \in Sessions :
        /\ out[t] \in Seq(CommandSet)
        /\ cmds'[t] = IF alive[t] THEN cmds[t] \o out[t] ELSE cmds[t]
        /\ stopping'[t] => stopping[t] \/ ~alive[t]
        /\ \/ Calm(t, out[t])
           \/ /\ session'[t].status # "unused"
              /\ alive[t] => Lined(session'[t], cmds[t] \o out[t], current[t], answers[t])
  BY <1>1, <1>2, <1>4, <1>5, <1>6, <1>7, <1>8
<1> QED
  BY <1>9, AppLines

\* What every job waiting in a session is: one made.
LEMMA QueuedAreMade ==
  ASSUME Typed, Agreed, NEW s \in Sessions
  PROVE  \A i \in DOMAIN session[s].queue : session[s].queue[i].job # NoJob
<1>1. QueuedOf(jobs, s) = QueuedIds(session[s]) /\ RegistryOK(jobs, made) /\ made \in Nat
  BY DEF Agreed, SessionsAgree, Coherent, Typed, TypeOK, RegistryOK
<1>2. QueuedIds(session[s]) \subseteq 1..made
  BY <1>1 DEF QueuedOf, Queued, RegistryOK
<1> QED
  BY <1>1, <1>2 DEF QueuedIds, NoJob

\* What is enqueued on top is made too.
LEMMA QueuesAreMade ==
  ASSUME Typed, Agreed, NEW s \in Sessions, NEW ss \in SessionState, ss.queue = session[s].queue,
         NEW items \in Seq(Item)
  PROVE  LET after == Queues(s, ss, items)
         IN  \A i \in DOMAIN after.queue : after.queue[i].job # NoJob
<1> DEFINE q == ss.queue
           r == Numbered(items)
<1>1. made \in Nat /\ q \in Seq(Item) /\ \A i \in DOMAIN q : q[i].job # NoJob
  <2>1. \A i \in DOMAIN session[s].queue : session[s].queue[i].job # NoJob
    BY QueuedAreMade
  <2> QED
    BY <2>1 DEF Typed, TypeOK, SessionState
<1>2. r \in Seq(Item) /\ \A i \in DOMAIN r : r[i].job # NoJob
  <2>1. r \in Seq(Item) /\ Len(r) = Len(items) /\ \A i \in 1..Len(items) : r[i].job = made + i
    BY <1>1, NumberedItems
  <2> HIDE DEF r
  <2>2. DOMAIN r = 1..Len(items)
    BY <2>1
  <2> QED
    BY <1>1, <2>1, <2>2 DEF NoJob
<1>3. Queues(s, ss, items).queue = q \o r
  BY DEF Queues, Behind, SessionState
<1> HIDE DEF q, r
<1>4. \A i \in DOMAIN (q \o r) : (q \o r)[i].job # NoJob
  <2>1. /\ Len(q) \in Nat /\ DOMAIN q = 1..Len(q) /\ Len(r) \in Nat /\ DOMAIN r = 1..Len(r)
        /\ DOMAIN (q \o r) = 1..(Len(q) + Len(r))
        /\ \A i \in 1..Len(q) : (q \o r)[i] = q[i]
        /\ \A i \in 1..Len(r) : (q \o r)[Len(q) + i] = r[i]
    BY <1>1, <1>2, Joined
  <2>2. ASSUME NEW i \in 1..(Len(q) + Len(r)), i > Len(q)
        PROVE  (q \o r)[i].job # NoJob
    <3>1. i - Len(q) \in 1..Len(r) /\ Len(q) + (i - Len(q)) = i
      BY <2>1, <2>2
    <3> QED
      BY <1>2, <2>1, <3>1
  <2>3. ASSUME NEW i \in 1..(Len(q) + Len(r)), ~(i > Len(q))
        PROVE  (q \o r)[i].job # NoJob
    <3>1. i \in 1..Len(q)
      BY <2>1, <2>3
    <3> QED
      BY <1>1, <2>1, <3>1
  <2> QED
    BY <2>1, <2>2, <2>3
<1> QED
  BY <1>3, <1>4

\* Sessions changed one by one, each as it stood or opened.
LEMMA EachCalm ==
  ASSUME \A s \in Sessions :
           \/ Alike(session[s], session'[s]) /\ session'[s].status = session[s].status
           \/ s \in Live /\ Alike(session[s], session'[s]) /\ session'[s].status # "unused"
           \/ session[s].status = "unused" /\ session'[s].status # "unused"
              /\ Alike(Fresh("unused", FALSE), session'[s])
           \/ session'[s].status = "closed"
  PROVE  \A s \in Sessions : Calm(s, <<>>)
<1> SUFFICES ASSUME NEW s \in Sessions PROVE Calm(s, <<>>)
  OBVIOUS
<1>1. NoneIn(<<>>, Asking)
  BY DEF NoneIn
<1>2. CASE Alike(session[s], session'[s]) /\ session'[s].status = session[s].status
  BY <1>1, <1>2 DEF Calm, Live
<1>3. CASE s \in Live /\ Alike(session[s], session'[s]) /\ session'[s].status # "unused"
  BY <1>1, <1>3 DEF Calm
<1>4. CASE /\ session[s].status = "unused" /\ session'[s].status # "unused"
           /\ Alike(Fresh("unused", FALSE), session'[s])
  BY <1>1, <1>4 DEF Calm
<1>5. CASE session'[s].status = "closed"
  BY <1>1, <1>5 DEF Calm, Live
<1> QED
  BY <1>2, <1>3, <1>4, <1>5

\* What the user runs is sent when nothing is out, and waits otherwise.
LEMMA RunsLine ==
  ASSUME Typed, Agreed, Answering, NEW s \in Sessions,
         Run(s) \/ LoadMore(s) \/ FetchAll(s) \/ ExportAll(s) \/ Release(s)
  PROVE  Answering'
<1>0. /\ UNCHANGED <<current, early, alive, answers>> /\ session[s] \in SessionState
      /\ session \in [Sessions -> SessionState]
  BY DEF Run, LoadMore, FetchAll, ExportAll, Release, Acts, User, untouchedByUser, Typed, TypeOK
<1>1. s \in Live /\ session[s].status # "unused"
  <2>1. dialog \in {Confirm("FetchAll", {s}), Confirm("RunOnProd", {s})} => s \in dialog.who
    BY DEF Confirm
  <2>2. s \in Live
    BY <2>1 DEF Run, LoadMore, FetchAll, ExportAll, Release, Acts, Agreed
  <2> QED
    BY <2>2 DEF Live
<1>2. ASSUME NEW ss \in SessionState, Alike(session[s], ss), ss.queue = session[s].queue,
             ss.status = session[s].status, NEW items \in Seq(Item), Queue(s, ss, items)
      PROVE  Answering'
  <2> DEFINE after == Queues(s, ss, items)
  <2>1. /\ after \in SessionState /\ after.status # "unused" /\ Alike(session[s], after)
    BY <1>1, <1>2, QueuesHolds DEF Alike
  <2>2. \A i \in DOMAIN after.queue : after.queue[i].job # NoJob
    BY <1>2, QueuesAreMade
  <2>3. Pump(s, after, Enqueued(s, items))
    BY <1>2 DEF Queue, Queues
  <2> HIDE DEF after
  <2> QED
    BY <1>0, <1>1, <2>1, <2>2, <2>3, PumpOneLines
<1>3. CASE Release(s)
  <2> DEFINE ss == [session[s] EXCEPT !.confirmed = TRUE, !.held = <<>>]
  <2>1. <<>> \in Seq(Item)
    OBVIOUS
  <2>2. /\ ss \in SessionState /\ session[s].held \in Seq(Item) /\ Alike(session[s], ss)
        /\ ss.queue = session[s].queue /\ ss.status = session[s].status
    BY <1>0, <2>1 DEF SessionState, Alike
  <2>3. Queue(s, ss, session[s].held)
    BY <1>3 DEF Release
  <2> HIDE DEF ss
  <2> QED
    BY <1>2, <2>2, <2>3
<1>4. CASE ~Release(s)
  <2>1. PICK items \in Seq(Item) : EnqueueOn(s, items)
    BY <1>4, RunsEnqueue
  <2>2. CASE Asks(s, items)
    <3> DEFINE ss == [session[s] EXCEPT !.held = items]
    <3>1. session' = [session EXCEPT ![s] = ss] /\ UNCHANGED <<cmds, stopping>>
      BY <2>1, <2>2 DEF EnqueueOn, Only
    <3>2. Alike(session[s], ss) /\ ss.status = session[s].status
      BY <1>0 DEF SessionState, Alike
    <3> HIDE DEF ss
    <3>3. \A t \in Sessions : Alike(session[t], session'[t]) /\ session'[t].status = session[t].status
      BY <1>0, <3>1, <3>2 DEF Alike
    <3>4. \A t \in Sessions : Calm(t, <<>>)
      BY <3>3, EachCalm
    <3> QED
      BY <1>0, <3>1, <3>4, CalmLines
  <2>3. CASE ~Asks(s, items)
    <3>1. Queue(s, session[s], items)
      BY <2>1, <2>3 DEF EnqueueOn
    <3> QED
      BY <1>0, <1>2, <3>1 DEF Alike
  <2> QED
    BY <2>2, <2>3
<1> QED
  BY <1>3, <1>4

\* Everything else a user does to a session sends no statement.
LEMMA ActsLine ==
  ASSUME Typed, Agreed, Answering, NEW s \in Sessions, UserActs(s)
  PROVE  Answering'
<1>0. /\ session[s] \in SessionState /\ session \in [Sessions -> SessionState]
      /\ session[s].autocommit \in BOOLEAN
  BY DEF Typed, TypeOK, SessionState
<1>1. CASE Run(s) \/ LoadMore(s) \/ FetchAll(s) \/ ExportAll(s) \/ Release(s)
  BY <1>1, RunsLine
<1>2. ASSUME ~(Run(s) \/ LoadMore(s) \/ FetchAll(s) \/ ExportAll(s) \/ Release(s))
      PROVE  UNCHANGED <<current, early, alive, answers>>
  BY <1>2 DEF UserActs, AskToFetchAll, CancelRunning, DropQueued, ToggleAutocommit, LoadSchema, ExportFetched,
     Reconnect, OpenSession, CloseOrConfirm, CloseConfirmed, Acts, User, untouchedByUser
<1>3. CASE AskToFetchAll(s) \/ CancelRunning(s) \/ DropQueued(s)
  <2>1. UNCHANGED <<cmds, stopping>> /\ UNCHANGED <<current, early, alive, answers>>
    BY <1>3 DEF AskToFetchAll, CancelRunning, DropQueued, Acts, User, untouchedByUser
  <2>2. ASSUME NEW q
        PROVE  /\ Alike(session[s], [session[s] EXCEPT !.queue = q])
               /\ [session[s] EXCEPT !.queue = q].status = session[s].status
    BY <1>0 DEF SessionState, Alike
  <2>3. session' = session \/ \E q : session' = [session EXCEPT ![s] = [session[s] EXCEPT !.queue = q]]
    BY <1>3 DEF AskToFetchAll, CancelRunning, DropQueued, Dropped
  <2>4. \A t \in Sessions : Alike(session[t], session'[t]) /\ session'[t].status = session[t].status
    <3>1. ASSUME NEW q, session' = [session EXCEPT ![s] = [session[s] EXCEPT !.queue = q]]
          PROVE  \A t \in Sessions : Alike(session[t], session'[t]) /\ session'[t].status = session[t].status
      <4> DEFINE b == [session[s] EXCEPT !.queue = q]
      <4>1. Alike(session[s], b) /\ b.status = session[s].status
        BY <2>2
      <4> HIDE DEF b
      <4> QED
        BY <1>0, <3>1, <4>1 DEF Alike, b
    <3> QED
      BY <2>3, <3>1 DEF Alike
  <2>5. \A t \in Sessions : Calm(t, <<>>)
    BY <2>4, EachCalm
  <2> QED
    BY <2>1, <2>5, CalmLines
<1>4. CASE ToggleAutocommit(s) \/ LoadSchema(s) \/ ExportFetched(s)
  <2>1. /\ UNCHANGED session /\ UNCHANGED <<current, early, alive, answers>> /\ session[s].status # "unused"
    BY <1>4 DEF ToggleAutocommit, LoadSchema, ExportFetched, Acts, User, untouchedByUser, Live
  <2>2. \A t \in Sessions : Calm(t, <<>>)
    BY <2>1, EachCalm DEF Alike
  <2>3. {"SetAutocommit", "LoadSchema", "ExportFetched"} \subseteq CommandTypes \ StatementTypes
    BY DEF CommandTypes, StatementTypes
  <2>4. \E type \in CommandTypes \ StatementTypes, on \in BOOLEAN : Deliver(To(s, <<Direct(type, on)>>))
    <3>1. CASE ToggleAutocommit(s)
      BY <1>0, <2>3, <3>1 DEF ToggleAutocommit, SendDirect
    <3>2. CASE LoadSchema(s) \/ ExportFetched(s)
      BY <2>3, <3>2 DEF LoadSchema, ExportFetched, SendDirect
    <3> QED
      BY <1>4, <3>1, <3>2
  <2> QED
    BY <2>1, <2>2, <2>4, CalmLines
<1>5. CASE Reconnect(s) \/ OpenSession(s)
  <2>1. UNCHANGED <<current, early, alive, answers>>
    BY <1>5 DEF Reconnect, OpenSession, Acts, User, untouchedByUser
  <2>2. PICK prod \in BOOLEAN :
          /\ \/ s \in Live /\ session' = [session EXCEPT ![s] =
                  [session[s] EXCEPT !.status = "connecting", !.prod = prod, !.inTx = FALSE,
                                     !.autocommit = TRUE, !.cursor = 0, !.cursorKept = FALSE]]
             \/ session[s].status = "unused" /\ session' = [session EXCEPT ![s] = Fresh("connecting", prod)]
          /\ SendDirect(s, Direct("Connect", prod))
    BY <1>5 DEF Reconnect, OpenSession, Acts, NextId, Unused
  <2> DEFINE b == [session[s] EXCEPT !.status = "connecting", !.prod = prod, !.inTx = FALSE,
                                     !.autocommit = TRUE, !.cursor = 0, !.cursorKept = FALSE]
             f == Fresh("connecting", prod)
  <2>3. Alike(session[s], b) /\ b.status = "connecting"
    BY <1>0 DEF SessionState, Alike
  <2>4. Alike(Fresh("unused", FALSE), f) /\ f.status = "connecting"
    BY DEF Fresh, Alike
  <2> HIDE DEF b, f
  <2>5. \/ s \in Live /\ session' = [session EXCEPT ![s] = b]
        \/ session[s].status = "unused" /\ session' = [session EXCEPT ![s] = f]
    BY <2>2 DEF b, f
  <2>6. session'[s].status # "unused"
    BY <1>0, <2>3, <2>4, <2>5
  <2>7. \A t \in Sessions \ {s} : Alike(session[t], session'[t]) /\ session'[t].status = session[t].status
    BY <1>0, <2>5 DEF Alike
  <2>8. \/ s \in Live /\ Alike(session[s], session'[s])
        \/ session[s].status = "unused" /\ Alike(Fresh("unused", FALSE), session'[s])
    BY <1>0, <2>3, <2>4, <2>5
  <2>9. \A t \in Sessions : Calm(t, <<>>)
    BY <2>6, <2>7, <2>8, EachCalm
  <2>10. "Connect" \in CommandTypes \ StatementTypes
    BY DEF CommandTypes, StatementTypes
  <2>11. Deliver(To(s, <<Direct("Connect", prod)>>))
    BY <2>2 DEF SendDirect
  <2> QED
    BY <2>1, <2>6, <2>9, <2>10, <2>11, CalmLines
<1>6. CASE CloseOrConfirm(s) \/ CloseConfirmed(s)
  <2>1. UNCHANGED <<current, early, alive, answers>>
    BY <1>6 DEF CloseOrConfirm, CloseConfirmed, Acts, User, untouchedByUser
  <2>2. CASE Close(s)
    <3> DEFINE gone == Fresh("closed", FALSE)
               f == Fresh("connecting", FALSE)
    <3>1. gone.status = "closed" /\ f.status = "connecting" /\ Alike(Fresh("unused", FALSE), f)
      BY DEF Fresh, Alike
    <3>2. \/ session' = [session EXCEPT ![s] = gone] /\ UNCHANGED <<cmds, stopping>>
          \/ \E new \in Sessions :
               /\ session[new].status = "unused" /\ session' = [session EXCEPT ![s] = gone, ![new] = f]
               /\ Deliver(To(new, <<Direct("Connect", FALSE)>>))
      BY <2>2 DEF Close, NextId, Unused
    <3> HIDE DEF gone, f
    <3>3. CASE session' = [session EXCEPT ![s] = gone] /\ UNCHANGED <<cmds, stopping>>
      <4>1. /\ session'[s].status = "closed"
            /\ \A t \in Sessions \ {s} : Alike(session[t], session'[t]) /\ session'[t].status = session[t].status
        BY <1>0, <3>1, <3>3 DEF Alike
      <4>2. \A t \in Sessions : Calm(t, <<>>)
        BY <4>1, EachCalm
      <4> QED
        BY <2>1, <3>3, <4>2, CalmLines
    <3>4. ASSUME NEW new \in Sessions, session[new].status = "unused",
                 session' = [session EXCEPT ![s] = gone, ![new] = f],
                 Deliver(To(new, <<Direct("Connect", FALSE)>>))
          PROVE  Answering'
      <4>1. session'[new] = f
        BY <1>0, <3>4
      <4>2. ASSUME NEW t \in Sessions \ {new}
            PROVE  \/ session'[t].status = "closed"
                   \/ Alike(session[t], session'[t]) /\ session'[t].status = session[t].status
        BY <1>0, <3>1, <3>4 DEF Alike
      <4>3. session'[new].status # "unused" /\ Alike(Fresh("unused", FALSE), session'[new])
        BY <3>1, <4>1
      <4>4. \A t \in Sessions : Calm(t, <<>>)
        BY <3>4, <4>2, <4>3, EachCalm
      <4>5. "Connect" \in CommandTypes \ StatementTypes
        BY DEF CommandTypes, StatementTypes
      <4> QED
        BY <2>1, <3>4, <4>3, <4>4, <4>5, CalmLines
    <3> QED
      BY <3>2, <3>3, <3>4
  <2>3. CASE UNCHANGED <<session, cmds, stopping>>
    <3>1. \A t \in Sessions : Calm(t, <<>>)
      BY <2>3, EachCalm DEF Alike
    <3> QED
      BY <2>1, <2>3, <3>1, CalmLines
  <2> QED
    BY <1>6, <2>2, <2>3 DEF CloseOrConfirm, CloseConfirmed
<1> QED
  BY <1>1, <1>3, <1>4, <1>5, <1>6 DEF UserActs

\* The answer that is out is the one heard when it ends what is in flight, and
\* no other answer ends it.
LEMMA HeardIsTheOne ==
  ASSUME NEW ss \in SessionState, NEW q, NEW c, NEW a \in Seq(AnswerSet), a # <<>>, Lined(ss, q, c, a)
  PROVE  IF EndsIt(ss, Head(a))
           THEN \A after : EndsAs(ss, after) => Lined(after, q, c, Tail(a))
           ELSE \A after : Alike(ss, after) => Lined(after, q, c, Tail(a))
<1> DEFINE h == Head(a)
           t == Tail(a)
           item == ss.inFlight
           G == TellingOf(item)
<1>1. /\ h \in AnswerSet /\ h = a[1] /\ 1 \in DOMAIN a
      /\ \A i \in DOMAIN t : i + 1 \in DOMAIN a /\ t[i] = a[i + 1]
  BY HeadAndTail
<1>2. /\ NoneIn(a, Telling) => h \notin Telling /\ NoneIn(t, Telling)
      /\ OneIn(a, Telling, G) => \/ h \in G /\ NoneIn(t, Telling)
                                 \/ h \notin Telling /\ OneIn(t, Telling, G)
  <2>1. G \subseteq Telling
    BY DEF TellingOf
  <2> HIDE DEF G
  <2> QED
    BY <2>1, OnAChannel
<1>3. h.type \in Ending /\ h.job = NoJob => h.type = "Exported"
  BY <1>1 DEF Lined
<1>4. \A i \in DOMAIN t : t[i].type \in Ending /\ t[i].job = NoJob => t[i].type = "Exported"
  BY <1>1 DEF Lined
<1> HIDE DEF h, t
<1>5. CASE EndsIt(ss, h)
  <2>1. h \in Telling
    BY <1>1, <1>3, <1>5 DEF EndsIt, Telling, Ending
  <2>2. /\ item # NoItem /\ NoneIn(q, Asking) /\ c \notin Asking /\ NoneIn(t, Telling)
        /\ ss.running = 1 /\ ss.txChanges = <<ChangeOf(item)>>
    <3>1. item # NoItem
      BY <1>2, <2>1 DEF Lined
    <3>2. OutAt(item, q, c, a) /\ ss.running = 1 /\ ss.txChanges = <<ChangeOf(item)>>
      BY <3>1 DEF Lined
    <3> QED
      BY <1>2, <2>1, <3>1, <3>2 DEF OutAt
  <2>3. ASSUME NEW after, EndsAs(ss, after) PROVE Lined(after, q, c, t)
    <3>1. after.inFlight = NoItem /\ after.running = Less(ss.running) /\ after.txChanges = Rest(ss.txChanges)
      BY <2>3 DEF EndsAs
    <3>2. after.running = 0
      BY <2>2, <3>1 DEF Less
    <3>3. after.txChanges = <<>>
      BY <2>2, <3>1 DEF Rest
    <3> QED
      BY <1>4, <2>2, <3>1, <3>2, <3>3 DEF Lined
  <2> QED
    BY <1>5, <2>3 DEF h, t
<1>6. CASE ~EndsIt(ss, h)
  <2>1. item # NoItem => h \notin G
    <3>1. item # NoItem => item.how \in Hows
      BY DEF SessionState, Item
    <3>2. item.how \in Hows => h \notin G
      BY <1>6 DEF TellingOf, Telling, EndsOf, EndsIt, Hows
    <3> QED
      BY <3>1, <3>2
  <2>2. ASSUME NEW after, Alike(ss, after) PROVE Lined(after, q, c, t)
    <3>1. CASE item = NoItem
      <4>1. NoneIn(q, Asking) /\ c \notin Asking /\ NoneIn(a, Telling) /\ ss.running = 0 /\ ss.txChanges = <<>>
        BY <3>1 DEF Lined
      <4> QED
        BY <1>2, <1>4, <2>2, <3>1, <4>1 DEF Lined, Alike
    <3>2. CASE item # NoItem
      <4>1. /\ OutAt(item, q, c, a) /\ item.job # NoJob
            /\ ss.running = 1 /\ ss.txChanges = <<ChangeOf(item)>>
        BY <3>2 DEF Lined
      <4>2. OutAt(item, q, c, t)
        BY <1>2, <2>1, <3>2, <4>1 DEF OutAt
      <4> QED
        BY <1>4, <2>2, <3>2, <4>1, <4>2 DEF Lined, Alike
    <3> QED
      BY <3>1, <3>2
  <2> QED
    BY <1>6, <2>2 DEF h, t
<1> QED
  BY <1>5, <1>6

\* Hearing an answer keeps the line: the next statement goes out only behind
\* the answer to the last.
LEMMA HearLine ==
  ASSUME Typed, Agreed, Answering, NEW s \in Sessions, Hear(s)
  PROVE  Answering'
<1> DEFINE ss == session[s]
           a == answers[s]
           q == cmds[s]
           c == current[s]
<1>0. /\ ss \in SessionState /\ session \in [Sessions -> SessionState] /\ a \in Seq(AnswerSet) /\ a # <<>>
      /\ q \in Seq(CommandSet) /\ answers' = [answers EXCEPT ![s] = Tail(a)]
      /\ answers \in [Sessions -> Seq(AnswerSet)] /\ UNCHANGED <<current, early, alive>>
      /\ Tail(a) \in Seq(AnswerSet)
  BY HeadAndTail DEF Hear, Typed, TypeOK, ChannelsOK
<1>1. \A t \in Sessions : /\ Aside(t)
                          /\ t \in Live /\ alive[t] => Lined(session[t], cmds[t], current[t], answers[t])
  BY DEF Answering
<1>2. CASE s \notin Live
  <2>1. UNCHANGED session /\ UNCHANGED <<cmds, stopping>>
    BY <1>0, <1>2 DEF Hear, Only
  <2>2. ss.status # "unused"
    BY <1>0, <1>1 DEF Aside
  <2>3. ASSUME NEW t \in Sessions
        PROVE  /\ Aside(t)'
               /\ t \in Live' /\ alive'[t] => Lined(session'[t], cmds'[t], current'[t], answers'[t])
    <3>1. CASE t = s
      BY <1>0, <1>1, <1>2, <2>1, <2>2, <3>1 DEF Aside, Live
    <3>2. CASE t # s
      BY <1>0, <1>1, <2>1, <3>2 DEF Aside, Live
    <3> QED
      BY <3>1, <3>2
  <2> QED
    BY <2>3 DEF Answering
<1>3. CASE s \in Live
  <2>1. ss.status # "unused"
    BY <1>3 DEF Live
  <2>2. ASSUME NEW after \in SessionState, after.status # "unused", NEW out \in Seq(CommandSet),
               session' = [session EXCEPT ![s] = after],
               cmds' = [t \in Sessions |-> IF alive[t] /\ t = s THEN q \o out ELSE cmds[t]],
               \A t \in Sessions : stopping'[t] => stopping[t] \/ ~alive[t],
               alive[s] => Lined(after, q \o out, c, Tail(a))
        PROVE  Answering'
    <3>1. ASSUME NEW t \in Sessions
          PROVE  /\ Aside(t)'
                 /\ t \in Live' /\ alive'[t] => Lined(session'[t], cmds'[t], current'[t], answers'[t])
      <4>1. CASE t = s
        BY <1>0, <1>1, <2>2, <4>1 DEF Aside
      <4>2. CASE t # s
        BY <1>0, <1>1, <2>2, <4>2 DEF Aside, Live
      <4> QED
        BY <4>1, <4>2
    <3> QED
      BY <3>1 DEF Answering
  <2>3. CASE EndsIt(ss, Head(a))
    <3>1. PICK after, js : EndsAs(ss, after) /\ Pump(s, after, js)
      BY <1>3, <2>3, HearShape
    <3>2. after \in SessionState /\ after.status # "unused" /\ after.queue \in {ss.queue, <<>>}
      BY <2>1, <3>1 DEF EndsAs
    <3>3. \A i \in DOMAIN after.queue : after.queue[i].job # NoJob
      BY <3>2, QueuedAreMade
    <3>4. alive[s] => Lined(after, q, c, Tail(a))
      BY <1>0, <1>1, <1>3, <2>3, <3>1, HeardIsTheOne
    <3>5. alive[s] => Lined(Pumped(after), q \o Sent(after), c, Tail(a))
      BY <1>0, <3>2, <3>3, <3>4, PumpLines
    <3>6. /\ Pumped(after) \in SessionState /\ Pumped(after).status # "unused"
          /\ Sent(after) \in Seq(CommandSet)
      BY <3>2, PumpedTyped DEF Pumped, SessionState
    <3>7. /\ session' = [session EXCEPT ![s] = Pumped(after)]
          /\ \A t \in Sessions : stopping'[t] => stopping[t] \/ ~alive[t]
      BY <3>1 DEF Pump, Deliver
    <3>8. cmds' = [t \in Sessions |-> IF alive[t] /\ t = s THEN q \o Sent(after) ELSE cmds[t]]
      <4>1. cmds' = [t \in Sessions |-> IF alive[t] THEN cmds[t] \o To(s, Sent(after))[t] ELSE cmds[t]]
        BY <3>1 DEF Pump, Deliver
      <4>2. \A t \in Sessions : To(s, Sent(after))[t] = IF t = s THEN Sent(after) ELSE <<>>
        BY DEF To
      <4>3. \A t \in Sessions : cmds[t] \o <<>> = cmds[t]
        BY DEF Typed, ChannelsOK
      <4> QED
        BY <4>1, <4>2, <4>3
    <3> QED
      BY <2>2, <3>5, <3>6, <3>7, <3>8
  <2>4. CASE ~EndsIt(ss, Head(a))
    <3>1. PICK after : StaysAs(ss, after) /\ Only(s, after)
      BY <1>3, <2>4, HearShape
    <3>2. after \in SessionState /\ after.status # "unused" /\ Alike(ss, after)
      BY <2>1, <3>1 DEF StaysAs, Alike
    <3>3. alive[s] => Lined(after, q, c, Tail(a))
      BY <1>0, <1>1, <1>3, <2>4, <3>2, HeardIsTheOne
    <3>4. q \o <<>> = q /\ <<>> \in Seq(CommandSet)
      BY <1>0
    <3>5. cmds' = [t \in Sessions |-> IF alive[t] /\ t = s THEN q \o <<>> ELSE cmds[t]]
      <4>1. cmds' = cmds /\ cmds = [t \in Sessions |-> cmds[t]]
        BY <3>1 DEF Only, Typed, ChannelsOK
      <4> QED
        BY <3>4, <4>1
    <3> QED
      BY <2>2, <3>1, <3>2, <3>3, <3>4, <3>5 DEF Only
  <2> QED
    BY <2>3, <2>4
<1> QED
  BY <1>2, <1>3

\* A command that is a statement ends with the answer that ends it, the others
\* with one that ends none.
Tells(c, x) ==
  /\ x \in AnswerSet
  /\ c.type \in StatementTypes => x.job = c.job
  /\ c.type \in {"Query", "QueryAll"} => x.type \in {"QueryDone", "QueryStopped", "QueryFailed"}
  /\ c.type = "FetchMore" => x.type = "MoreRows"
  /\ c.type = "Export" => x.type \in {"Exported", "ExportFailed"}
  /\ c.type \notin StatementTypes => x.type \notin Ending \/ (x.type = "Exported" /\ x.job = NoJob)

\* Every end of a command is that one answer, behind what it answers first.
LEMMA EndTells ==
  ASSUME Typed, NEW s \in Sessions, EndCommand(s)
  PROVE  \E type, x, last :
           /\ Ends(s, type, last) /\ Tells(current[s], x)
           /\ last = <<x>> \/ last = <<Answer("CursorKept"), x>>
<1> DEFINE c == current[s]
           job == c.job
           Told1(type, x) == Ends(s, type, <<x>>) /\ Tells(c, x)
           Goal == \E type, x, last :
                     /\ Ends(s, type, last) /\ Tells(c, x)
                     /\ last = <<x>> \/ last = <<Answer("CursorKept"), x>>
<1>0. job \in Nat /\ c.on \in BOOLEAN
  BY DEF Typed, ChannelsOK, CommandSet
<1>1. /\ MaxRows \in Nat /\ MaxRows > 0 /\ MaxStream \in Nat
      /\ stream[s].read \in Nat /\ stream[s].job \in Nat
      /\ <<>> \in Rows
  BY WorkerAssumption DEF Typed, ChannelsOK, Rows
<1>2. ASSUME NEW type, NEW x, Told1(type, x) PROVE Goal
  BY <1>2
<1> SUFFICES Goal
  OBVIOUS
<1> HIDE DEF Goal
<1>3. ASSUME NEW type \in {"Query", "QueryAll"}, QueryFails(s, type) \/ QueryExecutes(s, type) PROVE Goal
  <2> DEFINE x == RowsAnswer("QueryFailed", job, <<>>, FALSE, FALSE)
             y == RowsAnswer("QueryDone", job, <<>>, FALSE, TRUE)
  <2>1. x \in AnswerSet /\ x.type = "QueryFailed" /\ x.job = job
    BY <1>0, <1>1, AnswerTyped DEF RowsAnswer, AnswerTypes, Ending
  <2>2. y \in AnswerSet /\ y.type = "QueryDone" /\ y.job = job
    BY <1>0, <1>1, AnswerTyped DEF RowsAnswer, AnswerTypes, Ending
  <2>3. c.type = type /\ (Ends(s, type, <<x>>) \/ Ends(s, type, <<y>>))
    BY <1>3 DEF QueryFails, QueryExecutes, Ends
  <2> HIDE DEF x, y
  <2>4. Tells(c, x) /\ Tells(c, y)
    BY <2>1, <2>2, <2>3 DEF Tells, StatementTypes
  <2> QED
    BY <1>2, <2>3, <2>4
<1>4. ASSUME NEW type \in {"Query", "QueryAll"}, NEW limit \in Nat, ReadEnds(s, type, limit) \/ ReadStops(s, type, limit)
      PROVE  Goal
  <2>1. ASSUME NEW n \in 0..limit, NEW end \in {"QueryDone", "QueryStopped"}, NEW ok \in BOOLEAN,
               Ends(s, type, <<RowsAnswer(end, job, RowsOf(job, 0, n), FALSE, ok)>>)
        PROVE  Goal
    <3> DEFINE x == RowsAnswer(end, job, RowsOf(job, 0, n), FALSE, ok)
    <3>1. RowsOf(job, 0, n) \in Rows
      BY <1>0, RowsOfTyped
    <3>2. x \in AnswerSet /\ x.type = end /\ x.job = job
      BY <1>0, <3>1, AnswerTyped DEF RowsAnswer, AnswerTypes, Ending
    <3>3. c.type = type
      BY <2>1 DEF Ends
    <3> HIDE DEF x
    <3>4. Tells(c, x)
      BY <3>2, <3>3 DEF Tells, StatementTypes
    <3> QED
      BY <1>2, <2>1, <3>4 DEF x
  <2>2. CASE ReadEnds(s, type, limit)
    BY <2>1, <2>2 DEF ReadEnds
  <2>3. CASE ReadStops(s, type, limit)
    <3>1. PICK n \in 1..limit :
            Ends(s, type, <<RowsAnswer("QueryStopped", current[s].job, RowsOf(current[s].job, 0, n), FALSE, FALSE)>>)
      BY <2>3 DEF ReadStops
    <3>2. n \in 0..limit
      OBVIOUS
    <3> QED
      BY <2>1, <3>1, <3>2
  <2> QED
    BY <1>4, <2>2, <2>3
<1>5. CASE ReadKept(s)
  <2> DEFINE x == RowsAnswer("QueryDone", job, RowsOf(job, 0, MaxRows), TRUE, TRUE)
  <2>1. RowsOf(job, 0, MaxRows) \in Rows
    BY <1>0, <1>1, RowsOfTyped
  <2>2. x \in AnswerSet /\ x.type = "QueryDone" /\ x.job = job
    BY <1>0, <2>1, AnswerTyped DEF RowsAnswer, AnswerTypes, Ending
  <2>3. Ends(s, "Query", <<Answer("CursorKept"), x>>) /\ c.type = "Query"
    BY <1>5 DEF ReadKept, Ends
  <2> HIDE DEF x
  <2>4. Tells(c, x)
    BY <2>2, <2>3 DEF Tells, StatementTypes
  <2> QED
    BY <2>3, <2>4 DEF Goal
<1>6. CASE ReadOn(s)
  <2>1. ASSUME NEW to \in Nat, stream[s].read <= to, NEW more \in BOOLEAN, NEW ok \in BOOLEAN,
               Ends(s, "FetchMore", <<RowsAnswer("MoreRows", job, RowsOf(stream[s].job, stream[s].read, to), more, ok)>>)
        PROVE  Goal
    <3> DEFINE x == RowsAnswer("MoreRows", job, RowsOf(stream[s].job, stream[s].read, to), more, ok)
    <3>1. RowsOf(stream[s].job, stream[s].read, to) \in Rows
      BY <1>1, <2>1, RowsOfTyped
    <3>2. x \in AnswerSet /\ x.type = "MoreRows" /\ x.job = job
      BY <1>0, <3>1, AnswerTyped DEF RowsAnswer, AnswerTypes, Ending
    <3>3. c.type = "FetchMore"
      BY <2>1 DEF Ends
    <3> HIDE DEF x
    <3>4. Tells(c, x)
      BY <3>2, <3>3 DEF Tells, StatementTypes
    <3> QED
      BY <1>2, <2>1, <3>4 DEF x
  <2> DEFINE from == stream[s].read
             Reads(to, more, ok) ==
               Ends(s, "FetchMore", <<RowsAnswer("MoreRows", job, RowsOf(stream[s].job, from, to), more, ok)>>)
  <2>2. \A to \in Nat, more \in BOOLEAN, ok \in BOOLEAN : from <= to /\ Reads(to, more, ok) => Goal
    BY <2>1
  <2>3. \/ Reads(from, FALSE, FALSE) \/ Reads(from + MaxRows, TRUE, TRUE)
        \/ \E n \in 1..MaxRows, ok \in BOOLEAN : Reads(from + n, FALSE, ok)
    BY <1>6 DEF ReadOn
  <2>4. /\ from \in Nat /\ from <= from /\ from + MaxRows \in Nat /\ from <= from + MaxRows
        /\ \A n \in 1..MaxRows : from + n \in Nat /\ from <= from + n
    BY <1>1
  <2> HIDE DEF Reads, from
  <2> QED
    BY <2>2, <2>3, <2>4
<1>7. CASE ExportEnds(s)
  <2>1. PICK ok \in BOOLEAN :
          Ends(s, "Export", <<RowsAnswer(IF ok THEN "Exported" ELSE "ExportFailed", job, <<>>, FALSE, ok)>>)
    BY <1>7 DEF ExportEnds
  <2> DEFINE end == IF ok THEN "Exported" ELSE "ExportFailed"
             x == RowsAnswer(end, job, <<>>, FALSE, ok)
  <2>2. end \in {"Exported", "ExportFailed"}
    OBVIOUS
  <2> HIDE DEF end
  <2>3. x \in AnswerSet /\ x.type = end /\ x.job = job
    BY <1>0, <1>1, <2>2, AnswerTyped DEF RowsAnswer, AnswerTypes, Ending
  <2>4. c.type = "Export" /\ Ends(s, "Export", <<x>>)
    BY <2>1 DEF Ends, end
  <2> HIDE DEF x
  <2>5. Tells(c, x)
    BY <2>2, <2>3, <2>4 DEF Tells, StatementTypes
  <2> QED
    BY <1>2, <2>4, <2>5
<1>8. CASE ExportFetchedEnds(s) \/ SchemaEnds(s) \/ ConnectEnds(s)
  <2>1. PICK type \in {"ExportFetched", "LoadSchema", "Connect"},
             end \in {"Exported", "Schema", "Connected", "ConnectFailed"} :
          Ends(s, type, <<Answer(end)>>)
    BY <1>8 DEF ExportFetchedEnds, SchemaEnds, ConnectEnds
  <2> DEFINE x == Answer(end)
  <2>2. x \in AnswerSet
    <3>1. end \in AnswerTypes
      BY DEF AnswerTypes, Ending
    <3> QED
      BY <3>1, <1>1, AnswerTyped DEF NoJob
  <2>3. x.type = end /\ x.job = NoJob
    BY DEF Answer
  <2>4. c.type = type
    BY <2>1 DEF Ends
  <2> HIDE DEF x
  <2>5. Tells(c, x)
    BY <2>2, <2>3, <2>4 DEF Tells, StatementTypes, Ending
  <2> QED
    BY <1>2, <2>1, <2>5 DEF x
<1>9. CASE AutocommitEnds(s)
  <2>1. PICK ok \in BOOLEAN : Ends(s, "SetAutocommit", <<RowsAnswer("Autocommit", NoJob, <<>>, c.on, ok)>>)
    BY <1>9 DEF AutocommitEnds
  <2> DEFINE x == RowsAnswer("Autocommit", NoJob, <<>>, c.on, ok)
  <2>2. x \in AnswerSet /\ x.type = "Autocommit"
    BY <1>0, <1>1, AnswerTyped DEF RowsAnswer, AnswerTypes, NoJob
  <2>3. c.type = "SetAutocommit" /\ Ends(s, "SetAutocommit", <<x>>)
    BY <2>1 DEF Ends
  <2> HIDE DEF x
  <2>4. Tells(c, x)
    BY <2>2, <2>3 DEF Tells, StatementTypes, Ending
  <2> QED
    BY <1>2, <2>3, <2>4
<1>10. CASE QueryFails(s, "Query") \/ QueryFails(s, "QueryAll") \/ QueryExecutes(s, "Query")
  BY <1>3, <1>10
<1>11. CASE \/ ReadEnds(s, "Query", MaxRows) \/ ReadEnds(s, "QueryAll", MaxStream)
            \/ ReadStops(s, "Query", MaxRows) \/ ReadStops(s, "QueryAll", MaxStream)
  BY <1>1, <1>4, <1>11
<1> QED
  BY <1>5, <1>6, <1>7, <1>8, <1>9, <1>10, <1>11 DEF EndCommand

\* What a worker does to its own channels keeps the line when it keeps its own.
LEMMA OwnLine ==
  ASSUME Answering, NEW s \in Sessions,
         \A t \in Sessions \ {s} :
           /\ session'[t] = session[t] /\ cmds'[t] = cmds[t] /\ current'[t] = current[t]
           /\ early'[t] = early[t] /\ answers'[t] = answers[t]
           /\ alive'[t] = alive[t] /\ stopping'[t] = stopping[t],
         Aside(s)', s \in Live' /\ alive'[s] => Lined(session'[s], cmds'[s], current'[s], answers'[s])
  PROVE  Answering'
<1> SUFFICES ASSUME NEW t \in Sessions \ {s}
             PROVE  /\ Aside(t)'
                    /\ t \in Live' /\ alive'[t] => Lined(session'[t], cmds'[t], current'[t], answers'[t])
  BY DEF Answering
<1>1. Aside(t) /\ (t \in Live /\ alive[t] => Lined(session[t], cmds[t], current[t], answers[t]))
  BY DEF Answering
<1>2. Aside(t)'
  BY <1>1 DEF Aside
<1>3. t \in Live' => t \in Live
  BY DEF Live
<1> QED
  BY <1>1, <1>2, <1>3

\* The statement's command moves on to be carried out.
LEMMA TakeLines ==
  ASSUME NEW ss \in SessionState, NEW q \in Seq(CommandSet), q # <<>>, NEW a, Lined(ss, q, NoCommand, a)
  PROVE  Lined(ss, Tail(q), Head(q), a)
<1> DEFINE item == ss.inFlight
           G == {CommandOf(item)}
<1>1. NoCommand \notin Asking
  BY DEF NoCommand, Direct, Asking, StatementTypes
<1>2. NoneIn(q, Asking) => Head(q) \notin Asking /\ NoneIn(Tail(q), Asking)
  BY OnAChannel
<1>3. CASE item = NoItem
  BY <1>2, <1>3 DEF Lined
<1>4. CASE item # NoItem
  <2>1. OutAt(item, q, NoCommand, a)
    BY <1>4 DEF Lined
  <2>2. CommandOf(item) \in Asking
    BY <1>4, CommandAsks DEF SessionState
  <2>3. G \subseteq Asking
    BY <2>2
  <2> HIDE DEF G
  <2>4. OneIn(q, Asking, G) => \/ Head(q) \in G /\ NoneIn(Tail(q), Asking)
                               \/ Head(q) \notin Asking /\ OneIn(Tail(q), Asking, G)
    BY <2>3, OnAChannel
  <2>5. OutAt(item, Tail(q), Head(q), a)
    BY <1>1, <1>2, <2>1, <2>2, <2>4 DEF OutAt, G
  <2> QED
    BY <1>4, <2>5 DEF Lined
<1> QED
  BY <1>3, <1>4

\* The answers of a command, the one that ends it last.
LEMMA LastOnAChannel ==
  ASSUME NEW x, NEW y, NEW last, last = <<x>> \/ last = <<y, x>>, NEW B, y \notin B
  PROVE  /\ x \notin B => NoneIn(last, B)
         /\ \A G : x \in G => OneIn(last, B, G)
<1>1. DOMAIN <<x>> = {1} /\ <<x>>[1] = x
  OBVIOUS
<1>2. DOMAIN <<y, x>> = {1, 2} /\ <<y, x>>[1] = y /\ <<y, x>>[2] = x
  OBVIOUS
<1>3. CASE last = <<x>>
  BY <1>1, <1>3 DEF NoneIn, OneIn
<1>4. CASE last = <<y, x>>
  <2>1. x \notin B => NoneIn(last, B)
    BY <1>2, <1>4 DEF NoneIn
  <2>2. ASSUME NEW G, x \in G PROVE OneIn(last, B, G)
    <3>1. 2 \in DOMAIN last /\ last[2] \in G /\ \A j \in DOMAIN last \ {2} : last[j] \notin B
      BY <1>2, <1>4, <2>2
    <3> QED
      BY <3>1 DEF OneIn
  <2> QED
    BY <2>1, <2>2
<1> QED
  BY <1>3, <1>4

\* The statement ends in its answer, any other command in one that ends none.
LEMMA EndLines ==
  ASSUME NEW ss \in SessionState, NEW q, NEW c \in CommandSet, NEW a \in Seq(AnswerSet), Lined(ss, q, c, a),
         NEW e \in Seq(AnswerSet), \A i \in DOMAIN e : e[i].type \notin Ending,
         NEW x, Tells(c, x), NEW last \in Seq(AnswerSet),
         last = <<x>> \/ last = <<Answer("CursorKept"), x>>
  PROVE  Lined(ss, q, NoCommand, a \o e \o last)
<1> DEFINE item == ss.inFlight
           Lost == {b \in AnswerSet : b.type \in Ending /\ b.job = NoJob /\ b.type # "Exported"}
           y == Answer("CursorKept")
           r == (a \o e) \o last
<1>1. /\ x \in AnswerSet /\ NoCommand \notin Asking
      /\ y.type \notin Ending /\ y \notin Telling /\ y \notin Lost
  BY DEF Tells, NoCommand, Direct, Asking, StatementTypes, Answer, Ending, Telling
<1>2. NoneIn(e, Telling) /\ NoneIn(e, Lost)
  BY DEF NoneIn, Telling
<1>3. a \o e \in Seq(AnswerSet) /\ r \in Seq(AnswerSet)
  OBVIOUS
<1> HIDE DEF y
<1>4. \A B, G : G \subseteq B =>
        /\ NoneIn(a, B) /\ NoneIn(e, B) /\ NoneIn(last, B) => NoneIn(r, B)
        /\ NoneIn(a, B) /\ NoneIn(e, B) /\ OneIn(last, B, G) => OneIn(r, B, G)
        /\ OneIn(a, B, G) /\ NoneIn(e, B) /\ NoneIn(last, B) => OneIn(r, B, G)
  <2> SUFFICES ASSUME NEW B, NEW G, G \subseteq B
               PROVE  /\ NoneIn(a, B) /\ NoneIn(e, B) /\ NoneIn(last, B) => NoneIn(r, B)
                      /\ NoneIn(a, B) /\ NoneIn(e, B) /\ OneIn(last, B, G) => OneIn(r, B, G)
                      /\ OneIn(a, B, G) /\ NoneIn(e, B) /\ NoneIn(last, B) => OneIn(r, B, G)
    OBVIOUS
  <2> DEFINE ae == a \o e
  <2>1. /\ NoneIn(a, B) /\ NoneIn(e, B) => NoneIn(ae, B)
        /\ OneIn(a, B, G) /\ NoneIn(e, B) => OneIn(ae, B, G)
    BY OnAChannel
  <2>2. ae \in Seq(AnswerSet)
    BY <1>3
  <2> HIDE DEF ae
  <2>3. /\ NoneIn(ae, B) /\ NoneIn(last, B) => NoneIn(ae \o last, B)
        /\ OneIn(ae, B, G) /\ NoneIn(last, B) => OneIn(ae \o last, B, G)
        /\ NoneIn(ae, B) /\ OneIn(last, B, G) => OneIn(ae \o last, B, G)
    BY <2>2, OnAChannel
  <2> QED
    BY <2>1, <2>3 DEF ae
<1>5. /\ \A B : x \notin B /\ y \notin B => NoneIn(last, B)
      /\ \A B, G : x \in G /\ y \notin B => OneIn(last, B, G)
  BY LastOnAChannel DEF y
<1>6. NoneIn(a, Lost)
  BY DEF Lined, NoneIn
<1>7. NoneIn(r, Lost) => \A i \in DOMAIN r : r[i].type \in Ending /\ r[i].job = NoJob => r[i].type = "Exported"
  BY <1>3 DEF NoneIn
<1> HIDE DEF Lost, r
<1>8. CASE c \in Asking
  <2>1. item # NoItem
    BY <1>8 DEF Lined
  <2>2. /\ item \in Item /\ item.job # NoJob /\ OutAt(item, q, c, a)
        /\ ss.running = 1 /\ ss.txChanges = <<ChangeOf(item)>>
    BY <2>1 DEF Lined, SessionState
  <2>3. NoneIn(q, Asking) /\ c = CommandOf(item) /\ NoneIn(a, Telling)
    BY <1>8, <2>2 DEF OutAt
  <2>4. c.type \in StatementTypes /\ c.job = item.job
    BY <1>8, <2>2, <2>3, CommandAsks DEF Asking
  <2>5. x.job = item.job /\ x \notin Lost
    BY <2>2, <2>4 DEF Tells, Lost
  <2>6. x.type \in EndsOf(item.how)
    BY <2>2, <2>3 DEF Tells, EndsOf, CommandOf, Statement, Item, Hows
  <2>7. EndsOf(item.how) \subseteq Ending
    BY <2>2 DEF EndsOf, Ending, Item, Hows
  <2>8. x \in TellingOf(item) /\ TellingOf(item) \subseteq Telling
    BY <1>1, <2>2, <2>5, <2>6, <2>7 DEF TellingOf, Telling
  <2>9. OneIn(last, Telling, TellingOf(item)) /\ NoneIn(last, Lost)
    BY <1>1, <1>5, <2>5, <2>8
  <2>10. OneIn(r, Telling, TellingOf(item)) /\ NoneIn(r, Lost)
    BY <1>2, <1>4, <1>6, <2>3, <2>8, <2>9
  <2>11. OutAt(item, q, NoCommand, r)
    BY <1>1, <2>3, <2>10 DEF OutAt
  <2>12. Lined(ss, q, NoCommand, r)
    BY <1>7, <2>1, <2>2, <2>10, <2>11 DEF Lined
  <2> QED
    BY <2>12 DEF r
<1>9. CASE c \notin Asking
  <2>1. c.type \notin StatementTypes
    BY <1>9 DEF Asking
  <2>2. x \notin Telling /\ x \notin Lost
    BY <2>1 DEF Tells, Telling, Lost
  <2>3. NoneIn(last, Telling) /\ NoneIn(last, Lost)
    BY <1>1, <1>5, <2>2
  <2>4. NoneIn(r, Lost) /\ (NoneIn(a, Telling) => NoneIn(r, Telling))
    BY <1>2, <1>4, <1>6, <2>3
  <2>5. CASE item = NoItem
    <3>1. /\ NoneIn(q, Asking) /\ NoneIn(a, Telling)
          /\ ss.running = 0 /\ ss.txChanges = <<>>
      BY <2>5 DEF Lined
    <3>2. Lined(ss, q, NoCommand, r)
      BY <1>1, <1>7, <2>4, <2>5, <3>1 DEF Lined
    <3> QED
      BY <3>2 DEF r
  <2>6. CASE item # NoItem
    <3>1. /\ item \in Item /\ item.job # NoJob /\ OutAt(item, q, c, a)
          /\ ss.running = 1 /\ ss.txChanges = <<ChangeOf(item)>>
      BY <2>6 DEF Lined, SessionState
    <3>2. c # CommandOf(item)
      BY <1>9, <3>1, CommandAsks
    <3>3. TellingOf(item) \subseteq Telling
      BY DEF TellingOf
    <3>4. OneIn(a, Telling, TellingOf(item)) => OneIn(r, Telling, TellingOf(item))
      BY <1>2, <1>4, <2>3, <3>3
    <3>5. OutAt(item, q, NoCommand, r)
      BY <1>1, <2>4, <3>1, <3>2, <3>4 DEF OutAt
    <3>6. Lined(ss, q, NoCommand, r)
      BY <1>7, <2>4, <2>6, <3>1, <3>5 DEF Lined
    <3> QED
      BY <3>6 DEF r
  <2> QED
    BY <2>5, <2>6
<1> QED
  BY <1>8, <1>9

\* The workers keep the line, those that die included: they take it with them.
LEMMA WorkLine ==
  ASSUME Typed, Answering, NEW s \in Sessions, Work(s)
  PROVE  Answering'
<1> DEFINE ss == session[s]
           q == cmds[s]
           a == answers[s]
<1>0. /\ ss \in SessionState /\ q \in Seq(CommandSet) /\ a \in Seq(AnswerSet) /\ current[s] \in CommandSet
      /\ early[s] \in Seq(AnswerSet) /\ UNCHANGED session
      /\ cmds \in [Sessions -> Seq(CommandSet)] /\ current \in [Sessions -> CommandSet]
      /\ early \in [Sessions -> Seq(AnswerSet)] /\ answers \in [Sessions -> Seq(AnswerSet)]
      /\ alive \in [Sessions -> BOOLEAN]
  BY DEF Typed, TypeOK, ChannelsOK, Work, appVars
<1>1. Aside(s) /\ (s \in Live /\ alive[s] => Lined(ss, q, current[s], a)) /\ (s \in Live' <=> s \in Live)
  BY <1>0 DEF Answering, Live
<1>2. CASE Take(s)
  <2>1. /\ alive' = alive /\ current[s] = NoCommand /\ q # <<>> /\ cmds' = [cmds EXCEPT ![s] = Tail(q)]
        /\ current' = [current EXCEPT ![s] = Head(q)] /\ UNCHANGED <<answers, stopping>>
    BY <1>2 DEF Take
  <2>2. \E first \in {<<Answer("CursorClosed")>>, <<>>} : early' = [early EXCEPT ![s] = first]
    BY <1>2 DEF Take
  <2>3. \A i \in DOMAIN early'[s] : early'[s][i].type \notin Ending
    <3>1. Answer("CursorClosed").type \notin Ending
      BY DEF Answer, Ending
    <3>2. early'[s] \in {<<Answer("CursorClosed")>>, <<>>}
      BY <1>0, <2>2
    <3> QED
      BY <3>1, <3>2
  <2>4. session'[s].status # "unused"
    BY <1>0, <1>1, <2>1 DEF Aside
  <2>5. Aside(s)'
    BY <1>0, <1>1, <2>1, <2>3, <2>4 DEF Aside
  <2>6. s \in Live /\ alive[s] => Lined(ss, Tail(q), Head(q), a)
    BY <1>0, <1>1, <2>1, TakeLines
  <2>7. cmds'[s] = Tail(q) /\ current'[s] = Head(q) /\ answers'[s] = a /\ session'[s] = ss /\ alive'[s] = alive[s]
    BY <1>0, <2>1
  <2>8. \A t \in Sessions \ {s} :
          /\ session'[t] = session[t] /\ cmds'[t] = cmds[t] /\ current'[t] = current[t]
          /\ early'[t] = early[t] /\ answers'[t] = answers[t]
          /\ alive'[t] = alive[t] /\ stopping'[t] = stopping[t]
    BY <1>0, <2>1, <2>2
  <2> QED
    BY <1>1, <2>5, <2>6, <2>7, <2>8, OwnLine
<1>3. CASE EndCommand(s)
  <2>1. PICK type, x, last :
          /\ Ends(s, type, last) /\ Tells(current[s], x)
          /\ last = <<x>> \/ last = <<Answer("CursorKept"), x>>
    BY <1>3, EndTells
  <2>2. /\ answers' = [answers EXCEPT ![s] = (a \o early[s]) \o last] /\ current' = [current EXCEPT ![s] = NoCommand]
        /\ early' = [early EXCEPT ![s] = <<>>] /\ UNCHANGED <<cmds, alive, stopping>>
    BY <2>1 DEF Ends
  <2>3. last \in Seq(AnswerSet)
    <3>1. x \in AnswerSet
      BY <2>1 DEF Tells
    <3> DEFINE y == Answer("CursorKept")
    <3>2. y \in AnswerSet
      <4>1. "CursorKept" \in AnswerTypes /\ <<>> \in Rows /\ NoJob \in Nat
        BY DEF AnswerTypes, Rows, NoJob
      <4> QED
        BY <4>1, AnswerTyped
    <3>3. last = <<x>> \/ last = <<y, x>>
      BY <2>1
    <3> HIDE DEF y
    <3>4. <<x>> \in Seq(AnswerSet) /\ <<y, x>> \in Seq(AnswerSet)
      <4> DEFINE S == AnswerSet
      <4>1. x \in S /\ y \in S
        BY <3>1, <3>2
      <4> HIDE DEF S
      <4>2. <<x>> \in Seq(S) /\ <<y, x>> \in Seq(S)
        BY <4>1
      <4> QED
        BY <4>2 DEF S
    <3> QED
      BY <3>3, <3>4
  <2>4. s \in Live /\ alive[s] => Lined(ss, q, NoCommand, (a \o early[s]) \o last)
    <3>1. \A i \in DOMAIN early[s] : early[s][i].type \notin Ending
      BY <1>1 DEF Aside
    <3> QED
      BY <1>0, <1>1, <2>1, <2>3, <3>1, EndLines
  <2>5. current[s] # NoCommand
    <3>1. current[s].type # "none"
      BY <1>3 DEF EndCommand, QueryFails, QueryExecutes, ReadEnds, ReadKept, ReadStops, ReadOn, ExportEnds,
         ExportFetchedEnds, AutocommitEnds, SchemaEnds, ConnectEnds, Ends
    <3> QED
      BY <3>1 DEF NoCommand, Direct
  <2>6. early'[s] = <<>> /\ session'[s].status # "unused"
    BY <1>0, <1>1, <2>2, <2>5 DEF Aside
  <2>7. Aside(s)'
    BY <1>0, <1>1, <2>2, <2>6 DEF Aside
  <2>8. /\ cmds'[s] = q /\ current'[s] = NoCommand /\ answers'[s] = (a \o early[s]) \o last
        /\ session'[s] = ss /\ alive'[s] = alive[s]
    BY <1>0, <2>2
  <2>9. \A t \in Sessions \ {s} :
          /\ session'[t] = session[t] /\ cmds'[t] = cmds[t] /\ current'[t] = current[t]
          /\ early'[t] = early[t] /\ answers'[t] = answers[t]
          /\ alive'[t] = alive[t] /\ stopping'[t] = stopping[t]
    BY <1>0, <2>2
  <2> QED
    BY <1>1, <2>4, <2>7, <2>8, <2>9, OwnLine
<1>4. CASE Die(s)
  <2>1. /\ current[s] # NoCommand /\ alive' = [alive EXCEPT ![s] = FALSE]
        /\ cmds' = [cmds EXCEPT ![s] = <<>>] /\ current' = [current EXCEPT ![s] = NoCommand]
        /\ early' = [early EXCEPT ![s] = <<>>] /\ UNCHANGED <<answers, stopping>>
    BY <1>4 DEF Die
  <2>2. /\ early'[s] = <<>> /\ ~alive'[s] /\ session'[s].status # "unused"
    BY <1>0, <1>1, <2>1 DEF Aside
  <2>3. Aside(s)'
    BY <2>2 DEF Aside
  <2>4. \A t \in Sessions \ {s} :
          /\ session'[t] = session[t] /\ cmds'[t] = cmds[t] /\ current'[t] = current[t]
          /\ early'[t] = early[t] /\ answers'[t] = answers[t]
          /\ alive'[t] = alive[t] /\ stopping'[t] = stopping[t]
    BY <1>0, <2>1
  <2> QED
    BY <2>2, <2>3, <2>4, OwnLine
<1> QED
  BY <1>2, <1>3, <1>4 DEF Work

\* A session whose worker is told to be gone is in no line.
LEMMA WorkerStoppedLine ==
  ASSUME Typed, Answering, NEW s \in Sessions, WorkerStopped(s)
  PROVE  Answering'
<1>1. /\ session \in [Sessions -> SessionState] /\ stopping \in [Sessions -> BOOLEAN]
      /\ UNCHANGED <<cmds, current, early, alive, answers>> /\ stopping' = [stopping EXCEPT ![s] = FALSE]
      /\ Aside(s) /\ ~alive[s]
  BY DEF WorkerStopped, Typed, TypeOK, ChannelsOK, Answering, Aside
<1>2. \A t \in Sessions \ {s} : session'[t] = session[t] /\ stopping'[t] = stopping[t]
  BY <1>1 DEF WorkerStopped
<1>3. session'[s].status = "unused" => session[s].status = "unused"
  <2>1. CASE s \in Live
    <3>1. GivenUp(session[s]).status = "failed"
      BY <1>1 DEF GivenUp, SessionState
    <3> QED
      BY <1>1, <2>1, <3>1 DEF WorkerStopped
  <2>2. CASE s \notin Live
    BY <2>2 DEF WorkerStopped
  <2> QED
    BY <2>1, <2>2
<1>4. Aside(s)'
  BY <1>1, <1>3 DEF Aside
<1> QED
  BY <1>1, <1>2, <1>4, OwnLine

\* Each session of the confirm sends its rollback when nothing is out.
LEMMA QuitLine ==
  ASSUME Typed, Agreed, Answering, QuitRollingBack
  PROVE  Answering'
<1> DEFINE who == dialog.who
           out == [t \in Sessions |-> IF t \in who THEN Sent(RollingBack(t)) ELSE <<>>]
<1>1. /\ who \subseteq Live /\ who \in SUBSET Sessions /\ session \in [Sessions -> SessionState]
      /\ UNCHANGED <<current, early, alive, answers>> /\ made \in Nat
      /\ cmds \in [Sessions -> Seq(CommandSet)] /\ answers \in [Sessions -> Seq(AnswerSet)]
  BY DEF Agreed, Typed, TypeOK, Dialogs, ChannelsOK, QuitRollingBack, User, untouchedByUser
<1>2. /\ \A t \in Sessions : session'[t] = IF t \in who THEN Pumped(RollingBack(t)) ELSE NothingHeld[t]
      /\ Deliver(out)
  BY DEF QuitRollingBack
<1>3. \A t \in Sessions : /\ cmds'[t] = IF alive[t] THEN cmds[t] \o out[t] ELSE cmds[t]
                          /\ stopping'[t] => stopping[t] \/ ~alive[t]
  BY <1>2 DEF Deliver
<1>4. \A t \in Sessions : out[t] = IF t \in who THEN Sent(RollingBack(t)) ELSE <<>>
  OBVIOUS
<1> HIDE DEF out
<1>5. ASSUME NEW t \in who
      PROVE  /\ out[t] \in Seq(CommandSet) /\ session'[t].status # "unused"
             /\ alive[t] => Lined(session'[t], cmds[t] \o out[t], current[t], answers[t])
  <2> DEFINE back == RollingBack(t)
             q == session[t].queue
             item == Rollback(t)
  <2>1. back \in SessionState /\ session[t] \in SessionState /\ t \in Sessions /\ q \in Seq(Item)
    BY <1>1, RollingBackTyped DEF SessionState
  <2>2. item \in Item /\ item.job # NoJob
    <3>1. item \in Item /\ item.job \in (made + 1)..(made + Cardinality(who))
      BY RollbackItem
    <3> HIDE DEF item
    <3>2. item.job \in Nat /\ item.job >= made + 1
      BY <1>1, <3>1 DEF Item
    <3> QED
      BY <1>1, <3>1, <3>2 DEF NoJob
  <2>3. Alike(session[t], back) /\ back.queue = q \o <<item>> /\ back.status = session[t].status
    BY <2>1 DEF RollingBack, Behind, Alike, SessionState
  <2>4. back.status # "unused"
    BY <1>1, <2>1, <2>3 DEF Live
  <2> HIDE DEF back, item
  <2>5. \A i \in DOMAIN back.queue : back.queue[i].job # NoJob
    <3>1. \A i \in DOMAIN q : q[i].job # NoJob
      BY <2>1, QueuedAreMade
    <3> HIDE DEF q
    <3>2. \A i \in DOMAIN (q \o <<item>>) : (q \o <<item>>)[i].job # NoJob
      BY <2>1, <2>2, <3>1
    <3> QED
      BY <2>3, <3>2
  <2>6. ASSUME alive[t] PROVE Lined(Pumped(back), cmds[t] \o Sent(back), current[t], answers[t])
    <3>1. Lined(session[t], cmds[t], current[t], answers[t])
      BY <1>1, <2>1, <2>6 DEF Answering
    <3>2. Lined(back, cmds[t], current[t], answers[t])
      BY <2>3, <3>1 DEF Lined, Alike
    <3> QED
      BY <1>1, <2>1, <2>5, <3>2, PumpLines
  <2>7. Sent(back) \in Seq(CommandSet) /\ Pumped(back).status = back.status
    BY <2>1, PumpedTyped DEF Pumped, SessionState
  <2>8. out[t] = Sent(back) /\ session'[t] = Pumped(back)
    BY <1>2, <1>4, <2>1 DEF back
  <2> QED
    BY <2>4, <2>6, <2>7, <2>8
<1>6. ASSUME NEW t \in Sessions \ who PROVE out[t] = <<>> /\ out[t] \in Seq(CommandSet) /\ Calm(t, out[t])
  <2>1. out[t] = <<>> /\ session'[t] = NothingHeld[t]
    BY <1>2, <1>4
  <2>2. Alike(session[t], session'[t]) /\ session'[t].status = session[t].status
    BY <1>1, <2>1 DEF NothingHeld, SessionState, Alike
  <2>3. NoneIn(<<>>, Asking) /\ (t \in Live' => t \in Live)
    BY <2>2 DEF NoneIn, Live
  <2>4. <<>> \in Seq(CommandSet)
    OBVIOUS
  <2> QED
    BY <2>1, <2>2, <2>3, <2>4 DEF Calm
<1>7. \A t \in Sessions :
        /\ out[t] \in Seq(CommandSet)
        /\ cmds'[t] = IF alive[t] THEN cmds[t] \o out[t] ELSE cmds[t]
        /\ stopping'[t] => stopping[t] \/ ~alive[t]
        /\ \/ Calm(t, out[t])
           \/ /\ session'[t].status # "unused"
              /\ alive[t] => Lined(session'[t], cmds[t] \o out[t], current[t], answers[t])
  BY <1>3, <1>5, <1>6
<1> QED
  BY <1>1, <1>7, AppLines

\* Nothing is out when the app starts.
LEMMA InitAnswering == Init => Answering
<1> SUFFICES ASSUME Init, NEW s \in Sessions
             PROVE  Aside(s) /\ Lined(session[s], cmds[s], current[s], answers[s])
  BY DEF Answering
<1>1. /\ session[s].inFlight = NoItem /\ session[s].running = 0 /\ session[s].txChanges = <<>>
      /\ cmds[s] = <<>> /\ current[s] = NoCommand /\ answers[s] = <<>> /\ early[s] = <<>> /\ ~stopping[s]
  BY DEF Init, WorkerInit, Fresh
<1>2. NoCommand \notin Asking
  BY DEF NoCommand, Direct, Asking, StatementTypes
<1> QED
  BY <1>1, <1>2 DEF Aside, Lined, NoneIn

\* The step.
LEMMA NextAnswering == Typed /\ Agreed /\ Answering /\ [Next]_vars => Answering'
<1> SUFFICES ASSUME Typed, Agreed, Answering, [Next]_vars PROVE Answering'
  OBVIOUS
<1>1. CASE UNCHANGED <<session, cmds, current, early, alive, answers, stopping>>
  <2>1. Live' = Live
    BY <1>1 DEF Live
  <2> QED
    BY <1>1, <2>1 DEF Answering, Aside
<1>2. CASE UNCHANGED vars \/ CancelArrives \/ Quit
  BY <1>1, <1>2 DEF vars, appVars, workerVars, CancelArrives, CancelFires, Quit, User, untouchedByUser
<1>3. CASE Dismiss
  <2>1. session' = NothingHeld /\ UNCHANGED <<cmds, stopping, current, early, alive, answers>>
    BY <1>3 DEF Dismiss, User, untouchedByUser
  <2>2. \A t \in Sessions : Alike(session[t], session'[t]) /\ session'[t].status = session[t].status
    BY <2>1 DEF NothingHeld, Alike, Typed, TypeOK, SessionState
  <2>3. \A t \in Sessions : Calm(t, <<>>)
    BY <2>2, EachCalm
  <2> QED
    BY <2>1, <2>3, CalmLines
<1> QED
  BY <1>2, <1>3, ActsLine, HearLine, WorkerStoppedLine, WorkLine, QuitLine DEF Next

\* What is in line is one statement, and the one in flight.
LEMMA LinedIsOne ==
  ASSUME Typed, NEW s \in Sessions, Lined(session[s], cmds[s], current[s], answers[s])
  PROVE  LET ss == session[s]
         IN  IF ss.inFlight = NoItem
               THEN Outstanding(s) = {} /\ ss.running = 0 /\ ss.txChanges = <<>>
               ELSE /\ \E one \in Outstanding(s) : Outstanding(s) = {one} /\ one.job = ss.inFlight.job
                    /\ ss.running = 1 /\ ss.txChanges = <<ChangeOf(ss.inFlight)>>
<1> DEFINE ss == session[s]
           q == cmds[s]
           c == current[s]
           a == answers[s]
           item == ss.inFlight
           waiting == {[at |-> "cmds", n |-> i, job |-> q[i].job] : i \in Awaiting(s)}
           carried == {[at |-> "current", n |-> 1, job |-> b.job] : b \in {b \in {c} : b.type \in StatementTypes}}
           told == {[at |-> "answers", n |-> i, job |-> a[i].job] : i \in Answered(s)}
<1>1. /\ ss \in SessionState /\ c \in CommandSet
      /\ \A i \in DOMAIN q : q[i] \in CommandSet
      /\ \A i \in DOMAIN a : a[i] \in AnswerSet
  BY DEF Typed, TypeOK, ChannelsOK
<1>2. Outstanding(s) = told \cup carried \cup waiting
  BY DEF Outstanding
<1>3. /\ Awaiting(s) = {i \in DOMAIN q : q[i] \in Asking}
      /\ Answered(s) = {i \in DOMAIN a : a[i] \in Telling}
  BY <1>1 DEF Awaiting, Answered, Asking, Telling
<1>4. /\ NoneIn(q, Asking) => waiting = {}
      /\ c \notin Asking => carried = {}
      /\ NoneIn(a, Telling) => told = {}
  BY <1>1, <1>3 DEF NoneIn, Asking
<1>5. ASSUME item \in Item, OneIn(q, Asking, {CommandOf(item)})
      PROVE  \E one : waiting = {one} /\ one.job = item.job
  <2>1. PICK i \in DOMAIN q : q[i] = CommandOf(item) /\ \A j \in DOMAIN q \ {i} : q[j] \notin Asking
    BY <1>5 DEF OneIn
  <2>2. q[i] \in Asking /\ q[i].job = item.job
    BY <1>5, <2>1, CommandAsks
  <2>3. Awaiting(s) = {i}
    BY <1>3, <2>1, <2>2
  <2> DEFINE one == [at |-> "cmds", n |-> i, job |-> item.job]
  <2>4. waiting = {one} /\ one.job = item.job
    BY <2>2, <2>3
  <2> HIDE DEF one, waiting
  <2> QED
    BY <2>4
<1>6. ASSUME item \in Item, c = CommandOf(item)
      PROVE  \E one : carried = {one} /\ one.job = item.job
  <2>1. c.type \in StatementTypes /\ c.job = item.job
    BY <1>6, CommandAsks DEF Asking
  <2> DEFINE one == [at |-> "current", n |-> 1, job |-> item.job]
  <2>2. carried = {one} /\ one.job = item.job
    BY <2>1
  <2> HIDE DEF one, carried
  <2> QED
    BY <2>2
<1>7. ASSUME item \in Item, OneIn(a, Telling, TellingOf(item))
      PROVE  \E one : told = {one} /\ one.job = item.job
  <2>1. PICK i \in DOMAIN a : a[i] \in TellingOf(item) /\ \A j \in DOMAIN a \ {i} : a[j] \notin Telling
    BY <1>7 DEF OneIn
  <2>2. a[i] \in Telling /\ a[i].job = item.job
    BY <2>1 DEF TellingOf
  <2>3. Answered(s) = {i}
    BY <1>3, <2>1, <2>2
  <2> DEFINE one == [at |-> "answers", n |-> i, job |-> item.job]
  <2>4. told = {one} /\ one.job = item.job
    BY <2>2, <2>3
  <2> HIDE DEF one, told
  <2> QED
    BY <2>4
<1> HIDE DEF waiting, carried, told
<1>8. CASE item = NoItem
  BY <1>2, <1>4, <1>8 DEF Lined
<1>9. CASE item # NoItem
  <2>1. /\ item \in Item /\ OutAt(item, q, c, a)
        /\ ss.running = 1 /\ ss.txChanges = <<ChangeOf(item)>>
    BY <1>1, <1>9 DEF Lined, SessionState
  <2>2. \E one : Outstanding(s) = {one} /\ one.job = item.job
    BY <1>2, <1>4, <1>5, <1>6, <1>7, <2>1 DEF OutAt
  <2> QED
    BY <1>9, <2>1, <2>2
<1> QED
  BY <1>8, <1>9

\* A session's next statement is sent only behind the answer to the last, so
\* the one in flight is the only one its live worker has to do with, and the
\* count and the transaction changes it keeps are of just that one (run.rs,
\* `pump` and the handlers of the answers).
THEOREM OneIsOut == Spec => []OneOutstanding
<1>1. Typed /\ Answering => OneOutstanding
  <2> SUFFICES ASSUME Typed, Answering, NEW s \in Live, alive[s]
               PROVE  Lined(session[s], cmds[s], current[s], answers[s]) /\ s \in Sessions
    BY LinedIsOne DEF OneOutstanding
  <2> QED
    BY DEF Answering, Live
<1> QED
  BY <1>1, InitTyped, NextTyped, InitAgreed, NextAgreed, InitAnswering, NextAnswering, PTL DEF Spec

-----------------------------------------------------------------------------
(* The transaction that is shown. *)

\* What x will be once the answers a are heard, when those of S make it so and
\* those of C end it; and what it is after one of them.
Latched(x, a, S, C) ==
  \/ x /\ NoneIn(a, C)
  \/ \E i \in DOMAIN a : a[i] \in S /\ \A j \in DOMAIN a : i < j => a[j] \notin C
Turned(x, h, S, C) == (x /\ h \notin C) \/ h \in S

\* Answers are heard one by one.
LEMMA LatchedFirst ==
  ASSUME NEW T, NEW S, NEW C, NEW x, NEW a \in Seq(T), a # <<>>
  PROVE  Latched(x, a, S, C) <=> Latched(Turned(x, Head(a), S, C), Tail(a), S, C)
<1> DEFINE t == Tail(a)
           n == Len(a)
<1>1. /\ n \in Nat /\ DOMAIN a = 1..n /\ 1 \in DOMAIN a /\ Head(a) = a[1] /\ DOMAIN t = 1..(n - 1)
      /\ \A i \in DOMAIN t : i + 1 \in DOMAIN a /\ t[i] = a[i + 1]
  BY HeadAndTail
<1> HIDE DEF t, n
<1>2. \A k \in DOMAIN a : k = 1 \/ (k - 1 \in DOMAIN t /\ t[k - 1] = a[k])
  <2>1. ASSUME NEW k \in 1..n, k # 1 PROVE k - 1 \in 1..(n - 1) /\ (k - 1) + 1 = k
    BY <1>1, <2>1
  <2> QED
    BY <1>1, <2>1
<1>3. NoneIn(a, C) <=> a[1] \notin C /\ NoneIn(t, C)
  BY <1>1, <1>2 DEF NoneIn
<1>4. ASSUME Latched(x, a, S, C) PROVE Latched(Turned(x, a[1], S, C), t, S, C)
  <2>1. CASE x /\ NoneIn(a, C)
    BY <1>3, <2>1 DEF Latched, Turned
  <2>2. ASSUME NEW i \in DOMAIN a, a[i] \in S, \A j \in DOMAIN a : i < j => a[j] \notin C
        PROVE  Latched(Turned(x, a[1], S, C), t, S, C)
    <3>1. CASE i = 1
      <4>1. ASSUME NEW j \in DOMAIN t PROVE t[j] \notin C
        <5>1. 1 < j + 1 /\ j + 1 \in DOMAIN a /\ t[j] = a[j + 1]
          BY <1>1
        <5> QED
          BY <2>2, <3>1, <5>1
      <4>2. NoneIn(t, C)
        BY <4>1 DEF NoneIn
      <4> QED
        BY <2>2, <3>1, <4>2 DEF Latched, Turned
    <3>2. CASE i # 1
      <4>1. i - 1 \in DOMAIN t /\ t[i - 1] = a[i]
        BY <1>2, <3>2
      <4>2. ASSUME NEW j \in DOMAIN t, i - 1 < j PROVE t[j] \notin C
        <5>1. i < j + 1 /\ j + 1 \in DOMAIN a /\ t[j] = a[j + 1]
          BY <1>1, <4>2
        <5> QED
          BY <2>2, <5>1
      <4> QED
        BY <2>2, <4>1, <4>2 DEF Latched
    <3> QED
      BY <3>1, <3>2
  <2> QED
    BY <1>4, <2>1, <2>2 DEF Latched
<1>5. ASSUME Latched(Turned(x, a[1], S, C), t, S, C) PROVE Latched(x, a, S, C)
  <2>1. CASE x /\ a[1] \notin C /\ NoneIn(t, C)
    BY <1>3, <2>1 DEF Latched
  <2>2. CASE a[1] \in S /\ NoneIn(t, C)
    <3>1. ASSUME NEW j \in DOMAIN a, 1 < j PROVE a[j] \notin C
      <4>1. j - 1 \in DOMAIN t /\ t[j - 1] = a[j]
        BY <1>2, <3>1
      <4> QED
        BY <2>2, <4>1 DEF NoneIn
    <3> QED
      BY <1>1, <2>2, <3>1 DEF Latched
  <2>3. ASSUME NEW i \in DOMAIN t, t[i] \in S, \A j \in DOMAIN t : i < j => t[j] \notin C
        PROVE  Latched(x, a, S, C)
    <3>1. i + 1 \in DOMAIN a /\ a[i + 1] \in S
      BY <1>1, <2>3
    <3>2. ASSUME NEW j \in DOMAIN a, i + 1 < j PROVE a[j] \notin C
      <4>1. j # 1 /\ i < j - 1
        BY <1>1, <3>2
      <4>2. j - 1 \in DOMAIN t /\ t[j - 1] = a[j]
        BY <1>2, <4>1
      <4> QED
        BY <2>3, <4>1, <4>2
    <3> QED
      BY <3>1, <3>2 DEF Latched
  <2> QED
    BY <1>5, <2>1, <2>2, <2>3 DEF Latched, Turned
<1> QED
  BY <1>1, <1>4, <1>5 DEF t

\* What comes to stand behind them counts only when it is of either kind.
LEMMA LatchedBehind ==
  ASSUME NEW T, NEW S, NEW C, NEW x, NEW a \in Seq(T), NEW b \in Seq(T), NoneIn(b, S \cup C)
  PROVE  Latched(x, a \o b, S, C) <=> Latched(x, a, S, C)
<1> DEFINE m == Len(a)
           n == Len(b)
           r == a \o b
<1>1. /\ m \in Nat /\ n \in Nat /\ DOMAIN a = 1..m /\ DOMAIN b = 1..n /\ DOMAIN r = 1..(m + n)
      /\ \A i \in 1..m : r[i] = a[i]
      /\ \A i \in 1..n : r[m + i] = b[i]
  BY Joined
<1> HIDE DEF m, n, r
<1>2. /\ DOMAIN a \subseteq DOMAIN r /\ \A k \in DOMAIN a : r[k] = a[k]
      /\ \A k \in DOMAIN r : k \in DOMAIN a \/ (r[k] \notin S /\ r[k] \notin C)
  <2>1. ASSUME NEW k \in 1..(m + n), k > m PROVE r[k] \notin S \cup C
    <3>1. k - m \in 1..n /\ m + (k - m) = k
      BY <1>1, <2>1
    <3>2. r[k] = b[k - m]
      BY <1>1, <3>1
    <3> QED
      BY <1>1, <3>1, <3>2 DEF NoneIn
  <2> QED
    BY <1>1, <2>1
<1>3. NoneIn(r, C) <=> NoneIn(a, C)
  BY <1>2 DEF NoneIn
<1>4. (\E i \in DOMAIN r : r[i] \in S /\ \A j \in DOMAIN r : i < j => r[j] \notin C)
      <=> (\E i \in DOMAIN a : a[i] \in S /\ \A j \in DOMAIN a : i < j => a[j] \notin C)
  BY <1>2
<1>5. Latched(x, r, S, C) <=> Latched(x, a, S, C)
  BY <1>3, <1>4 DEF Latched
<1> QED
  BY <1>5 DEF r

\* What comes last decides, when it is of either kind.
LEMMA LatchedLast ==
  ASSUME NEW T, NEW S, NEW C, NEW x, NEW a \in Seq(T), NEW h \in T
  PROVE  Latched(x, Append(a, h), S, C) <=> Turned(Latched(x, a, S, C), h, S, C)
<1> DEFINE m == Len(a)
           r == Append(a, h)
<1>1. /\ m \in Nat /\ DOMAIN a = 1..m /\ DOMAIN r = 1..(m + 1)
      /\ \A i \in 1..m : r[i] = a[i]
      /\ r[m + 1] = h
  OBVIOUS
<1> HIDE DEF m, r
<1>2. /\ \A k \in DOMAIN r : k = m + 1 \/ k \in DOMAIN a
      /\ \A k \in DOMAIN a : k \in DOMAIN r /\ k < m + 1 /\ r[k] = a[k]
      /\ m + 1 \in DOMAIN r
  BY <1>1
<1>3. NoneIn(r, C) <=> NoneIn(a, C) /\ h \notin C
  BY <1>1, <1>2 DEF NoneIn
<1>4. ASSUME h \in S PROVE Latched(x, r, S, C)
  <2>1. \A j \in DOMAIN r : ~(m + 1 < j)
    BY <1>1
  <2> QED
    BY <1>1, <1>2, <1>4, <2>1 DEF Latched
<1>5. ASSUME NEW i \in DOMAIN a, a[i] \in S, \A j \in DOMAIN a : i < j => a[j] \notin C, h \notin C
      PROVE  Latched(x, r, S, C)
  <2>1. \A j \in DOMAIN r : i < j => r[j] \notin C
    BY <1>1, <1>2, <1>5
  <2> QED
    BY <1>2, <1>5, <2>1 DEF Latched
<1>6. ASSUME NEW i \in DOMAIN r, r[i] \in S, \A j \in DOMAIN r : i < j => r[j] \notin C, h \notin S
      PROVE  Latched(x, a, S, C) /\ h \notin C
  <2>1. i \in DOMAIN a
    BY <1>1, <1>2, <1>6
  <2>2. h \notin C
    BY <1>1, <1>2, <1>6, <2>1
  <2> QED
    BY <1>2, <1>6, <2>1, <2>2 DEF Latched
<1>7. Latched(x, r, S, C) => Turned(Latched(x, a, S, C), h, S, C)
  BY <1>3, <1>6 DEF Latched, Turned
<1>8. Turned(Latched(x, a, S, C), h, S, C) => Latched(x, r, S, C)
  BY <1>3, <1>4, <1>5 DEF Latched, Turned
<1> QED
  BY <1>7, <1>8 DEF r

\* The answers that open a session and the one that shuts it, those that turn
\* autocommit off and on, and those that begin and end the transaction when the
\* statement in flight does `change` to it.
Opens == {x \in AnswerSet : x.type = "Connected"}
Shuts == {x \in AnswerSet : x.type = "ConnectFailed"}
TurnsOff == {x \in AnswerSet : x.type = "Autocommit" /\ x.ok /\ ~x.more}
TurnsOn == {x \in AnswerSet : x.type = "Connected" \/ (x.type = "Autocommit" /\ x.ok /\ x.more)}
BeginsTx(change) == {x \in AnswerSet : x.type = "QueryDone" /\ change = "begins"}
EndsTx(change) == {x \in AnswerSet : \/ x.type = "Connected"
                                     \/ x.type = "Autocommit" /\ x.ok
                                     \/ x.type = "QueryDone" /\ change = "ends"}

\* What session ss will show once the answers a are heard: that it is open,
\* that autocommit is off, that a transaction began.
ChangeIn(ss) == IF ss.inFlight = NoItem THEN "none" ELSE ChangeOf(ss.inFlight)
WillBeOpen(ss, a) == Latched(ss.status = "open", a, Opens, Shuts)
WillBeManual(ss, a) == Latched(~ss.autocommit, a, TurnsOff, TurnsOn)
WillBeInTx(ss, a) == Latched(ss.inTx, a, BeginsTx(ChangeIn(ss)), EndsTx(ChangeIn(ss)))

\* It will show the transaction its connection has.
ShownAs(ss, a, c) ==
  WillBeOpen(ss, a) => /\ c.tx => WillBeInTx(ss, a) \/ WillBeManual(ss, a)
                       /\ c.manual => WillBeManual(ss, a)

\* What is exported again is a read, so that it ends no transaction.
Sound(item) == item.how = "export" => item.sql = "select"
AllSound(items) == \A i \in DOMAIN items : Sound(items[i])
ItemsSound(ss) == Sound(ss.inFlight) /\ AllSound(ss.queue) /\ AllSound(ss.held)

\* The inductive invariant.  A connection to come may leave one that was not
\* shown, and a dead worker has none.
NoConnect(q) == \A i \in DOMAIN q : q[i].type # "Connect"
TxShown(s) ==
  /\ ~alive[s] => current[s] = NoCommand /\ ~conn[s].tx
  /\ \A i \in DOMAIN early[s] : early[s][i].type = "CursorClosed"
  /\ s \in Live => ItemsSound(session[s])
  /\ s \in Live /\ alive[s] /\ NoConnect(cmds[s]) /\ current[s].type # "Connect"
       => ShownAs(session[s], answers[s], conn[s])
Connection == [open : BOOLEAN, prod : BOOLEAN, tx : BOOLEAN, manual : BOOLEAN]
TxInv == conn \in [Sessions -> Connection] /\ \A s \in Sessions : TxShown(s)

\* What a session shows of its transaction does not depend on the rest of it,
\* nor, with no statement done among the answers, on what is in flight.
KeepsTx(ss, after) ==
  after.status = ss.status /\ after.inTx = ss.inTx /\ after.autocommit = ss.autocommit

\* So it shows the transaction of its connection as before.
LEMMA ShownAlike ==
  ASSUME NEW ss, NEW after, NEW a \in Seq(AnswerSet), NEW c, KeepsTx(ss, after),
         after.inFlight = ss.inFlight \/ \A i \in DOMAIN a : a[i].type # "QueryDone"
  PROVE  /\ WillBeOpen(after, a) <=> WillBeOpen(ss, a)
         /\ WillBeManual(after, a) <=> WillBeManual(ss, a)
         /\ WillBeInTx(after, a) <=> WillBeInTx(ss, a)
         /\ ShownAs(ss, a, c) => ShownAs(after, a, c)
<1>1. /\ WillBeOpen(after, a) <=> WillBeOpen(ss, a)
      /\ WillBeManual(after, a) <=> WillBeManual(ss, a)
  BY DEF WillBeOpen, WillBeManual, KeepsTx
<1>2. WillBeInTx(after, a) <=> WillBeInTx(ss, a)
  <2>1. CASE after.inFlight = ss.inFlight
    BY <2>1 DEF WillBeInTx, KeepsTx, ChangeIn
  <2>2. CASE \A i \in DOMAIN a : a[i].type # "QueryDone"
    <3> DEFINE S == BeginsTx(ChangeIn(ss))
               C == EndsTx(ChangeIn(ss))
               S2 == BeginsTx(ChangeIn(after))
               C2 == EndsTx(ChangeIn(after))
    <3>1. \A i \in DOMAIN a : (a[i] \in S <=> a[i] \in S2) /\ (a[i] \in C <=> a[i] \in C2)
      BY <2>2 DEF BeginsTx, EndsTx
    <3> HIDE DEF S, C, S2, C2
    <3>2. Latched(ss.inTx, a, S, C) <=> Latched(ss.inTx, a, S2, C2)
      BY <3>1 DEF Latched, NoneIn
    <3> QED
      BY <3>2 DEF WillBeInTx, KeepsTx, S, C, S2, C2
  <2> QED
    BY <2>1, <2>2
<1> QED
  BY <1>1, <1>2 DEF ShownAs

\* With no statement in flight none is done among the answers.
LEMMA IdleHearsNone ==
  ASSUME NEW ss, NEW q, NEW c, NEW a \in Seq(AnswerSet), Lined(ss, q, c, a), ss.inFlight = NoItem
  PROVE  \A i \in DOMAIN a : a[i].type # "QueryDone"
<1>1. NoneIn(a, Telling) /\ \A i \in DOMAIN a : a[i].type \in Ending /\ a[i].job = NoJob => a[i].type = "Exported"
  BY DEF Lined
<1>2. \A i \in DOMAIN a : a[i] \in AnswerSet
  OBVIOUS
<1> QED
  BY <1>1, <1>2 DEF NoneIn, Telling, Ending

\* The answer that ends the statement in flight is of it, and no other is done.
LEMMA HeardIsOfIt ==
  ASSUME NEW ss \in SessionState, NEW q, NEW c, NEW a \in Seq(AnswerSet), a # <<>>, Lined(ss, q, c, a),
         EndsIt(ss, Head(a))
  PROVE  /\ ss.inFlight \in Item /\ Head(a) \in TellingOf(ss.inFlight)
         /\ ss.txChanges = <<ChangeOf(ss.inFlight)>>
         /\ \A i \in DOMAIN Tail(a) : Tail(a)[i].type # "QueryDone"
<1> DEFINE h == Head(a)
           t == Tail(a)
           item == ss.inFlight
           G == TellingOf(item)
<1>1. /\ h \in AnswerSet /\ h = a[1] /\ 1 \in DOMAIN a /\ t \in Seq(AnswerSet)
      /\ \A i \in DOMAIN t : i + 1 \in DOMAIN a /\ t[i] = a[i + 1]
  BY HeadAndTail
<1>2. /\ NoneIn(a, Telling) => h \notin Telling
      /\ OneIn(a, Telling, G) => \/ h \in G /\ NoneIn(t, Telling)
                                 \/ h \notin Telling
  <2>1. G \subseteq Telling
    BY DEF TellingOf
  <2> HIDE DEF G
  <2> QED
    BY <2>1, OnAChannel
<1>3. \A i \in DOMAIN a : a[i].type \in Ending /\ a[i].job = NoJob => a[i].type = "Exported"
  BY DEF Lined
<1> HIDE DEF h, t
<1>4. EndsIt(ss, h)
  BY DEF h
<1>5. h \in Telling
  BY <1>1, <1>3, <1>4 DEF EndsIt, Telling, Ending
<1>6. item # NoItem
  BY <1>2, <1>5 DEF Lined
<1>7. OutAt(item, q, c, a) /\ ss.txChanges = <<ChangeOf(item)>>
  BY <1>6 DEF Lined
<1>8. h \in G /\ NoneIn(t, Telling)
  BY <1>2, <1>5, <1>7 DEF OutAt
<1>9. ASSUME NEW i \in DOMAIN t PROVE t[i].type # "QueryDone"
  <2>1. t[i] \in AnswerSet /\ t[i] \notin Telling /\ i + 1 \in DOMAIN a /\ t[i] = a[i + 1]
    BY <1>1, <1>8, <1>9 DEF NoneIn
  <2>2. t[i].type \in Ending /\ t[i].job = NoJob => t[i].type = "Exported"
    BY <1>3, <2>1
  <2> QED
    BY <2>1, <2>2 DEF Telling, Ending
<1>10. item \in Item
  BY <1>6 DEF SessionState
<1> QED
  BY <1>7, <1>8, <1>9, <1>10 DEF h, t

\* What the code does to a session beside its transaction.
LEMMA BesideTx ==
  ASSUME NEW ss \in SessionState
  PROVE  /\ KeepsTx(ss, Ended(ss)) /\ KeepsTx(ss, Pumped(ss)) /\ KeepsTx(ss, Dropped(ss))
         /\ KeepsTx(ss, Placeless(ss)) /\ KeepsTx(ss, [ss EXCEPT !.cursorKept = FALSE])
         /\ \A cursor : KeepsTx(ss, [ss EXCEPT !.cursor = cursor])
         /\ \A tabs : KeepsTx(ss, [ss EXCEPT !.tabs = tabs])
         /\ \A job, sql, rows, truncated, stops : KeepsTx(ss, NewTab(ss, job, sql, rows, truncated, stops))
         /\ Succeeded(ss).status = ss.status /\ Succeeded(ss).autocommit = ss.autocommit
         /\ \A change : ss.txChanges = <<change>> =>
              Succeeded(ss).inTx = CASE change = "begins" -> TRUE
                                     [] change = "ends"   -> FALSE
                                     [] OTHER             -> ss.inTx
<1>1. /\ KeepsTx(ss, Ended(ss)) /\ KeepsTx(ss, Dropped(ss)) /\ KeepsTx(ss, Placeless(ss))
      /\ KeepsTx(ss, [ss EXCEPT !.cursorKept = FALSE])
  BY DEF KeepsTx, Ended, Dropped, Placeless, SessionState
<1>2. KeepsTx(ss, Pumped(ss))
  BY DEF KeepsTx, Pumped, SessionState
<1>3. ASSUME NEW cursor PROVE KeepsTx(ss, [ss EXCEPT !.cursor = cursor])
  BY DEF KeepsTx, SessionState
<1>4. ASSUME NEW tabs PROVE KeepsTx(ss, [ss EXCEPT !.tabs = tabs])
  BY DEF KeepsTx, SessionState
<1>5. ASSUME NEW job, NEW sql, NEW rows, NEW truncated, NEW stops
      PROVE  KeepsTx(ss, NewTab(ss, job, sql, rows, truncated, stops))
  BY DEF KeepsTx, NewTab, SessionState
<1>6. Succeeded(ss).status = ss.status /\ Succeeded(ss).autocommit = ss.autocommit
  BY DEF Succeeded, Ended, SessionState
<1>7. ASSUME NEW change, ss.txChanges = <<change>>
      PROVE  Succeeded(ss).inTx = CASE change = "begins" -> TRUE
                                    [] change = "ends"   -> FALSE
                                    [] OTHER             -> ss.inTx
  <2>1. <<change>> # <<>> /\ Head(<<change>>) = change
    OBVIOUS
  <2>2. Ended(ss).inTx = ss.inTx /\ DOMAIN Ended(ss) = DOMAIN ss /\ "inTx" \in DOMAIN ss
    BY DEF Ended, SessionState
  <2> QED
    BY <1>7, <2>1, <2>2 DEF Succeeded
<1> QED
  BY <1>1, <1>2, <1>3, <1>4, <1>5, <1>6, <1>7

\* What an answer does to what its session shows of the transaction.
HeardAs(ss, h, after) ==
  \/ h.type \notin Ending /\ KeepsTx(Told(ss, h), after)
  \/ h.type = "QueryDone" /\ KeepsTx(Succeeded(ss), after)
  \/ h.type \in {"Exported", "ExportFailed"} /\ EndsIt(ss, h) /\ KeepsTx(Succeeded(ss), after)
  \/ h.type \in Ending \ {"QueryDone"} /\ KeepsTx(ss, after)

\* Every handler does to the session's status, transaction and autocommit what
\* HeardAs says of its answer.
LEMMA HearTx ==
  ASSUME Typed, NEW s \in Live, Hear(s)
  PROVE  HeardAs(session[s], Head(answers[s]), session'[s])
<1> DEFINE ss == session[s]
           answer == Head(answers[s])
           item == ss.inFlight
           b == session'[s]
<1>1. ss \in SessionState /\ answer \in AnswerSet /\ session \in [Sessions -> SessionState] /\ s \in Sessions
  <2>1. s \in Sessions
    BY DEF Live
  <2>2. answers[s] \in Seq(AnswerSet) /\ answers[s] # <<>>
    BY <2>1 DEF Hear, Typed, ChannelsOK
  <2>3. answer \in AnswerSet
    BY <2>2, HeadAndTail
  <2> QED
    BY <2>1, <2>3 DEF Typed, TypeOK
<1>2. item.job \in Nat /\ item.sql \in Statements \cup {NoSql} /\ answer.rows \in Rows /\ answer.more \in BOOLEAN
  <2>1. item \in Item \cup {NoItem} /\ answer.rows \in Rows /\ answer.more \in BOOLEAN
    BY <1>1 DEF SessionState, AnswerSet
  <2> QED
    BY <2>1 DEF Item, NoItem, NoJob
<1>3. ASSUME NEW after \in SessionState, NEW js, Pump(s, after, js) PROVE KeepsTx(after, b)
  <2>1. b = Pumped(after)
    BY <1>1, <1>3 DEF Pump
  <2> QED
    BY <1>3, <2>1, BesideTx
<1>4. ASSUME NEW after, Only(s, after) PROVE b = after
  BY <1>1, <1>4 DEF Only
<1>5. \A x, y, z : KeepsTx(x, y) /\ KeepsTx(y, z) => KeepsTx(x, z)
  BY DEF KeepsTx
<1>6. Succeeded(ss) \in SessionState /\ Ended(ss) \in SessionState
  BY <1>1, EndedTyped
<1>7. CASE answer.type = "QueryDone"
  <2> DEFINE good == Succeeded(ss)
             ended == [good EXCEPT !.cursorKept = FALSE]
             shown == NewTab(ended, item.job, item.sql, answer.rows, answer.more, FALSE)
             cursor == IF ss.cursorKept /\ answer.more THEN shown.tabsMade ELSE shown.cursor
             after == [shown EXCEPT !.cursor = cursor]
  <2>1. IF WasCancelled(s) THEN Pump(s, ended, jobs) ELSE Pump(s, after, Finish(jobs, item.job))
    BY <1>7 DEF Hear, Done, Skip
  <2>2. ended \in SessionState /\ KeepsTx(good, ended)
    BY <1>6, EndedTyped, BesideTx
  <2>3. shown \in SessionState /\ KeepsTx(ended, shown)
    BY <1>2, <2>2, NewTabTyped, BesideTx
  <2>4. cursor \in Nat
    BY <2>3 DEF SessionState
  <2> HIDE DEF good, ended, shown, cursor
  <2>5. after \in SessionState /\ KeepsTx(shown, after)
    BY <2>3, <2>4, BesideTx DEF SessionState
  <2> HIDE DEF after
  <2>6. KeepsTx(ended, b) \/ KeepsTx(after, b)
    BY <1>3, <2>1, <2>2, <2>5
  <2>7. KeepsTx(good, b)
    BY <1>5, <2>2, <2>3, <2>5, <2>6
  <2> QED
    BY <1>7, <2>7 DEF HeardAs, good
<1>8. CASE answer.type \in {"QueryStopped", "QueryFailed"}
  <2> DEFINE bad == Ended(ss)
             ended == [bad EXCEPT !.cursorKept = FALSE]
             shown == NewTab(ended, item.job, item.sql, answer.rows, FALSE, TRUE)
             dropped == Dropped(shown)
  <2>1. \/ Pump(s, ended, jobs) \/ \E js : Pump(s, shown, js) \/ Pump(s, dropped, js)
    BY <1>8 DEF Hear, Failed, Skip
  <2>2. ended \in SessionState /\ KeepsTx(bad, ended) /\ KeepsTx(ss, bad)
    BY <1>1, <1>6, EndedTyped, BesideTx
  <2>3. shown \in SessionState /\ KeepsTx(ended, shown)
    BY <1>2, <2>2, NewTabTyped, BesideTx
  <2>4. dropped \in SessionState /\ KeepsTx(shown, dropped)
    BY <2>3, EndedTyped, BesideTx
  <2> HIDE DEF bad, ended, shown, dropped
  <2>5. KeepsTx(ended, b) \/ KeepsTx(shown, b) \/ KeepsTx(dropped, b)
    BY <1>3, <2>1, <2>2, <2>3, <2>4
  <2>6. KeepsTx(ss, b)
    BY <1>5, <2>2, <2>3, <2>4, <2>5
  <2> QED
    BY <1>8, <2>6 DEF HeardAs, Ending
<1>9. CASE answer.type = "MoreRows"
  <2> DEFINE bad == Ended(ss)
             ended == IF answer.more THEN bad ELSE Placeless(bad)
             gone == Placeless(ended)
             longer == [i \in DOMAIN ended.tabs |->
                          IF ended.tabs[i].number = item.tab THEN Extended(ended.tabs[i], answer)
                          ELSE ended.tabs[i]]
             after == [ended EXCEPT !.tabs = longer]
  <2>1. \/ Only(s, ss) \/ Pump(s, gone, jobs) \/ \E js : Pump(s, after, js)
    BY <1>9 DEF Hear, MoreRows, Skip
  <2>2. ended \in SessionState /\ KeepsTx(bad, ended) /\ KeepsTx(ss, bad)
    <3>1. Placeless(bad) \in SessionState /\ KeepsTx(bad, Placeless(bad)) /\ KeepsTx(ss, bad) /\ bad \in SessionState
      BY <1>1, <1>6, EndedTyped, BesideTx
    <3>2. KeepsTx(bad, bad)
      BY DEF KeepsTx
    <3> HIDE DEF bad
    <3> QED
      BY <3>1, <3>2
  <2> HIDE DEF bad, ended
  <2>3. gone \in SessionState /\ KeepsTx(ended, gone)
    BY <2>2, EndedTyped, BesideTx
  <2>4. longer \in Seq(Tab)
    <3>1. ended.tabs \in Seq(Tab)
      BY <2>2 DEF SessionState
    <3> QED
      BY <1>1, <3>1, ExtendedTyped
  <2> HIDE DEF longer
  <2>5. after \in SessionState /\ KeepsTx(ended, after)
    BY <2>2, <2>4, BesideTx DEF SessionState
  <2> HIDE DEF after, gone
  <2>6. b = ss \/ KeepsTx(gone, b) \/ KeepsTx(after, b)
    BY <1>3, <1>4, <2>1, <2>3, <2>5
  <2>7. KeepsTx(ss, b)
    <3>1. KeepsTx(ss, ss)
      BY DEF KeepsTx
    <3> QED
      BY <1>5, <2>2, <2>3, <2>5, <2>6, <3>1
  <2> QED
    BY <1>9, <2>7 DEF HeardAs, Ending
<1>10. CASE answer.type \in {"Exported", "ExportFailed"}
  <2> DEFINE good == Succeeded(ss)
             bad == Ended(ss)
  <2>1. IF EndsIt(ss, answer) THEN \E js : Pump(s, good, js) \/ Pump(s, bad, js) ELSE Only(s, ss)
    <3>1. EndsIt(ss, answer) <=> ~(answer.job = NoJob \/ item.job # answer.job)
      BY <1>10 DEF EndsIt
    <3> QED
      BY <1>10, <3>1 DEF Hear, ExportEnded
  <2>2. KeepsTx(ss, bad) /\ KeepsTx(ss, ss)
    BY <1>1, BesideTx DEF KeepsTx
  <2>3. good \in SessionState /\ bad \in SessionState
    BY <1>6
  <2> HIDE DEF good, bad
  <2>4. IF EndsIt(ss, answer) THEN KeepsTx(good, b) \/ KeepsTx(bad, b) ELSE b = ss
    BY <1>3, <1>4, <2>1, <2>3
  <2>5. (EndsIt(ss, answer) /\ KeepsTx(good, b)) \/ KeepsTx(ss, b)
    BY <1>5, <2>2, <2>4
  <2> QED
    BY <1>10, <2>5 DEF HeardAs, Ending, good
<1>11. CASE answer.type \notin Ending
  <2>1. Only(s, Told(ss, answer))
    BY <1>11 DEF Hear, Ending
  <2>2. b = Told(ss, answer)
    BY <1>4, <2>1
  <2> QED
    BY <1>11, <2>2 DEF HeardAs, KeepsTx
<1> QED
  BY <1>7, <1>8, <1>9, <1>10, <1>11 DEF Ending

\* Hearing an answer makes of what the session shows what the answer was to
\* make of it.
Turns(ss, h, after) ==
  /\ after.status = "open" <=> Turned(ss.status = "open", h, Opens, Shuts)
  /\ ~after.autocommit <=> Turned(~ss.autocommit, h, TurnsOff, TurnsOn)
  /\ after.inTx <=> Turned(ss.inTx, h, BeginsTx(ChangeIn(ss)), EndsTx(ChangeIn(ss)))

\* ... which is what its answer turns, as the transaction change it has counted
\* is that of the statement in flight.
LEMMA HearTurns ==
  ASSUME NEW ss \in SessionState, NEW q, NEW c, NEW a \in Seq(AnswerSet), a # <<>>, Lined(ss, q, c, a),
         Sound(ss.inFlight), NEW after \in SessionState, HeardAs(ss, Head(a), after)
  PROVE  Turns(ss, Head(a), after)
<1> DEFINE h == Head(a)
           item == ss.inFlight
           S == BeginsTx(ChangeIn(ss))
           C == EndsTx(ChangeIn(ss))
<1>1. h \in AnswerSet
  BY HeadAndTail
<1>2. h \in Opens <=> h.type = "Connected"
  BY <1>1 DEF Opens
<1>3. h \in Shuts <=> h.type = "ConnectFailed"
  BY <1>1 DEF Shuts
<1>4. h \in TurnsOff <=> h.type = "Autocommit" /\ h.ok /\ ~h.more
  BY <1>1 DEF TurnsOff
<1>5. h \in TurnsOn <=> h.type = "Connected" \/ (h.type = "Autocommit" /\ h.ok /\ h.more)
  BY <1>1 DEF TurnsOn
<1>6. h \in S <=> h.type = "QueryDone" /\ ChangeIn(ss) = "begins"
  BY <1>1 DEF BeginsTx
<1>7. h \in C <=> h.type = "Connected" \/ (h.type = "Autocommit" /\ h.ok) \/ (h.type = "QueryDone" /\ ChangeIn(ss) = "ends")
  BY <1>1 DEF EndsTx
<1>8. /\ h.ok \in BOOLEAN /\ h.more \in BOOLEAN
      /\ ss.inTx \in BOOLEAN /\ ss.autocommit \in BOOLEAN
      /\ after.inTx \in BOOLEAN /\ after.autocommit \in BOOLEAN
  BY <1>1 DEF AnswerSet, SessionState
<1>9. HeardAs(ss, h, after)
  OBVIOUS
<1>10. EndsIt(ss, h) => /\ item \in Item /\ h \in TellingOf(item) /\ ss.txChanges = <<ChangeOf(item)>>
                        /\ ChangeIn(ss) = ChangeOf(item)
  <2>1. EndsIt(ss, h) => /\ item \in Item /\ h \in TellingOf(item) /\ ss.txChanges = <<ChangeOf(item)>>
    BY HeardIsOfIt
  <2>2. item \in Item => item # NoItem
    BY DEF Item, NoItem, Hows
  <2> QED
    BY <2>1, <2>2 DEF ChangeIn
<1> HIDE DEF h, S, C
<1>11. CASE h.type \notin Ending /\ KeepsTx(Told(ss, h), after)
  <2>1. CASE h.type = "Connected"
    <3>1. Told(ss, h) = [ss EXCEPT !.status = "open", !.inTx = FALSE, !.autocommit = TRUE, !.cursor = 0,
                                   !.cursorKept = FALSE]
      BY <2>1 DEF Told
    <3>2. after.status = "open" /\ after.inTx = FALSE /\ after.autocommit = TRUE
      BY <1>11, <3>1 DEF KeepsTx, SessionState
    <3> QED
      BY <1>2, <1>3, <1>4, <1>5, <1>6, <1>7, <2>1, <3>2 DEF Turns, Turned, S, C, h
  <2>2. CASE h.type = "ConnectFailed"
    <3>1. Told(ss, h) = [ss EXCEPT !.status = "failed"]
      BY <2>2 DEF Told
    <3>2. after.status = "failed" /\ after.inTx = ss.inTx /\ after.autocommit = ss.autocommit
      BY <1>11, <3>1 DEF KeepsTx, SessionState
    <3> QED
      BY <1>2, <1>3, <1>4, <1>5, <1>6, <1>7, <2>2, <3>2 DEF Turns, Turned, S, C, h
  <2>3. CASE h.type = "Autocommit" /\ h.ok
    <3>1. Told(ss, h) = [ss EXCEPT !.autocommit = h.more, !.inTx = FALSE]
      BY <2>3 DEF Told
    <3>2. after.status = ss.status /\ after.inTx = FALSE /\ after.autocommit = h.more
      BY <1>11, <3>1 DEF KeepsTx, SessionState
    <3> QED
      BY <1>2, <1>3, <1>4, <1>5, <1>6, <1>7, <1>8, <2>3, <3>2 DEF Turns, Turned, S, C, h
  <2>4. CASE h.type \notin {"Connected", "ConnectFailed"} /\ ~(h.type = "Autocommit" /\ h.ok)
    <3>1. KeepsTx(ss, Told(ss, h))
      <4>1. KeepsTx(ss, Placeless(ss)) /\ KeepsTx(ss, ss) /\ KeepsTx(ss, [ss EXCEPT !.cursorKept = TRUE])
        BY DEF KeepsTx, Placeless, SessionState
      <4> QED
        BY <2>4, <4>1 DEF Told
    <3>2. after.status = ss.status /\ after.inTx = ss.inTx /\ after.autocommit = ss.autocommit
      BY <1>11, <3>1 DEF KeepsTx
    <3> QED
      BY <1>2, <1>3, <1>4, <1>5, <1>6, <1>7, <1>8, <1>11, <2>4, <3>2 DEF Turns, Turned, S, C, h, Ending
  <2> QED
    BY <2>1, <2>2, <2>3, <2>4
<1>12. CASE h.type = "QueryDone" /\ KeepsTx(Succeeded(ss), after)
  <2>1. EndsIt(ss, h)
    BY <1>12 DEF EndsIt
  <2> DEFINE change == ChangeIn(ss)
  <2>2. ss.txChanges = <<change>>
    BY <1>10, <2>1
  <2> HIDE DEF change
  <2>3. /\ Succeeded(ss).status = ss.status /\ Succeeded(ss).autocommit = ss.autocommit
        /\ Succeeded(ss).inTx = CASE change = "begins" -> TRUE
                                  [] change = "ends"   -> FALSE
                                  [] OTHER             -> ss.inTx
    BY <2>2, BesideTx
  <2> QED
    BY <1>2, <1>3, <1>4, <1>5, <1>6, <1>7, <1>8, <1>12, <2>3 DEF Turns, Turned, S, C, h, KeepsTx, change
<1>13. CASE /\ h.type \in Ending \ {"QueryDone"}
            /\ after.status = ss.status /\ after.inTx = ss.inTx /\ after.autocommit = ss.autocommit
  BY <1>2, <1>3, <1>4, <1>5, <1>6, <1>7, <1>8, <1>13 DEF Turns, Turned, S, C, h, Ending
<1>14. CASE h.type \in {"Exported", "ExportFailed"} /\ EndsIt(ss, h) /\ KeepsTx(Succeeded(ss), after)
  <2>1. item.how = "export"
    BY <1>10, <1>14 DEF TellingOf, EndsOf, Item, Hows
  <2>2. ChangeOf(item) = "none"
    BY <2>1 DEF Sound, ChangeOf, TxChange
  <2>3. Succeeded(ss).inTx = CASE ChangeOf(item) = "begins" -> TRUE
                               [] ChangeOf(item) = "ends"   -> FALSE
                               [] OTHER                     -> ss.inTx
    BY <1>10, <1>14, BesideTx
  <2>4. Succeeded(ss).status = ss.status /\ Succeeded(ss).autocommit = ss.autocommit
    BY BesideTx
  <2> QED
    BY <1>13, <1>14, <2>2, <2>3, <2>4 DEF KeepsTx, Ending
<1> QED
  BY <1>9, <1>11, <1>12, <1>13, <1>14 DEF HeardAs, KeepsTx

\* What the app does to a session beside its transaction: nothing, unless a
\* connection is on its way to it.
Beside(s) ==
  /\ s \in Live' => ItemsSound(session'[s])
  /\ s \in Live' /\ alive[s] /\ NoConnect(cmds'[s]) =>
       /\ s \in Live /\ NoConnect(cmds[s]) /\ KeepsTx(session[s], session'[s])
       /\ session[s].inFlight \in {session'[s].inFlight, NoItem}

\* ... so that what is shown stays.
LEMMA AppShown ==
  ASSUME Typed, Answering, TxInv, UNCHANGED <<current, early, conn, alive, answers>>,
         \A s \in Sessions : Beside(s)
  PROVE  TxInv'
<1> SUFFICES ASSUME NEW s \in Sessions PROVE TxShown(s)'
  BY DEF TxInv
<1>1. TxShown(s) /\ Beside(s) /\ answers[s] \in Seq(AnswerSet)
      /\ (s \in Live /\ alive[s] => Lined(session[s], cmds[s], current[s], answers[s]))
  BY DEF TxInv, Answering, Typed, ChannelsOK
<1>2. ASSUME s \in Live', alive[s], NoConnect(cmds'[s]), current[s].type # "Connect"
      PROVE  ShownAs(session'[s], answers[s], conn[s])
  <2>1. /\ s \in Live /\ NoConnect(cmds[s]) /\ KeepsTx(session[s], session'[s])
        /\ session[s].inFlight \in {session'[s].inFlight, NoItem}
    BY <1>1, <1>2 DEF Beside
  <2>2. ShownAs(session[s], answers[s], conn[s])
    BY <1>1, <1>2, <2>1 DEF TxShown
  <2>3. session[s].inFlight = NoItem => \A i \in DOMAIN answers[s] : answers[s][i].type # "QueryDone"
    BY <1>1, <1>2, <2>1, IdleHearsNone
  <2> QED
    BY <1>1, <2>1, <2>2, <2>3, ShownAlike
<1> QED
  BY <1>1, <1>2 DEF TxShown, Beside

\* What waits before a step still waits after more was sent behind it.
LEMMA ConnectsStay ==
  ASSUME NEW q \in Seq(CommandSet), NEW out \in Seq(CommandSet)
  PROVE  NoConnect(q \o out) <=> NoConnect(q) /\ NoConnect(out)
<1> DEFINE m == Len(q)
           n == Len(out)
           r == q \o out
<1>1. /\ m \in Nat /\ n \in Nat /\ DOMAIN q = 1..m /\ DOMAIN out = 1..n /\ DOMAIN r = 1..(m + n)
      /\ \A i \in 1..m : r[i] = q[i]
      /\ \A i \in 1..n : r[m + i] = out[i]
  BY Joined
<1> HIDE DEF m, n, r
<1>2. ASSUME NEW k \in 1..(m + n) PROVE (k \in 1..m) \/ (k - m \in 1..n /\ r[k] = out[k - m])
  <2>1. CASE k > m
    <3>1. k - m \in 1..n /\ m + (k - m) = k
      BY <1>1, <2>1
    <3> QED
      BY <1>1, <3>1
  <2>2. CASE ~(k > m)
    BY <1>1, <2>2
  <2> QED
    BY <2>1, <2>2
<1>3. \A i \in 1..m : i \in 1..(m + n)
  BY <1>1
<1>4. \A i \in 1..n : m + i \in 1..(m + n)
  BY <1>1
<1>5. NoConnect(r) <=> NoConnect(q) /\ NoConnect(out)
  BY <1>1, <1>2, <1>3, <1>4 DEF NoConnect
<1> QED
  BY <1>5 DEF r

\* The pump moves the first that waits to flight.
LEMMA PumpedSound ==
  ASSUME NEW ss \in SessionState, ItemsSound(ss)
  PROVE  /\ ItemsSound(Pumped(ss)) /\ ss.inFlight \in {Pumped(ss).inFlight, NoItem}
         /\ NoConnect(Sent(ss))
<1>1. CASE Sends(ss)
  <2> DEFINE q == ss.queue
  <2>1. q \in Seq(Item) /\ q # <<>> /\ ss.inFlight = NoItem
    BY <1>1 DEF Sends, SessionState
  <2>2. /\ Head(q) = q[1] /\ 1 \in DOMAIN q /\ Head(q) \in Item
        /\ \A i \in DOMAIN Tail(q) : i + 1 \in DOMAIN q /\ Tail(q)[i] = q[i + 1]
    BY <2>1, HeadAndTail
  <2>3. Pumped(ss).inFlight = Head(q) /\ Pumped(ss).queue = Tail(q) /\ Pumped(ss).held = ss.held
    BY <1>1 DEF Pumped, SessionState
  <2>4. Sent(ss) = <<CommandOf(Head(q))>>
    BY <1>1 DEF Sent
  <2>5. CommandOf(Head(q)).type # "Connect"
    BY <2>2, CommandAsks DEF Asking, StatementTypes
  <2> HIDE DEF q
  <2>6. AllSound(q)
    BY DEF ItemsSound, q
  <2>7. Sound(Head(q)) /\ AllSound(Tail(q))
    BY <2>2, <2>6 DEF AllSound
  <2>8. NoConnect(Sent(ss))
    BY <2>4, <2>5 DEF NoConnect
  <2> QED
    BY <2>1, <2>3, <2>7, <2>8 DEF ItemsSound
<1>2. CASE ~Sends(ss)
  BY <1>2 DEF Pumped, Sent, NoConnect
<1> QED
  BY <1>1, <1>2

\* A session pumped, as it was beside its transaction.
LEMMA PumpShown ==
  ASSUME Typed, Answering, TxInv, UNCHANGED <<current, early, conn, alive, answers>>, NEW s \in Live,
         NEW ss \in SessionState, KeepsTx(session[s], ss), ss.inFlight = session[s].inFlight, ItemsSound(ss),
         NEW js, Pump(s, ss, js)
  PROVE  TxInv'
<1>1. /\ s \in Sessions /\ session \in [Sessions -> SessionState]
      /\ \A t \in Sessions : cmds[t] \in Seq(CommandSet)
      /\ session' = [session EXCEPT ![s] = Pumped(ss)]
      /\ \A t \in Sessions : cmds'[t] = IF alive[t] THEN cmds[t] \o To(s, Sent(ss))[t] ELSE cmds[t]
  BY DEF Live, Typed, TypeOK, ChannelsOK, Pump, Deliver
<1>2. KeepsTx(session[s], Pumped(ss))
  BY BesideTx DEF KeepsTx
<1>3. /\ ItemsSound(Pumped(ss)) /\ session[s].inFlight \in {Pumped(ss).inFlight, NoItem}
      /\ NoConnect(Sent(ss)) /\ Sent(ss) \in Seq(CommandSet)
  BY PumpedSound, PumpedTyped
<1>4. session'[s] = Pumped(ss) /\ cmds'[s] = IF alive[s] THEN cmds[s] \o Sent(ss) ELSE cmds[s]
  BY <1>1 DEF To
<1>5. Beside(s)
  BY <1>1, <1>2, <1>3, <1>4, ConnectsStay DEF Beside
<1>6. ASSUME NEW t \in Sessions, t # s PROVE Beside(t)
  <2>1. session'[t] = session[t] /\ cmds'[t] = cmds[t]
    <3>1. To(s, Sent(ss))[t] = <<>> /\ cmds[t] \o <<>> = cmds[t]
      BY <1>1, <1>6 DEF To
    <3> QED
      BY <1>1, <1>6, <3>1
  <2>2. t \in Live' <=> t \in Live
    BY <2>1 DEF Live
  <2> QED
    BY <2>1, <2>2 DEF Beside, KeepsTx, TxInv, TxShown
<1> QED
  BY <1>5, <1>6, AppShown

\* Every run a user asks for is sound: an export is of a read.
LEMMA RunsSound ==
  ASSUME Typed, NEW s \in Sessions, Run(s) \/ LoadMore(s) \/ FetchAll(s) \/ ExportAll(s)
  PROVE  \E items \in Seq(Item) : EnqueueOn(s, items) /\ AllSound(items)
<1>0. session[s] \in SessionState
  BY DEF Typed, TypeOK
<1>1. ASSUME NEW sql \in Statements \cup {NoSql}, NEW how \in Hows, NEW tab \in Nat, how = "export" => sql = "select",
             EnqueueOn(s, <<Wanted(sql, how, tab)>>)
      PROVE  \E items \in Seq(Item) : EnqueueOn(s, items) /\ AllSound(items)
  <2> DEFINE item == Wanted(sql, how, tab)
  <2>1. item \in Item
    BY WantedTyped
  <2>2. Sound(item)
    BY <1>1 DEF Sound, Wanted
  <2> HIDE DEF item
  <2>3. <<item>> \in Seq(Item) /\ AllSound(<<item>>)
    BY <2>1, <2>2 DEF AllSound
  <2> QED
    BY <1>1, <2>3 DEF item
<1>2. CASE Run(s)
  <2>1. PICK run \in Runs : EnqueueOn(s, [i \in DOMAIN run |-> Wanted(run[i], "query", 0)])
    BY <1>2 DEF Run
  <2> DEFINE items == [i \in DOMAIN run |-> Wanted(run[i], "query", 0)]
  <2>2. run \in Seq(Statements)
    BY QueryRunAssumption
  <2>3. items \in Seq(Item)
    <3>1. ASSUME NEW i \in DOMAIN run PROVE Wanted(run[i], "query", 0) \in Item
      <4>1. run[i] \in Statements \cup {NoSql} /\ "query" \in Hows /\ 0 \in Nat
        BY <2>2, <3>1 DEF Hows
      <4> QED
        BY <4>1, WantedTyped
    <3>2. DOMAIN run = 1..Len(run) /\ Len(run) \in Nat
      BY <2>2
    <3> QED
      BY <3>1, <3>2
  <2>4. AllSound(items)
    BY DEF AllSound, Sound, Wanted
  <2> HIDE DEF items
  <2> QED
    BY <2>1, <2>3, <2>4 DEF items
<1>3. CASE LoadMore(s)
  <2>1. PICK i \in DOMAIN session[s].tabs :
          EnqueueOn(s, <<Wanted(session[s].tabs[i].sql, "more", session[s].tabs[i].number)>>)
    BY <1>3 DEF LoadMore
  <2>2. session[s].tabs[i] \in Tab
    BY <1>0 DEF SessionState
  <2>3. session[s].tabs[i].sql \in Statements \cup {NoSql} /\ session[s].tabs[i].number \in Nat
    BY <2>2 DEF Tab
  <2> QED
    BY <1>1, <2>1, <2>3 DEF Hows
<1>4. CASE FetchAll(s)
  BY <1>1, <1>4 DEF FetchAll, Hows, Statements
<1>5. CASE ExportAll(s)
  BY <1>1, <1>5 DEF ExportAll, Hows, Statements
<1> QED
  BY <1>2, <1>3, <1>4, <1>5

\* What is enqueued stays sound behind what is.
LEMMA QueuesSound ==
  ASSUME Typed, NEW s \in Sessions, NEW ss \in SessionState, ItemsSound(ss), NEW items \in Seq(Item),
         AllSound(items)
  PROVE  /\ ItemsSound(Queues(s, ss, items)) /\ KeepsTx(ss, Queues(s, ss, items))
         /\ Queues(s, ss, items).inFlight = ss.inFlight
<1> DEFINE q == ss.queue
           r == Numbered(items)
           b == Queues(s, ss, items)
<1>1. made \in Nat /\ q \in Seq(Item) /\ AllSound(q)
  BY DEF Typed, TypeOK, SessionState, ItemsSound
<1>2. r \in Seq(Item) /\ DOMAIN r = DOMAIN items /\ \A i \in DOMAIN items : r[i] = [items[i] EXCEPT !.job = JobId(i)]
  <2>1. r \in Seq(Item)
    BY <1>1, NumberedItems
  <2> QED
    BY <2>1 DEF Numbered
<1>3. b.queue = q \o r /\ b.inFlight = ss.inFlight /\ b.held = ss.held /\ KeepsTx(ss, b)
  BY DEF Queues, Behind, SessionState, KeepsTx
<1>4. AllSound(r)
  <2>1. ASSUME NEW i \in DOMAIN items PROVE Sound([items[i] EXCEPT !.job = JobId(i)])
    <3>1. items[i] \in Item /\ Sound(items[i])
      BY DEF AllSound
    <3> DEFINE n == JobId(i)
    <3> HIDE DEF n
    <3>2. [items[i] EXCEPT !.job = n].how = items[i].how /\ [items[i] EXCEPT !.job = n].sql = items[i].sql
      BY <3>1 DEF Item
    <3> QED
      BY <3>1, <3>2 DEF Sound, n
  <2> QED
    BY <1>2, <2>1 DEF AllSound
<1> HIDE DEF q, r, b
<1>5. AllSound(q \o r)
  <2>1. /\ Len(q) \in Nat /\ DOMAIN q = 1..Len(q) /\ Len(r) \in Nat /\ DOMAIN r = 1..Len(r)
        /\ DOMAIN (q \o r) = 1..(Len(q) + Len(r))
        /\ \A i \in 1..Len(q) : (q \o r)[i] = q[i]
        /\ \A i \in 1..Len(r) : (q \o r)[Len(q) + i] = r[i]
    BY <1>1, <1>2, Joined
  <2>2. ASSUME NEW i \in 1..(Len(q) + Len(r)), i > Len(q) PROVE Sound((q \o r)[i])
    <3>1. i - Len(q) \in 1..Len(r) /\ Len(q) + (i - Len(q)) = i
      BY <2>1, <2>2
    <3>2. (q \o r)[i] = r[i - Len(q)]
      BY <2>1, <3>1
    <3> QED
      BY <1>4, <2>1, <3>1, <3>2 DEF AllSound
  <2>3. ASSUME NEW i \in 1..(Len(q) + Len(r)), ~(i > Len(q)) PROVE Sound((q \o r)[i])
    <3>1. i \in 1..Len(q)
      BY <2>1, <2>3
    <3> QED
      BY <1>1, <2>1, <3>1 DEF AllSound
  <2> QED
    BY <2>1, <2>2, <2>3 DEF AllSound
<1>6. ItemsSound(b)
  BY <1>3, <1>5 DEF ItemsSound
<1> QED
  BY <1>3, <1>6 DEF b

\* A run changes nothing of the transaction before its answer is heard.
LEMMA RunsShown ==
  ASSUME Typed, Agreed, Answering, TxInv, NEW s \in Sessions,
         Run(s) \/ LoadMore(s) \/ FetchAll(s) \/ ExportAll(s) \/ Release(s)
  PROVE  TxInv'
<1>0. /\ UNCHANGED <<current, early, conn, alive, answers>> /\ session[s] \in SessionState
      /\ session \in [Sessions -> SessionState]
  BY DEF Run, LoadMore, FetchAll, ExportAll, Release, Acts, User, untouchedByUser, Typed, TypeOK
<1>1. s \in Live /\ ItemsSound(session[s])
  <2>1. dialog \in {Confirm("FetchAll", {s}), Confirm("RunOnProd", {s})} => s \in dialog.who
    BY DEF Confirm
  <2>2. s \in Live
    BY <2>1 DEF Run, LoadMore, FetchAll, ExportAll, Release, Acts, Agreed
  <2> QED
    BY <2>2 DEF TxInv, TxShown
<1>2. ASSUME NEW ss \in SessionState, KeepsTx(session[s], ss), ss.inFlight = session[s].inFlight, ItemsSound(ss),
             NEW items \in Seq(Item), AllSound(items), Queue(s, ss, items)
      PROVE  TxInv'
  <2> DEFINE after == Queues(s, ss, items)
  <2>1. after \in SessionState
    BY <1>2, QueuesTyped
  <2>2. KeepsTx(session[s], after) /\ after.inFlight = session[s].inFlight /\ ItemsSound(after)
    BY <1>2, QueuesSound DEF KeepsTx
  <2>3. Pump(s, after, Enqueued(s, items))
    BY <1>2 DEF Queue, Queues
  <2> HIDE DEF after
  <2> QED
    BY <1>0, <1>1, <2>1, <2>2, <2>3, PumpShown
<1>3. CASE Release(s)
  <2> DEFINE ss == [session[s] EXCEPT !.confirmed = TRUE, !.held = <<>>]
  <2>1. <<>> \in Seq(Item) /\ AllSound(<<>>)
    BY DEF AllSound
  <2>2. /\ ss \in SessionState /\ session[s].held \in Seq(Item) /\ ss.inFlight = session[s].inFlight
        /\ ss.queue = session[s].queue /\ ss.held = <<>> /\ KeepsTx(session[s], ss)
    BY <1>0, <2>1 DEF SessionState, KeepsTx
  <2>3. Queue(s, ss, session[s].held)
    BY <1>3 DEF Release
  <2> HIDE DEF ss
  <2>4. ItemsSound(ss) /\ AllSound(session[s].held)
    BY <1>1, <2>1, <2>2 DEF ItemsSound
  <2> QED
    BY <1>2, <2>2, <2>3, <2>4
<1>4. CASE ~Release(s)
  <2>1. PICK items \in Seq(Item) : EnqueueOn(s, items) /\ AllSound(items)
    BY <1>4, RunsSound
  <2>2. CASE Asks(s, items)
    <3> DEFINE ss == [session[s] EXCEPT !.held = items]
    <3>1. session' = [session EXCEPT ![s] = ss] /\ UNCHANGED cmds
      BY <2>1, <2>2 DEF EnqueueOn, Only
    <3>2. KeepsTx(session[s], ss) /\ ss.inFlight = session[s].inFlight /\ ss.queue = session[s].queue /\ ss.held = items
      BY <1>0 DEF SessionState, KeepsTx
    <3> HIDE DEF ss
    <3>3. ItemsSound(ss)
      BY <1>1, <2>1, <3>2 DEF ItemsSound
    <3>4. ASSUME NEW t \in Sessions PROVE Beside(t)
      <4>1. CASE t = s
        BY <1>0, <1>1, <3>1, <3>2, <3>3, <4>1 DEF Beside
      <4>2. CASE t # s
        <5>1. session'[t] = session[t] /\ (t \in Live' <=> t \in Live)
          BY <1>0, <3>1, <4>2 DEF Live
        <5> QED
          BY <3>1, <5>1 DEF Beside, KeepsTx, TxInv, TxShown
      <4> QED
        BY <4>1, <4>2
    <3> QED
      BY <1>0, <3>4, AppShown
  <2>3. CASE ~Asks(s, items)
    <3>1. Queue(s, session[s], items)
      BY <2>1, <2>3 DEF EnqueueOn
    <3> QED
      BY <1>0, <1>1, <1>2, <2>1, <3>1 DEF KeepsTx
  <2> QED
    BY <2>2, <2>3
<1> QED
  BY <1>3, <1>4

\* A step that sends at most one command past the queue, and changes sessions
\* beside their transactions or sends them their connection.
LEMMA DirectShown ==
  ASSUME Typed, Answering, TxInv, UNCHANGED <<current, early, conn, alive, answers>>,
         NEW u \in Sessions, NEW type \in CommandTypes, NEW on \in BOOLEAN,
         NEW asks \in BOOLEAN, IF asks THEN Deliver(To(u, <<Direct(type, on)>>)) ELSE UNCHANGED cmds,
         \A t \in Sessions :
           \/ t \notin Live'
           \/ session'[t] = session[t]
           \/ /\ ItemsSound(session'[t])
              /\ \/ t \in Live /\ KeepsTx(session[t], session'[t]) /\ session'[t].inFlight = session[t].inFlight
                 \/ asks /\ t = u /\ type = "Connect"
  PROVE  TxInv'
<1> DEFINE c == Direct(type, on)
           out == To(u, <<c>>)
<1>1. /\ <<c>> \in Seq(CommandSet) /\ <<>> \in Seq(CommandSet) /\ NoConnect(<<>>)
      /\ NoConnect(<<c>>) => type # "Connect"
  <2>1. c \in CommandSet /\ c.type = type
    BY CommandTyped DEF Direct
  <2> HIDE DEF c
  <2>2. <<c>> \in Seq(CommandSet) /\ <<>> \in Seq(CommandSet) /\ 1 \in DOMAIN <<c>> /\ <<c>>[1] = c
    BY <2>1
  <2> QED
    BY <2>1, <2>2 DEF NoConnect
<1>2. \A t \in Sessions : out[t] = IF t = u THEN <<c>> ELSE <<>>
  BY DEF To
<1>3. \A t \in Sessions : cmds[t] \in Seq(CommandSet)
  BY DEF Typed, ChannelsOK
<1>4. asks => \A t \in Sessions : cmds'[t] = IF alive[t] THEN cmds[t] \o out[t] ELSE cmds[t]
  BY DEF Deliver
<1> HIDE DEF c, out
<1>5. ASSUME NEW t \in Sessions PROVE NoConnect(cmds'[t]) => NoConnect(cmds[t])
  <2>1. CASE asks /\ alive[t]
    <3>1. cmds'[t] = cmds[t] \o out[t] /\ out[t] \in Seq(CommandSet)
      BY <1>1, <1>2, <1>4, <2>1
    <3> QED
      BY <1>3, <3>1, ConnectsStay
  <2>2. CASE ~(asks /\ alive[t])
    BY <1>4, <2>2
  <2> QED
    BY <2>1, <2>2
<1>6. ASSUME asks, alive[u], type = "Connect" PROVE ~NoConnect(cmds'[u])
  <2>1. cmds'[u] = cmds[u] \o <<c>> /\ ~NoConnect(<<c>>)
    BY <1>1, <1>2, <1>4, <1>6
  <2> QED
    BY <1>1, <1>3, <2>1, ConnectsStay
<1>7. ASSUME NEW t \in Sessions PROVE Beside(t)
  <2>1. CASE t \notin Live'
    BY <2>1 DEF Beside
  <2>2. CASE session'[t] = session[t] /\ t \in Live'
    <3>1. t \in Live
      BY <2>2 DEF Live
    <3>2. ItemsSound(session[t])
      BY <3>1 DEF TxInv, TxShown
    <3> QED
      BY <1>5, <2>2, <3>1, <3>2 DEF Beside, KeepsTx
  <2>3. CASE /\ ItemsSound(session'[t])
             /\ t \in Live /\ KeepsTx(session[t], session'[t]) /\ session'[t].inFlight = session[t].inFlight
    BY <1>5, <2>3 DEF Beside
  <2>4. CASE ItemsSound(session'[t]) /\ asks /\ t = u /\ type = "Connect"
    BY <1>6, <2>4 DEF Beside
  <2> QED
    BY <2>1, <2>2, <2>3, <2>4
<1> QED
  BY <1>7, AppShown

\* What is dropped leaves the rest sound.
LEMMA WithoutSound ==
  ASSUME NEW queue \in Seq(Item), AllSound(queue), NEW id
  PROVE  AllSound(Without(queue, id)) /\ AllSound(<<>>)
<1> DEFINE places == {i \in DOMAIN queue : queue[i].job = id}
           i == CHOOSE i \in places : TRUE
<1>1. CASE places = {}
  BY <1>1 DEF Without, AllSound
<1>2. CASE places # {}
  <2>1. i \in 1..Len(queue)
    BY <1>2
  <2>2. Without(queue, id) = RemoveAt(queue, i)
    BY <1>2 DEF Without
  <2> HIDE DEF i, places
  <2>3. /\ DOMAIN RemoveAt(queue, i) = 1..(Len(queue) - 1)
        /\ \A k \in 1..(Len(queue) - 1) : RemoveAt(queue, i)[k] = IF k < i THEN queue[k] ELSE queue[k + 1]
    BY <2>1, WithoutThe
  <2>4. ASSUME NEW k \in 1..(Len(queue) - 1) PROVE k \in DOMAIN queue /\ k + 1 \in DOMAIN queue
    OBVIOUS
  <2> QED
    BY <2>2, <2>3, <2>4 DEF AllSound
<1> QED
  BY <1>1, <1>2

\* Nor does anything else the user does, but to reconnect, open or close, and then
\* a connection is on its way or the session is no more.
LEMMA ActsShown ==
  ASSUME Typed, Agreed, Answering, TxInv, NEW s \in Sessions, UserActs(s)
  PROVE  TxInv'
<1>0. /\ session[s] \in SessionState /\ session \in [Sessions -> SessionState]
      /\ session[s].autocommit \in BOOLEAN
      /\ s \in Live => ItemsSound(session[s])
  BY DEF Typed, TypeOK, SessionState, TxInv, TxShown
<1> DEFINE Rest5 == UNCHANGED <<current, early, conn, alive, answers>>
<1>1. CASE Run(s) \/ LoadMore(s) \/ FetchAll(s) \/ ExportAll(s) \/ Release(s)
  BY <1>1, RunsShown
<1>2. ASSUME ~(Run(s) \/ LoadMore(s) \/ FetchAll(s) \/ ExportAll(s) \/ Release(s))
      PROVE  Rest5
  BY <1>2 DEF UserActs, AskToFetchAll, CancelRunning, DropQueued, ToggleAutocommit, LoadSchema, ExportFetched,
     Reconnect, OpenSession, CloseOrConfirm, CloseConfirmed, Acts, User, untouchedByUser
<1>3. CASE AskToFetchAll(s) \/ CancelRunning(s) \/ DropQueued(s)
  <2>1. UNCHANGED cmds /\ Rest5 /\ s \in Live
    BY <1>3 DEF AskToFetchAll, CancelRunning, DropQueued, Acts, User, untouchedByUser
  <2>2. ASSUME NEW q, AllSound(q)
        PROVE  LET b == [session[s] EXCEPT !.queue = q]
               IN  ItemsSound(b) /\ KeepsTx(session[s], b) /\ b.inFlight = session[s].inFlight
    <3> DEFINE b == [session[s] EXCEPT !.queue = q]
    <3>1. b.inFlight = session[s].inFlight /\ b.queue = q /\ b.held = session[s].held /\ KeepsTx(session[s], b)
      BY <1>0 DEF SessionState, KeepsTx
    <3> HIDE DEF b
    <3>2. ItemsSound(b)
      BY <1>0, <2>1, <2>2, <3>1 DEF ItemsSound
    <3> QED
      BY <3>1, <3>2 DEF b
  <2>3. \/ session' = session
        \/ \E q : AllSound(q) /\ session' = [session EXCEPT ![s] = [session[s] EXCEPT !.queue = q]]
    <3>1. AllSound(<<>>) /\ \A id : AllSound(Without(session[s].queue, id))
      BY <1>0, <2>1, WithoutSound DEF ItemsSound, SessionState
    <3>2. CASE AskToFetchAll(s)
      BY <3>2 DEF AskToFetchAll
    <3>3. CASE CancelRunning(s)
      BY <3>1, <3>3 DEF CancelRunning, Dropped
    <3>4. CASE DropQueued(s)
      <4>1. \E id : session' = [session EXCEPT ![s] = [session[s] EXCEPT !.queue = Without(session[s].queue, id)]]
        BY <3>4 DEF DropQueued
      <4> QED
        BY <3>1, <4>1
    <3> QED
      BY <1>3, <3>2, <3>3, <3>4
  <2>4. \A t \in Sessions :
          \/ session'[t] = session[t]
          \/ /\ ItemsSound(session'[t]) /\ t \in Live /\ KeepsTx(session[t], session'[t])
             /\ session'[t].inFlight = session[t].inFlight
    <3>1. ASSUME NEW q, AllSound(q), session' = [session EXCEPT ![s] = [session[s] EXCEPT !.queue = q]],
                 NEW t \in Sessions
          PROVE  \/ session'[t] = session[t]
                 \/ /\ ItemsSound(session'[t]) /\ t \in Live /\ KeepsTx(session[t], session'[t])
                    /\ session'[t].inFlight = session[t].inFlight
      <4> DEFINE b == [session[s] EXCEPT !.queue = q]
      <4>1. ItemsSound(b) /\ KeepsTx(session[s], b) /\ b.inFlight = session[s].inFlight
        BY <2>2, <3>1
      <4> HIDE DEF b
      <4> QED
        BY <1>0, <2>1, <3>1, <4>1 DEF b
    <3> QED
      BY <2>3, <3>1
  <2>5. "Connect" \in CommandTypes /\ FALSE \in BOOLEAN
    BY DEF CommandTypes
  <2> QED
    BY <2>1, <2>4, <2>5, DirectShown
<1>4. CASE ToggleAutocommit(s) \/ LoadSchema(s) \/ ExportFetched(s)
  <2>1. UNCHANGED session /\ Rest5
    BY <1>4 DEF ToggleAutocommit, LoadSchema, ExportFetched, Acts, User, untouchedByUser
  <2>2. {"SetAutocommit", "LoadSchema", "ExportFetched"} \subseteq CommandTypes /\ TRUE \in BOOLEAN
    BY DEF CommandTypes
  <2>3. \E type \in CommandTypes, on \in BOOLEAN : Deliver(To(s, <<Direct(type, on)>>))
    <3>1. CASE ToggleAutocommit(s)
      BY <1>0, <2>2, <3>1 DEF ToggleAutocommit, SendDirect
    <3>2. CASE LoadSchema(s) \/ ExportFetched(s)
      BY <2>2, <3>2 DEF LoadSchema, ExportFetched, SendDirect
    <3> QED
      BY <1>4, <3>1, <3>2
  <2> QED
    BY <2>1, <2>2, <2>3, DirectShown
<1>5. CASE Reconnect(s) \/ OpenSession(s)
  <2>1. Rest5
    BY <1>5 DEF Reconnect, OpenSession, Acts, User, untouchedByUser
  <2>2. PICK prod \in BOOLEAN :
          /\ \/ s \in Live /\ session' = [session EXCEPT ![s] =
                  [session[s] EXCEPT !.status = "connecting", !.prod = prod, !.inTx = FALSE,
                                     !.autocommit = TRUE, !.cursor = 0, !.cursorKept = FALSE]]
             \/ session' = [session EXCEPT ![s] = Fresh("connecting", prod)]
          /\ SendDirect(s, Direct("Connect", prod))
    BY <1>5 DEF Reconnect, OpenSession, Acts
  <2> DEFINE b == [session[s] EXCEPT !.status = "connecting", !.prod = prod, !.inTx = FALSE,
                                     !.autocommit = TRUE, !.cursor = 0, !.cursorKept = FALSE]
             f == Fresh("connecting", prod)
  <2>3. s \in Live => ItemsSound(b)
    <3>1. b.inFlight = session[s].inFlight /\ b.queue = session[s].queue /\ b.held = session[s].held
      BY <1>0 DEF SessionState
    <3> QED
      BY <1>0, <3>1 DEF ItemsSound
  <2>4. ItemsSound(f)
    BY DEF Fresh, ItemsSound, AllSound, Sound, NoItem
  <2> HIDE DEF b, f
  <2>5. (s \in Live /\ session' = [session EXCEPT ![s] = b]) \/ session' = [session EXCEPT ![s] = f]
    BY <2>2 DEF b, f
  <2>6. ItemsSound(session'[s]) /\ \A t \in Sessions \ {s} : session'[t] = session[t]
    BY <1>0, <2>3, <2>4, <2>5
  <2>7. "Connect" \in CommandTypes /\ TRUE \in BOOLEAN
    BY DEF CommandTypes
  <2>8. Deliver(To(s, <<Direct("Connect", prod)>>))
    BY <2>2 DEF SendDirect
  <2> QED
    BY <2>1, <2>6, <2>7, <2>8, DirectShown
<1>6. CASE CloseOrConfirm(s) \/ CloseConfirmed(s)
  <2>1. Rest5 /\ "Connect" \in CommandTypes /\ TRUE \in BOOLEAN /\ FALSE \in BOOLEAN
    BY <1>6 DEF CloseOrConfirm, CloseConfirmed, Acts, User, untouchedByUser, CommandTypes
  <2>2. CASE Close(s)
    <3> DEFINE gone == Fresh("closed", FALSE)
               f == Fresh("connecting", FALSE)
    <3>1. gone.status = "closed" /\ ItemsSound(f)
      BY DEF Fresh, ItemsSound, AllSound, Sound, NoItem
    <3>2. \/ session' = [session EXCEPT ![s] = gone] /\ UNCHANGED cmds
          \/ \E new \in Sessions :
               /\ session' = [session EXCEPT ![s] = gone, ![new] = f]
               /\ Deliver(To(new, <<Direct("Connect", FALSE)>>))
      BY <2>2 DEF Close
    <3> HIDE DEF gone, f
    <3>3. CASE session' = [session EXCEPT ![s] = gone] /\ UNCHANGED cmds
      <4>1. session'[s].status = "closed" /\ \A t \in Sessions \ {s} : session'[t] = session[t]
        BY <1>0, <3>1, <3>3
      <4>2. \A t \in Sessions : t \notin Live' \/ session'[t] = session[t]
        BY <4>1 DEF Live
      <4> QED
        BY <2>1, <3>3, <4>2, DirectShown
    <3>4. ASSUME NEW new \in Sessions, session' = [session EXCEPT ![s] = gone, ![new] = f],
                 Deliver(To(new, <<Direct("Connect", FALSE)>>))
          PROVE  TxInv'
      <4>1. ItemsSound(session'[new])
        BY <1>0, <3>1, <3>4
      <4>2. ASSUME NEW t \in Sessions, t # new PROVE t \notin Live' \/ session'[t] = session[t]
        BY <1>0, <3>1, <3>4, <4>2 DEF Live
      <4> QED
        BY <2>1, <3>4, <4>1, <4>2, DirectShown
    <3> QED
      BY <3>2, <3>3, <3>4
  <2>3. CASE ~Close(s)
    <3>1. UNCHANGED <<session, cmds>>
      BY <1>6, <2>3 DEF CloseOrConfirm, CloseConfirmed
    <3> QED
      BY <2>1, <3>1, DirectShown
  <2> QED
    BY <2>2, <2>3
<1> QED
  BY <1>1, <1>2, <1>3, <1>4, <1>5, <1>6 DEF UserActs

\* What a session will show stays as it was once one answer more is heard.
LEMMA TurnedShown ==
  ASSUME NEW ss, NEW after, NEW a \in Seq(AnswerSet), a # <<>>, NEW c,
         ss.inTx \in BOOLEAN, after.inTx \in BOOLEAN, Turns(ss, Head(a), after),
         after.inFlight = ss.inFlight \/ \A i \in DOMAIN Tail(a) : Tail(a)[i].type # "QueryDone",
         ShownAs(ss, a, c)
  PROVE  ShownAs(after, Tail(a), c)
<1> DEFINE h == Head(a)
           t == Tail(a)
           S == BeginsTx(ChangeIn(ss))
           C == EndsTx(ChangeIn(ss))
           b == [after EXCEPT !.inFlight = ss.inFlight]
<1>1. t \in Seq(AnswerSet)
  BY HeadAndTail
<1>2. ASSUME NEW x \in BOOLEAN, NEW y \in BOOLEAN, NEW S1, NEW C1, y <=> Turned(x, h, S1, C1)
      PROVE  Latched(x, a, S1, C1) <=> Latched(y, t, S1, C1)
  <2>1. Latched(x, a, S1, C1) <=> Latched(Turned(x, h, S1, C1), t, S1, C1)
    BY LatchedFirst
  <2>2. Turned(x, h, S1, C1) \in BOOLEAN
    BY DEF Turned
  <2> DEFINE z == Turned(x, h, S1, C1)
  <2> HIDE DEF z
  <2>3. y = z
    BY <1>2, <2>2 DEF z
  <2> QED
    BY <2>1, <2>3 DEF z
<1>3. WillBeOpen(ss, a) <=> WillBeOpen(after, t)
  <2>1. (after.status = "open") <=> Turned(ss.status = "open", h, Opens, Shuts)
    BY DEF Turns
  <2>2. (after.status = "open") \in BOOLEAN /\ (ss.status = "open") \in BOOLEAN
    OBVIOUS
  <2> HIDE DEF h, t
  <2> QED
    BY <1>2, <2>1, <2>2 DEF WillBeOpen
<1>4. WillBeManual(ss, a) <=> WillBeManual(after, t)
  <2>1. (~after.autocommit) <=> Turned(~ss.autocommit, h, TurnsOff, TurnsOn)
    BY DEF Turns
  <2>2. (~after.autocommit) \in BOOLEAN /\ (~ss.autocommit) \in BOOLEAN
    OBVIOUS
  <2> HIDE DEF h, t
  <2> QED
    BY <1>2, <2>1, <2>2 DEF WillBeManual
<1>5. WillBeInTx(ss, a) <=> Latched(after.inTx, t, S, C)
  <2>1. after.inTx <=> Turned(ss.inTx, h, S, C)
    BY DEF Turns
  <2> HIDE DEF h, t, S, C
  <2>2. Latched(ss.inTx, a, S, C) <=> Latched(after.inTx, t, S, C)
    BY <1>2, <2>1
  <2> QED
    BY <2>2 DEF WillBeInTx, S, C
<1>6. Latched(after.inTx, t, S, C) <=> WillBeInTx(after, t)
  <2>1. CASE after.inFlight = ss.inFlight
    BY <2>1 DEF WillBeInTx, ChangeIn
  <2>2. CASE \A i \in DOMAIN t : t[i].type # "QueryDone"
    <3> DEFINE S2 == BeginsTx(ChangeIn(after))
               C2 == EndsTx(ChangeIn(after))
    <3>1. \A i \in DOMAIN t : (t[i] \in S <=> t[i] \in S2) /\ (t[i] \in C <=> t[i] \in C2)
      BY <2>2 DEF BeginsTx, EndsTx
    <3> HIDE DEF S, C, S2, C2, t
    <3>2. Latched(after.inTx, t, S, C) <=> Latched(after.inTx, t, S2, C2)
      BY <3>1 DEF Latched, NoneIn
    <3> QED
      BY <3>2 DEF WillBeInTx, S2, C2
  <2> QED
    BY <2>1, <2>2 DEF t
<1> HIDE DEF h, t, S, C, b
<1>7. ShownAs(after, t, c)
  BY <1>3, <1>4, <1>5, <1>6 DEF ShownAs
<1> QED
  BY <1>7 DEF t

\* Hearing an answer shows what it was to show.
LEMMA HearShown ==
  ASSUME Typed, Agreed, Answering, TxInv, NEW s \in Sessions, Hear(s), Typed'
  PROVE  TxInv'
<1> DEFINE ss == session[s]
           a == answers[s]
           q == cmds[s]
           b == session'[s]
<1>0. /\ ss \in SessionState /\ session \in [Sessions -> SessionState] /\ a \in Seq(AnswerSet) /\ a # <<>>
      /\ q \in Seq(CommandSet) /\ answers' = [answers EXCEPT ![s] = Tail(a)]
      /\ answers \in [Sessions -> Seq(AnswerSet)] /\ UNCHANGED <<current, early, conn, alive>>
      /\ b \in SessionState /\ cmds \in [Sessions -> Seq(CommandSet)]
  BY DEF Hear, Typed, TypeOK, ChannelsOK
<1>1. \A t \in Sessions : TxShown(t)
  BY DEF TxInv
<1>2. ASSUME NEW t \in Sessions \ {s}, session'[t] = session[t], cmds'[t] = cmds[t]
      PROVE  TxShown(t)'
  <2>1. t \in Live' <=> t \in Live
    BY <1>2 DEF Live
  <2>2. answers'[t] = answers[t]
    BY <1>0
  <2> QED
    BY <1>0, <1>1, <1>2, <2>1, <2>2 DEF TxShown
<1>3. CASE s \notin Live
  <2>1. UNCHANGED <<session, cmds>>
    BY <1>0, <1>3 DEF Hear, Only
  <2>2. s \notin Live'
    BY <1>3, <2>1 DEF Live
  <2>3. TxShown(s)'
    BY <1>0, <1>1, <2>2 DEF TxShown
  <2> QED
    BY <1>0, <1>2, <2>1, <2>3 DEF TxInv
<1>4. CASE s \in Live
  <2>1. /\ ItemsSound(ss)
        /\ alive[s] => Lined(ss, q, current[s], a)
        /\ alive[s] /\ NoConnect(q) /\ current[s].type # "Connect" => ShownAs(ss, a, conn[s])
    BY <1>1, <1>4 DEF TxShown, Answering
  <2>2. HeardAs(ss, Head(a), b)
    BY <1>4, HearTx
  <2>3. alive[s] => Turns(ss, Head(a), b)
    <3> HIDE DEF b, ss, a
    <3> QED
      BY <1>0, <2>1, <2>2, HearTurns DEF ItemsSound
  <2>4. ASSUME NEW out \in Seq(CommandSet), session' = [session EXCEPT ![s] = b], ItemsSound(b),
               \A t \in Sessions : cmds'[t] = IF alive[t] /\ t = s THEN q \o out ELSE cmds[t],
               alive[s] => b.inFlight = ss.inFlight \/ \A i \in DOMAIN Tail(a) : Tail(a)[i].type # "QueryDone"
        PROVE  TxInv'
    <3>1. ASSUME alive[s], NoConnect(cmds'[s]), current[s].type # "Connect"
          PROVE  ShownAs(b, Tail(a), conn[s])
      <4>1. NoConnect(q)
        <5>1. cmds'[s] = q \o out
          BY <2>4, <3>1
        <5> QED
          BY <1>0, <2>4, <3>1, <5>1, ConnectsStay
      <4>2. ShownAs(ss, a, conn[s]) /\ Turns(ss, Head(a), b)
        BY <2>1, <2>3, <3>1, <4>1
      <4>3. ss.inTx \in BOOLEAN /\ b.inTx \in BOOLEAN
        BY <1>0 DEF SessionState
      <4> HIDE DEF b, ss, a
      <4> QED
        BY <1>0, <2>4, <3>1, <4>2, <4>3, TurnedShown
    <3>2. answers'[s] = Tail(a)
      BY <1>0
    <3>3. TxShown(s)'
      BY <1>0, <1>1, <2>4, <3>1, <3>2 DEF TxShown
    <3>4. ASSUME NEW t \in Sessions \ {s} PROVE TxShown(t)'
      <4>1. session'[t] = session[t] /\ cmds'[t] = cmds[t]
        BY <1>0, <2>4
      <4> QED
        BY <1>2, <4>1
    <3> QED
      BY <1>0, <3>3, <3>4 DEF TxInv
  <2>5. CASE EndsIt(ss, Head(a))
    <3>1. PICK after, js : EndsAs(ss, after) /\ Pump(s, after, js)
      BY <1>4, <2>5, HearShape
    <3>2. after \in SessionState /\ after.queue \in {ss.queue, <<>>} /\ after.inFlight = NoItem /\ after.held = ss.held
      BY <3>1 DEF EndsAs
    <3>3. ItemsSound(after)
      BY <2>1, <3>2 DEF ItemsSound, AllSound, Sound, NoItem
    <3>4. ItemsSound(Pumped(after)) /\ Sent(after) \in Seq(CommandSet)
      BY <3>2, <3>3, PumpedSound, PumpedTyped
    <3>5. session' = [session EXCEPT ![s] = Pumped(after)] /\ b = Pumped(after)
      BY <1>0, <3>1 DEF Pump
    <3>6. \A t \in Sessions : cmds'[t] = IF alive[t] /\ t = s THEN q \o Sent(after) ELSE cmds[t]
      <4>1. cmds' = [t \in Sessions |-> IF alive[t] THEN cmds[t] \o To(s, Sent(after))[t] ELSE cmds[t]]
        BY <3>1 DEF Pump, Deliver
      <4>2. \A t \in Sessions : To(s, Sent(after))[t] = IF t = s THEN Sent(after) ELSE <<>>
        BY DEF To
      <4>3. \A t \in Sessions : cmds[t] \o <<>> = cmds[t]
        BY <1>0
      <4> QED
        BY <4>1, <4>2, <4>3
    <3>7. alive[s] => \A i \in DOMAIN Tail(a) : Tail(a)[i].type # "QueryDone"
      <4> HIDE DEF ss, a, q
      <4> QED
        BY <1>0, <2>1, <2>5, HeardIsOfIt
    <3> QED
      BY <2>4, <3>4, <3>5, <3>6, <3>7
  <2>6. CASE ~EndsIt(ss, Head(a))
    <3>1. PICK after : StaysAs(ss, after) /\ Only(s, after)
      BY <1>4, <2>6, HearShape
    <3>2. after.queue = ss.queue /\ after.inFlight = ss.inFlight /\ after.held = ss.held
      BY <3>1 DEF StaysAs
    <3>3. session' = [session EXCEPT ![s] = after] /\ b = after /\ cmds' = cmds
      BY <1>0, <3>1 DEF Only
    <3>4. ItemsSound(b) /\ b.inFlight = ss.inFlight
      BY <2>1, <3>2, <3>3 DEF ItemsSound
    <3>5. <<>> \in Seq(CommandSet) /\ q \o <<>> = q
      BY <1>0
    <3>6. \A t \in Sessions : cmds'[t] = IF alive[t] /\ t = s THEN q \o <<>> ELSE cmds[t]
      BY <3>3, <3>5
    <3> QED
      BY <2>4, <3>3, <3>4, <3>5, <3>6
  <2> QED
    BY <2>5, <2>6
<1> QED
  BY <1>3, <1>4

\* What the end of a command leaves of the transaction on its connection, and
\* the answer that tells of it.
Settles(c, command, h, after) ==
  \/ /\ command.type = "Connect"
     /\ h.type = "ConnectFailed" \/ (h.type = "Connected" /\ ~after.tx /\ ~after.manual)
  \/ /\ command.type = "SetAutocommit" /\ h.type = "Autocommit" /\ h.ok
     /\ h.more => ~after.tx /\ ~after.manual
  \/ /\ command.type \in {"Query", "QueryAll"} /\ h.type = "QueryDone"
     /\ after.manual = c.manual /\ after.tx \in TxAfter(c, command.sql)
  \/ /\ command.type # "Connect"
     /\ \/ h.type \in {"QueryStopped", "QueryFailed", "MoreRows", "Exported", "ExportFailed", "Schema"}
        \/ h.type = "Autocommit" /\ ~h.ok
     /\ after.manual = c.manual /\ (after.tx => c.tx)

\* The last answer of a command settles what it did to the connection.
LEMMA EndSettles ==
  ASSUME Typed, conn \in [Sessions -> Connection], NEW s \in Sessions, EndCommand(s)
  PROVE  \E type, x, last, after :
           /\ Ends(s, type, last) /\ (last = <<x>> \/ last = <<Answer("CursorKept"), x>>)
           /\ after \in Connection /\ conn' = [conn EXCEPT ![s] = after]
           /\ Settles(conn[s], current[s], x, after)
<1> DEFINE c == conn[s]
           command == current[s]
           Goal == \E type, x, last, after :
                     /\ Ends(s, type, last) /\ (last = <<x>> \/ last = <<Answer("CursorKept"), x>>)
                     /\ after \in Connection /\ conn' = [conn EXCEPT ![s] = after]
                     /\ Settles(c, command, x, after)
<1>0. c \in Connection /\ command.on \in BOOLEAN
  BY DEF Typed, ChannelsOK, CommandSet
<1> SUFFICES Goal
  OBVIOUS
<1>1. ASSUME NEW type, NEW x, Ends(s, type, <<x>>), NEW after \in Connection, conn' = [conn EXCEPT ![s] = after],
             Settles(c, command, x, after)
      PROVE  Goal
  BY <1>1
<1>2. UNCHANGED conn => conn' = [conn EXCEPT ![s] = c]
  OBVIOUS
<1>3. ASSUME NEW tx \in BOOLEAN
      PROVE  /\ [c EXCEPT !.tx = tx] \in Connection
             /\ [c EXCEPT !.tx = tx].tx = tx /\ [c EXCEPT !.tx = tx].manual = c.manual
             /\ [conn EXCEPT ![s].tx = tx] = [conn EXCEPT ![s] = [c EXCEPT !.tx = tx]]
  BY <1>0 DEF Connection
<1> HIDE DEF Goal
<1>4. ASSUME NEW type \in {"Query", "QueryAll"}, QueryFails(s, type) PROVE Goal
  <2> DEFINE x == RowsAnswer("QueryFailed", command.job, <<>>, FALSE, FALSE)
  <2>1. PICK tx \in TxAfterFailure(c, command.sql) : conn' = [conn EXCEPT ![s].tx = tx]
    BY <1>4 DEF QueryFails
  <2>2. tx \in BOOLEAN /\ (tx => c.tx)
    BY <1>0, <2>1 DEF TxAfterFailure, Connection
  <2>3. x.type = "QueryFailed" /\ Ends(s, type, <<x>>) /\ command.type = type
    BY <1>4 DEF QueryFails, RowsAnswer, Ends
  <2> DEFINE after == [c EXCEPT !.tx = tx]
  <2>4. after \in Connection /\ after.tx = tx /\ after.manual = c.manual /\ conn' = [conn EXCEPT ![s] = after]
    BY <1>3, <2>1, <2>2
  <2> HIDE DEF x, after
  <2>5. Settles(c, command, x, after)
    BY <2>2, <2>3, <2>4 DEF Settles
  <2> QED
    BY <1>1, <2>3, <2>4, <2>5
<1>5. CASE QueryExecutes(s, "Query")
  <2> DEFINE x == RowsAnswer("QueryDone", command.job, <<>>, FALSE, TRUE)
  <2>1. PICK tx \in TxAfter(c, command.sql) : conn' = [conn EXCEPT ![s].tx = tx]
    BY <1>5 DEF QueryExecutes
  <2>2. tx \in BOOLEAN
    BY <1>0, <2>1 DEF TxAfter, Connection
  <2>3. x.type = "QueryDone" /\ Ends(s, "Query", <<x>>) /\ command.type = "Query"
    BY <1>5 DEF QueryExecutes, RowsAnswer, Ends
  <2> DEFINE after == [c EXCEPT !.tx = tx]
  <2>4. after \in Connection /\ after.tx = tx /\ after.manual = c.manual /\ conn' = [conn EXCEPT ![s] = after]
    BY <1>3, <2>1, <2>2
  <2> HIDE DEF x, after
  <2>5. Settles(c, command, x, after)
    BY <2>1, <2>3, <2>4 DEF Settles
  <2> QED
    BY <1>1, <2>3, <2>4, <2>5
<1>6. ASSUME command.type \in {"Query", "QueryAll"}, Streams(command.sql), UNCHANGED conn, NEW x, x.type = "QueryDone"
      PROVE  Settles(c, command, x, c)
  <2>1. TxAfter(c, command.sql) = {c.tx}
    BY <1>6 DEF TxAfter, TxChange, Streams
  <2> QED
    BY <1>6, <2>1 DEF Settles
<1>7. ASSUME NEW type \in {"Query", "QueryAll"}, NEW limit, ReadEnds(s, type, limit) PROVE Goal
  <2>1. PICK n \in 0..limit :
          Ends(s, type, <<RowsAnswer("QueryDone", command.job, RowsOf(command.job, 0, n), FALSE, TRUE)>>)
    BY <1>7 DEF ReadEnds
  <2> DEFINE x == RowsAnswer("QueryDone", command.job, RowsOf(command.job, 0, n), FALSE, TRUE)
  <2>2. x.type = "QueryDone" /\ command.type = type /\ Streams(command.sql) /\ UNCHANGED conn
    BY <1>7, <2>1 DEF ReadEnds, RowsAnswer, Ends
  <2> HIDE DEF x
  <2>3. Settles(c, command, x, c)
    BY <1>6, <2>2
  <2> QED
    BY <1>0, <1>1, <1>2, <2>1, <2>2, <2>3 DEF x
<1>8. CASE ReadKept(s)
  <2> DEFINE x == RowsAnswer("QueryDone", command.job, RowsOf(command.job, 0, MaxRows), TRUE, TRUE)
  <2>1. /\ Ends(s, "Query", <<Answer("CursorKept"), x>>) /\ x.type = "QueryDone" /\ command.type = "Query"
        /\ Streams(command.sql) /\ UNCHANGED conn
    BY <1>8 DEF ReadKept, RowsAnswer, Ends
  <2> HIDE DEF x
  <2>2. Settles(c, command, x, c)
    BY <1>6, <2>1
  <2> QED
    BY <1>0, <1>2, <2>1, <2>2 DEF Goal
<1>9. ASSUME UNCHANGED conn, NEW type, type # "Connect", NEW x, Ends(s, type, <<x>>),
             x.type \in {"QueryStopped", "QueryFailed", "MoreRows", "Exported", "ExportFailed", "Schema"}
      PROVE  Goal
  <2>1. Settles(c, command, x, c)
    BY <1>9 DEF Settles, Ends
  <2> QED
    BY <1>0, <1>1, <1>2, <1>9, <2>1
<1>10. ASSUME NEW type \in {"Query", "QueryAll"}, NEW limit, ReadStops(s, type, limit) PROVE Goal
  <2>1. PICK n \in 1..limit :
          Ends(s, type, <<RowsAnswer("QueryStopped", command.job, RowsOf(command.job, 0, n), FALSE, FALSE)>>)
    BY <1>10 DEF ReadStops
  <2> DEFINE x == RowsAnswer("QueryStopped", command.job, RowsOf(command.job, 0, n), FALSE, FALSE)
  <2>2. x.type = "QueryStopped" /\ UNCHANGED conn
    BY <1>10 DEF ReadStops, RowsAnswer
  <2> HIDE DEF x
  <2> QED
    BY <1>9, <2>1, <2>2 DEF x
<1>11. CASE ReadOn(s)
  <2>1. PICK rows, more, ok : Ends(s, "FetchMore", <<RowsAnswer("MoreRows", command.job, rows, more, ok)>>)
    BY <1>11 DEF ReadOn
  <2> DEFINE x == RowsAnswer("MoreRows", command.job, rows, more, ok)
  <2>2. x.type = "MoreRows" /\ UNCHANGED conn
    BY <1>11 DEF ReadOn, RowsAnswer
  <2> HIDE DEF x
  <2> QED
    BY <1>9, <2>1, <2>2 DEF x
<1>12. CASE ExportEnds(s)
  <2>1. PICK ok \in BOOLEAN :
          Ends(s, "Export", <<RowsAnswer(IF ok THEN "Exported" ELSE "ExportFailed", command.job, <<>>, FALSE, ok)>>)
    BY <1>12 DEF ExportEnds
  <2> DEFINE x == RowsAnswer(IF ok THEN "Exported" ELSE "ExportFailed", command.job, <<>>, FALSE, ok)
  <2>2. x.type \in {"Exported", "ExportFailed"} /\ UNCHANGED conn
    BY <1>12 DEF ExportEnds, RowsAnswer
  <2> HIDE DEF x
  <2> QED
    BY <1>9, <2>1, <2>2 DEF x
<1>13. CASE ExportFetchedEnds(s) \/ SchemaEnds(s)
  <2>1. PICK type \in {"ExportFetched", "LoadSchema"}, end \in {"Exported", "Schema"} :
          Ends(s, type, <<Answer(end)>>) /\ UNCHANGED conn
    BY <1>13 DEF ExportFetchedEnds, SchemaEnds
  <2>2. Answer(end).type = end
    BY DEF Answer
  <2> QED
    BY <1>9, <2>1, <2>2
<1>14. CASE AutocommitEnds(s)
  <2> DEFINE on == command.on
             x(ok) == RowsAnswer("Autocommit", NoJob, <<>>, on, ok)
  <2>1. \A ok : x(ok).type = "Autocommit" /\ x(ok).ok = ok /\ x(ok).more = on
    BY DEF RowsAnswer
  <2>2. CASE Ends(s, "SetAutocommit", <<x(TRUE)>>) /\ conn' = [conn EXCEPT ![s].manual = ~on, ![s].tx = ~on]
    <3> DEFINE after == [c EXCEPT !.manual = ~on, !.tx = ~on]
    <3>1. after \in Connection /\ after.tx = ~on /\ after.manual = ~on
      BY <1>0 DEF Connection
    <3>2. conn' = [conn EXCEPT ![s] = after]
      BY <1>0, <2>2 DEF Connection
    <3>3. command.type = "SetAutocommit"
      BY <2>2 DEF Ends
    <3> HIDE DEF after, x
    <3>4. Settles(c, command, x(TRUE), after)
      BY <2>1, <3>1, <3>3 DEF Settles
    <3> QED
      BY <1>1, <2>2, <3>1, <3>2, <3>4
  <2>3. ASSUME Ends(s, "SetAutocommit", <<x(FALSE)>>), NEW tx \in {c.tx, c.tx /\ ~on}, conn' = [conn EXCEPT ![s].tx = tx]
        PROVE  Goal
    <3>1. tx \in BOOLEAN /\ (tx => c.tx)
      BY <1>0, <2>3 DEF Connection
    <3> DEFINE after == [c EXCEPT !.tx = tx]
    <3>2. after \in Connection /\ after.tx = tx /\ after.manual = c.manual /\ conn' = [conn EXCEPT ![s] = after]
      BY <1>3, <2>3, <3>1
    <3>3. command.type = "SetAutocommit"
      BY <2>3 DEF Ends
    <3> HIDE DEF after, x
    <3>4. Settles(c, command, x(FALSE), after)
      BY <2>1, <3>1, <3>2, <3>3 DEF Settles
    <3> QED
      BY <1>1, <2>3, <3>2, <3>4
  <2> QED
    BY <1>14, <2>2, <2>3 DEF AutocommitEnds
<1>15. CASE ConnectEnds(s)
  <2> DEFINE x(end) == Answer(end)
             new == [open |-> TRUE, prod |-> command.on, tx |-> FALSE, manual |-> FALSE]
  <2>1. \A end : x(end).type = end
    BY DEF Answer
  <2>2. new \in Connection /\ ~new.tx /\ ~new.manual
    BY <1>0 DEF Connection
  <2>3. \/ Ends(s, "Connect", <<x("Connected")>>) /\ conn' = [conn EXCEPT ![s] = new]
        \/ Ends(s, "Connect", <<x("ConnectFailed")>>) /\ UNCHANGED conn
    BY <1>15 DEF ConnectEnds
  <2>4. command.type = "Connect"
    BY <2>3 DEF Ends
  <2> HIDE DEF x, new
  <2>5. Settles(c, command, x("Connected"), new) /\ Settles(c, command, x("ConnectFailed"), c)
    BY <2>1, <2>2, <2>4 DEF Settles
  <2> QED
    BY <1>0, <1>1, <1>2, <2>2, <2>3, <2>5
<1> QED
  BY <1>4, <1>5, <1>7, <1>8, <1>10, <1>11, <1>12, <1>13, <1>14, <1>15 DEF EndCommand

\* A command answers last what it tells.
LEMMA LatchedEnd ==
  ASSUME NEW S, NEW C, NEW v, NEW a \in Seq(AnswerSet), NEW e \in Seq(AnswerSet), NoneIn(e, S \cup C),
         NEW x \in AnswerSet, NEW y \in AnswerSet, y \notin S \cup C,
         NEW last, last = <<x>> \/ last = <<y, x>>
  PROVE  Latched(v, (a \o e) \o last, S, C) <=> Turned(Latched(v, a, S, C), x, S, C)
<1> DEFINE p == a \o e
           T == AnswerSet
<1>1. p \in Seq(T)
  OBVIOUS
<1>2. Latched(v, p, S, C) <=> Latched(v, a, S, C)
  BY LatchedBehind
<1> HIDE DEF p, T
<1>3. x \in T /\ y \in T
  BY DEF T
<1>4. p \o <<x>> = Append(p, x) /\ p \o <<y, x>> = Append(p \o <<y>>, x) /\ <<y>> \in Seq(T) /\ p \o <<y>> \in Seq(T)
  BY <1>1, <1>3
<1>5. NoneIn(<<y>>, S \cup C)
  BY DEF NoneIn
<1>6. Latched(v, p \o <<y>>, S, C) <=> Latched(v, p, S, C)
  BY <1>1, <1>4, <1>5, LatchedBehind
<1>7. /\ Latched(v, Append(p, x), S, C) <=> Turned(Latched(v, p, S, C), x, S, C)
      /\ Latched(v, Append(p \o <<y>>, x), S, C) <=> Turned(Latched(v, p \o <<y>>, S, C), x, S, C)
  BY <1>1, <1>3, <1>4, LatchedLast
<1>8. Latched(v, p \o last, S, C) <=> Turned(Latched(v, a, S, C), x, S, C)
  BY <1>2, <1>4, <1>6, <1>7 DEF Turned
<1> QED
  BY <1>8 DEF p

\* What stands last among the answers is an answer.
LEMMA LastTyped ==
  ASSUME NEW T, NEW p \in Seq(T), NEW x, NEW y \in T, NEW last, last = <<x>> \/ last = <<y, x>>,
         p \o last \in Seq(T)
  PROVE  x \in T
<1> DEFINE r == p \o last
<1>1. r \in Seq(T) /\ Len(p) \in Nat
  OBVIOUS
<1>2. CASE last = <<x>>
  <2>1. Len(r) = Len(p) + 1 /\ r[Len(p) + 1] = x
    BY <1>2
  <2>2. Len(p) + 1 \in 1..Len(r)
    BY <1>1, <2>1
  <2> HIDE DEF r
  <2> QED
    BY <1>1, <2>1, <2>2
<1>3. CASE last = <<y, x>>
  <2>1. Len(r) = Len(p) + 2 /\ r[Len(p) + 2] = x
    BY <1>3
  <2>2. Len(p) + 2 \in 1..Len(r)
    BY <1>1, <2>1
  <2> HIDE DEF r
  <2> QED
    BY <1>1, <2>1, <2>2
<1> QED
  BY <1>2, <1>3

\* What a command leaves of the transaction is what its answer will show.
LEMMA SettledShown ==
  ASSUME NEW ss, NEW a, NEW b, NEW c, NEW after, NEW command, NEW x \in AnswerSet,
         WillBeOpen(ss, b) <=> Turned(WillBeOpen(ss, a), x, Opens, Shuts),
         WillBeManual(ss, b) <=> Turned(WillBeManual(ss, a), x, TurnsOff, TurnsOn),
         WillBeInTx(ss, b) <=> Turned(WillBeInTx(ss, a), x, BeginsTx(ChangeIn(ss)), EndsTx(ChangeIn(ss))),
         Settles(c, command, x, after), c.tx \in BOOLEAN, c.manual \in BOOLEAN, after.tx \in BOOLEAN,
         after.manual \in BOOLEAN,
         command.type \in {"Query", "QueryAll"} => ChangeIn(ss) = TxChange(command.sql),
         command.type # "Connect" => ShownAs(ss, a, c)
  PROVE  ShownAs(ss, b, after)
<1>1. /\ x \in Opens <=> x.type = "Connected"
      /\ x \in Shuts <=> x.type = "ConnectFailed"
      /\ x \in TurnsOff <=> x.type = "Autocommit" /\ x.ok /\ ~x.more
      /\ x \in TurnsOn <=> x.type = "Connected" \/ (x.type = "Autocommit" /\ x.ok /\ x.more)
  BY DEF Opens, Shuts, TurnsOff, TurnsOn
<1>2. /\ x \in BeginsTx(ChangeIn(ss)) <=> x.type = "QueryDone" /\ ChangeIn(ss) = "begins"
      /\ x \in EndsTx(ChangeIn(ss)) <=> \/ x.type = "Connected"
                                        \/ x.type = "Autocommit" /\ x.ok
                                        \/ x.type = "QueryDone" /\ ChangeIn(ss) = "ends"
  BY DEF BeginsTx, EndsTx
<1>3. CASE command.type = "Connect"
  <2>1. x.type = "ConnectFailed" \/ (x.type = "Connected" /\ ~after.tx /\ ~after.manual)
    BY <1>3 DEF Settles
  <2> QED
    BY <1>1, <2>1 DEF ShownAs, Turned
<1>4. CASE command.type # "Connect" /\ x.type = "Autocommit" /\ x.ok
  <2>1. x.more => ~after.tx /\ ~after.manual
    BY <1>4 DEF Settles
  <2> QED
    BY <1>1, <1>4, <2>1 DEF ShownAs, Turned
<1>5. CASE command.type \in {"Query", "QueryAll"} /\ x.type = "QueryDone"
  <2>1. after.manual = c.manual /\ after.tx \in TxAfter(c, command.sql)
    BY <1>5 DEF Settles
  <2>2. ShownAs(ss, a, c) /\ ChangeIn(ss) = TxChange(command.sql)
    BY <1>5
  <2>3. /\ WillBeOpen(ss, b) <=> WillBeOpen(ss, a)
        /\ WillBeManual(ss, b) <=> WillBeManual(ss, a)
        /\ WillBeInTx(ss, b) <=> \/ WillBeInTx(ss, a) /\ ChangeIn(ss) # "ends"
                                 \/ ChangeIn(ss) = "begins"
    BY <1>1, <1>2, <1>5 DEF Turned
  <2>4. /\ TxChange(command.sql) = "begins" => after.tx = TRUE
        /\ TxChange(command.sql) = "ends" => (after.tx => c.manual)
        /\ TxChange(command.sql) \notin {"begins", "ends"} => after.tx = c.tx
    BY <2>1 DEF TxAfter
  <2>5. CASE ChangeIn(ss) = "begins"
    BY <2>1, <2>2, <2>3, <2>5 DEF ShownAs
  <2>6. CASE ChangeIn(ss) = "ends"
    BY <2>1, <2>2, <2>3, <2>4, <2>6 DEF ShownAs
  <2>7. CASE ChangeIn(ss) \notin {"begins", "ends"}
    BY <2>1, <2>2, <2>3, <2>4, <2>7 DEF ShownAs
  <2> QED
    BY <2>5, <2>6, <2>7
<1>6. CASE /\ command.type # "Connect"
           /\ \/ x.type \in {"QueryStopped", "QueryFailed", "MoreRows", "Exported", "ExportFailed", "Schema"}
              \/ x.type = "Autocommit" /\ ~x.ok
           /\ after.manual = c.manual /\ (after.tx => c.tx)
  <2>1. /\ WillBeOpen(ss, b) <=> WillBeOpen(ss, a)
        /\ WillBeManual(ss, b) <=> WillBeManual(ss, a)
        /\ WillBeInTx(ss, b) <=> WillBeInTx(ss, a)
    BY <1>1, <1>2, <1>6 DEF Turned
  <2> QED
    BY <1>6, <2>1 DEF ShownAs
<1> QED
  BY <1>3, <1>4, <1>5, <1>6 DEF Settles

\* What a worker runs for a statement is the one in flight.
LEMMA RunsInFlight ==
  ASSUME NEW ss \in SessionState, NEW q, NEW c \in CommandSet, NEW a, Lined(ss, q, c, a),
         c.type \in {"Query", "QueryAll"}
  PROVE  ChangeIn(ss) = TxChange(c.sql)
<1> DEFINE item == ss.inFlight
<1>1. c \in Asking
  BY DEF Asking, StatementTypes
<1>2. item # NoItem /\ item \in Item
  BY <1>1 DEF Lined, SessionState
<1>3. c = CommandOf(item)
  BY <1>1, <1>2 DEF Lined, OutAt
<1>4. c.sql = item.sql /\ item.how # "more"
  BY <1>2, <1>3 DEF CommandOf, Statement, Item, Hows
<1> QED
  BY <1>2, <1>4 DEF ChangeIn, ChangeOf

\* Only session s, its channels and its connection change.
LEMMA OwnTx ==
  ASSUME TxInv, NEW s \in Sessions, conn' \in [Sessions -> Connection],
         \A t \in Sessions \ {s} :
           /\ session'[t] = session[t] /\ cmds'[t] = cmds[t] /\ current'[t] = current[t]
           /\ early'[t] = early[t] /\ answers'[t] = answers[t] /\ alive'[t] = alive[t] /\ conn'[t] = conn[t],
         TxShown(s)'
  PROVE  TxInv'
<1>1. ASSUME NEW t \in Sessions \ {s} PROVE TxShown(t)'
  <2>1. TxShown(t) /\ (t \in Live' <=> t \in Live)
    BY <1>1 DEF TxInv, Live
  <2> QED
    BY <1>1, <2>1 DEF TxShown
<1> QED
  BY <1>1 DEF TxInv

\* A worker takes, ends or dies, and what its answers will show is what its
\* connection has.
LEMMA WorkShown ==
  ASSUME Typed, Answering, TxInv, NEW s \in Sessions, Work(s), Typed'
  PROVE  TxInv'
<1> DEFINE ss == session[s]
           a == answers[s]
           q == cmds[s]
           c == current[s]
<1>0. /\ UNCHANGED session /\ ss \in SessionState /\ a \in Seq(AnswerSet) /\ early[s] \in Seq(AnswerSet)
      /\ cmds \in [Sessions -> Seq(CommandSet)] /\ current \in [Sessions -> CommandSet]
      /\ early \in [Sessions -> Seq(AnswerSet)] /\ answers \in [Sessions -> Seq(AnswerSet)]
      /\ alive \in [Sessions -> BOOLEAN] /\ conn \in [Sessions -> Connection]
      /\ q \in Seq(CommandSet) /\ c \in CommandSet /\ answers'[s] \in Seq(AnswerSet)
  BY DEF Work, appVars, Typed, TypeOK, ChannelsOK, TxInv
<1>1. TxShown(s) /\ (s \in Live /\ alive[s] => Lined(ss, q, c, a)) /\ (s \in Live' <=> s \in Live)
  BY <1>0 DEF TxInv, Answering, Live
<1>2. CASE Take(s)
  <2>1. /\ alive[s] /\ c = NoCommand /\ q # <<>> /\ cmds' = [cmds EXCEPT ![s] = Tail(q)]
        /\ current' = [current EXCEPT ![s] = Head(q)] /\ UNCHANGED <<conn, alive, answers>>
    BY <1>2 DEF Take
  <2>2. \E first \in {<<Answer("CursorClosed")>>, <<>>} : early' = [early EXCEPT ![s] = first]
    BY <1>2 DEF Take
  <2>3. \A i \in DOMAIN early'[s] : early'[s][i].type = "CursorClosed"
    <3>1. Answer("CursorClosed").type = "CursorClosed"
      BY DEF Answer
    <3>2. early'[s] \in {<<Answer("CursorClosed")>>, <<>>}
      BY <1>0, <2>2
    <3> QED
      BY <3>1, <3>2
  <2>4. NoConnect(Tail(q)) /\ Head(q).type # "Connect" => NoConnect(q) /\ c.type # "Connect"
    <3>1. /\ DOMAIN q = 1..Len(q) /\ Head(q) = q[1] /\ DOMAIN Tail(q) = 1..(Len(q) - 1)
          /\ \A i \in DOMAIN Tail(q) : Tail(q)[i] = q[i + 1]
      BY <1>0, <2>1, HeadAndTail
    <3> DEFINE t == Tail(q)
               n == Len(q)
    <3>2. n \in Nat
      BY <1>0
    <3> HIDE DEF t, n, q
    <3>3. ASSUME NEW i \in 1..n, i # 1 PROVE i - 1 \in 1..(n - 1) /\ (i - 1) + 1 = i
      BY <3>2, <3>3
    <3>4. ASSUME NoConnect(t), q[1].type # "Connect", NEW i \in 1..n PROVE q[i].type # "Connect"
      <4>1. CASE i = 1
        BY <3>4, <4>1
      <4>2. CASE i # 1
        <5>1. i - 1 \in DOMAIN t /\ t[i - 1] = q[i]
          BY <3>1, <3>3, <4>2 DEF t, n
        <5> QED
          BY <3>4, <5>1 DEF NoConnect
      <4> QED
        BY <4>1, <4>2
    <3>5. NoConnect(t) /\ q[1].type # "Connect" => NoConnect(q)
      BY <3>1, <3>4 DEF NoConnect, n
    <3>6. NoCommand.type # "Connect"
      BY DEF NoCommand, Direct
    <3> QED
      BY <2>1, <3>1, <3>5, <3>6 DEF t
  <2>5. /\ cmds'[s] = Tail(q) /\ current'[s] = Head(q) /\ answers'[s] = a /\ session'[s] = ss
        /\ alive'[s] /\ conn'[s] = conn[s]
    BY <1>0, <2>1
  <2>6. TxShown(s)'
    BY <1>1, <2>1, <2>3, <2>4, <2>5 DEF TxShown
  <2>7. \A t \in Sessions \ {s} :
          /\ session'[t] = session[t] /\ cmds'[t] = cmds[t] /\ current'[t] = current[t]
          /\ early'[t] = early[t] /\ answers'[t] = answers[t] /\ alive'[t] = alive[t] /\ conn'[t] = conn[t]
    BY <1>0, <2>1, <2>2
  <2> QED
    BY <1>0, <2>1, <2>6, <2>7, OwnTx
<1>3. CASE EndCommand(s)
  <2>1. PICK type, x, last, after :
           /\ Ends(s, type, last) /\ (last = <<x>> \/ last = <<Answer("CursorKept"), x>>)
           /\ after \in Connection /\ conn' = [conn EXCEPT ![s] = after]
           /\ Settles(conn[s], c, x, after)
    BY <1>0, <1>3, EndSettles
  <2> DEFINE y == Answer("CursorKept")
             e == early[s]
  <2>2. /\ answers' = [answers EXCEPT ![s] = (a \o e) \o last] /\ current' = [current EXCEPT ![s] = NoCommand]
        /\ early' = [early EXCEPT ![s] = <<>>] /\ UNCHANGED <<cmds, alive>>
    BY <2>1 DEF Ends
  <2>3. y \in AnswerSet /\ y.type = "CursorKept"
    <3>1. "CursorKept" \in AnswerTypes /\ <<>> \in Rows /\ NoJob \in Nat
      BY DEF AnswerTypes, Rows, NoJob
    <3> QED
      BY <3>1, AnswerTyped DEF Answer
  <2>4. a \o e \in Seq(AnswerSet) /\ (a \o e) \o last \in Seq(AnswerSet)
    BY <1>0, <2>2
  <2> HIDE DEF y
  <2>5. last = <<x>> \/ last = <<y, x>>
    BY <2>1 DEF y
  <2>6. x \in AnswerSet
    BY <2>3, <2>4, <2>5, LastTyped
  <2> DEFINE b == (a \o e) \o last
  <2>7. ASSUME NEW S, NEW C, NEW v, \A z : z \in S \cup C => z.type \notin {"CursorClosed", "CursorKept"}
        PROVE  Latched(v, b, S, C) <=> Turned(Latched(v, a, S, C), x, S, C)
    <3>1. NoneIn(e, S \cup C) /\ y \notin S \cup C
      BY <1>1, <2>3, <2>7 DEF NoneIn, TxShown
    <3> QED
      BY <1>0, <2>3, <2>5, <2>6, <3>1, LatchedEnd
  <2>8. /\ WillBeOpen(ss, b) <=> Turned(WillBeOpen(ss, a), x, Opens, Shuts)
        /\ WillBeManual(ss, b) <=> Turned(WillBeManual(ss, a), x, TurnsOff, TurnsOn)
        /\ WillBeInTx(ss, b) <=> Turned(WillBeInTx(ss, a), x, BeginsTx(ChangeIn(ss)), EndsTx(ChangeIn(ss)))
    <3>1. /\ \A z : z \in Opens \cup Shuts => z.type \notin {"CursorClosed", "CursorKept"}
          /\ \A z : z \in TurnsOff \cup TurnsOn => z.type \notin {"CursorClosed", "CursorKept"}
      BY DEF Opens, Shuts, TurnsOff, TurnsOn
    <3>2. \A z : z \in BeginsTx(ChangeIn(ss)) \cup EndsTx(ChangeIn(ss)) => z.type \notin {"CursorClosed", "CursorKept"}
      BY DEF BeginsTx, EndsTx
    <3> HIDE DEF b, a, ss
    <3> QED
      BY <2>7, <3>1, <3>2 DEF WillBeOpen, WillBeManual, WillBeInTx
  <2>9. c.type = type /\ type # "none"
    BY <1>3, <2>1 DEF EndCommand, QueryFails, QueryExecutes, ReadEnds, ReadKept, ReadStops, ReadOn, ExportEnds,
       ExportFetchedEnds, AutocommitEnds, SchemaEnds, ConnectEnds, Ends
  <2>10. alive[s]
    BY <1>1, <2>9 DEF TxShown, NoCommand, Direct
  <2>11. conn[s] \in Connection
    BY <1>0
  <2>12. ASSUME s \in Live, NoConnect(q) PROVE ShownAs(ss, b, after)
    <3>1. Lined(ss, q, c, a)
      BY <1>1, <2>10, <2>12
    <3>2. c.type \in {"Query", "QueryAll"} => ChangeIn(ss) = TxChange(c.sql)
      BY <1>0, <3>1, RunsInFlight
    <3>3. c.type # "Connect" => ShownAs(ss, a, conn[s])
      BY <1>1, <2>10, <2>12 DEF TxShown
    <3>4. /\ conn[s].tx \in BOOLEAN /\ conn[s].manual \in BOOLEAN
          /\ after.tx \in BOOLEAN /\ after.manual \in BOOLEAN
      BY <2>1, <2>11 DEF Connection
    <3> HIDE DEF b, a, ss, c, q
    <3> QED
      BY <2>1, <2>6, <2>8, <3>2, <3>3, <3>4, SettledShown DEF c
  <2>13. /\ cmds'[s] = q /\ current'[s] = NoCommand /\ answers'[s] = b /\ session'[s] = ss
         /\ alive'[s] = alive[s] /\ conn'[s] = after /\ early'[s] = <<>>
    BY <1>0, <2>1, <2>2
  <2>14. TxShown(s)'
    <3> HIDE DEF b
    <3> QED
      BY <1>1, <2>10, <2>12, <2>13 DEF TxShown
  <2>15. \A t \in Sessions \ {s} :
          /\ session'[t] = session[t] /\ cmds'[t] = cmds[t] /\ current'[t] = current[t]
          /\ early'[t] = early[t] /\ answers'[t] = answers[t] /\ alive'[t] = alive[t] /\ conn'[t] = conn[t]
    BY <1>0, <2>1, <2>2
  <2>16. conn' \in [Sessions -> Connection]
    BY <1>0, <2>1
  <2> QED
    BY <2>14, <2>15, <2>16, OwnTx
<1>4. CASE Die(s)
  <2>1. /\ alive' = [alive EXCEPT ![s] = FALSE] /\ current' = [current EXCEPT ![s] = NoCommand]
        /\ cmds' = [cmds EXCEPT ![s] = <<>>] /\ early' = [early EXCEPT ![s] = <<>>]
        /\ conn' = [conn EXCEPT ![s] = NoConnection] /\ UNCHANGED answers
    BY <1>4 DEF Die
  <2>2. NoConnection \in Connection /\ ~NoConnection.tx
    BY DEF NoConnection, Connection
  <2>3. ~alive'[s] /\ current'[s] = NoCommand /\ ~conn'[s].tx /\ early'[s] = <<>> /\ session'[s] = ss
    BY <1>0, <2>1, <2>2
  <2>4. TxShown(s)'
    BY <1>1, <2>3 DEF TxShown
  <2>5. \A t \in Sessions \ {s} :
          /\ session'[t] = session[t] /\ cmds'[t] = cmds[t] /\ current'[t] = current[t]
          /\ early'[t] = early[t] /\ answers'[t] = answers[t] /\ alive'[t] = alive[t] /\ conn'[t] = conn[t]
    BY <1>0, <2>1
  <2>6. conn' \in [Sessions -> Connection]
    BY <1>0, <2>1, <2>2
  <2> QED
    BY <2>4, <2>5, <2>6, OwnTx
<1> QED
  BY <1>2, <1>3, <1>4 DEF Work

\* What a worker's end takes from its session is no transaction: it had none.
LEMMA WorkerStoppedShown ==
  ASSUME Typed, Answering, TxInv, NEW s \in Sessions, WorkerStopped(s)
  PROVE  TxInv'
<1> DEFINE ss == session[s]
           b == session'[s]
<1>1. /\ session \in [Sessions -> SessionState] /\ ss \in SessionState /\ ~alive[s]
      /\ UNCHANGED <<cmds, current, early, conn, alive, answers>> /\ conn \in [Sessions -> Connection]
      /\ TxShown(s)
  BY DEF WorkerStopped, Typed, TypeOK, TxInv, Answering, Aside
<1>2. \A t \in Sessions \ {s} : session'[t] = session[t]
  BY <1>1 DEF WorkerStopped
<1>3. ASSUME s \in Live' PROVE ItemsSound(b)
  <2>1. CASE s \in Live
    <3>1. b = GivenUp(ss)
      BY <1>1, <2>1 DEF WorkerStopped
    <3>2. b.queue = <<>> /\ b.inFlight = NoItem /\ b.held = ss.held
      BY <1>1, <3>1 DEF GivenUp, SessionState
    <3>3. AllSound(ss.held)
      BY <1>1, <2>1 DEF TxShown, ItemsSound
    <3>4. Sound(NoItem) /\ AllSound(<<>>)
      BY DEF Sound, NoItem, AllSound
    <3> QED
      BY <3>2, <3>3, <3>4 DEF ItemsSound
  <2>2. CASE s \notin Live
    <3>1. b = ss
      BY <2>2 DEF WorkerStopped
    <3> QED
      BY <1>3, <2>2, <3>1 DEF Live
  <2> QED
    BY <2>1, <2>2
<1>4. TxShown(s)'
  BY <1>1, <1>3 DEF TxShown
<1> QED
  BY <1>1, <1>2, <1>4, OwnTx

\* What is no longer held was not begun.
LEMMA UnheldBeside ==
  ASSUME Typed, TxInv, NEW t \in Sessions, session'[t] = NothingHeld[t], cmds'[t] = cmds[t]
  PROVE  Beside(t)
<1>1. session[t] \in SessionState /\ TxShown(t)
  BY DEF Typed, TypeOK, TxInv
<1>2. session'[t] = [session[t] EXCEPT !.held = <<>>]
  BY DEF NothingHeld
<1>3. /\ KeepsTx(session[t], session'[t]) /\ session'[t].inFlight = session[t].inFlight
      /\ session'[t].queue = session[t].queue /\ session'[t].held = <<>>
  BY <1>1, <1>2 DEF KeepsTx, SessionState
<1>4. t \in Live' <=> t \in Live
  BY <1>3 DEF Live, KeepsTx
<1>5. AllSound(<<>>)
  BY DEF AllSound
<1> QED
  BY <1>1, <1>3, <1>4, <1>5 DEF Beside, TxShown, ItemsSound

\* Each session of the quit confirm sends its rollback when it can, and shows
\* its transaction until that is answered.
LEMMA QuitShown ==
  ASSUME Typed, Agreed, Answering, TxInv, QuitRollingBack
  PROVE  TxInv'
<1> DEFINE who == dialog.who
           out == [t \in Sessions |-> IF t \in who THEN Sent(RollingBack(t)) ELSE <<>>]
<1>1. /\ who \subseteq Live /\ who \in SUBSET Sessions /\ session \in [Sessions -> SessionState]
      /\ UNCHANGED <<current, early, conn, alive, answers>> /\ cmds \in [Sessions -> Seq(CommandSet)]
  BY DEF Agreed, Typed, TypeOK, Dialogs, ChannelsOK, QuitRollingBack, User, untouchedByUser
<1>2. /\ \A t \in Sessions : session'[t] = IF t \in who THEN Pumped(RollingBack(t)) ELSE NothingHeld[t]
      /\ Deliver(out)
  BY DEF QuitRollingBack
<1>3. \A t \in Sessions : cmds'[t] = IF alive[t] THEN cmds[t] \o out[t] ELSE cmds[t]
  BY <1>2 DEF Deliver
<1>4. \A t \in Sessions : out[t] = IF t \in who THEN Sent(RollingBack(t)) ELSE <<>>
  OBVIOUS
<1> HIDE DEF out
<1>5. ASSUME NEW t \in who PROVE Beside(t)
  <2> DEFINE back == RollingBack(t)
             ss == session[t]
             item == Rollback(t)
  <2>1. back \in SessionState /\ ss \in SessionState /\ t \in Sessions /\ t \in Live /\ item \in Item
    BY <1>1, RollingBackTyped, RollbackItem
  <2>2. item.how = "query"
    BY DEF Rollback, Wanted
  <2>3. KeepsTx(ss, back) /\ back.inFlight = ss.inFlight /\ back.queue = ss.queue \o <<item>> /\ back.held = <<>>
    BY <2>1 DEF RollingBack, Behind, KeepsTx, SessionState
  <2> HIDE DEF item, back
  <2>4. ItemsSound(ss) /\ ss.queue \in Seq(Item)
    BY <2>1 DEF TxInv, TxShown, SessionState
  <2> HIDE DEF ss
  <2>5. ItemsSound(back)
    <3> DEFINE queue == ss.queue
    <3>1. \A i \in DOMAIN queue : Sound(queue[i])
      BY <2>4 DEF ItemsSound, AllSound
    <3>2. Sound(item)
      BY <2>2 DEF Sound
    <3> HIDE DEF queue
    <3>3. queue \in Seq(Item) => \A i \in DOMAIN (queue \o <<item>>) : Sound((queue \o <<item>>)[i])
      BY <2>1, <3>1, <3>2
    <3>4. AllSound(<<>>)
      BY DEF AllSound
    <3> QED
      BY <2>3, <2>4, <3>3, <3>4 DEF ItemsSound, AllSound, queue
  <2>6. /\ ItemsSound(Pumped(back)) /\ back.inFlight \in {Pumped(back).inFlight, NoItem} /\ NoConnect(Sent(back))
        /\ KeepsTx(back, Pumped(back)) /\ Sent(back) \in Seq(CommandSet)
    BY <2>1, <2>5, PumpedSound, BesideTx, PumpedTyped
  <2>7. session'[t] = Pumped(back) /\ cmds'[t] = IF alive[t] THEN cmds[t] \o Sent(back) ELSE cmds[t]
    BY <1>2, <1>3, <1>4, <2>1 DEF back
  <2>8. KeepsTx(ss, session'[t]) /\ ss.inFlight \in {session'[t].inFlight, NoItem} /\ ItemsSound(session'[t])
    BY <2>3, <2>6, <2>7 DEF KeepsTx
  <2>9. alive[t] /\ NoConnect(cmds'[t]) => NoConnect(cmds[t])
    BY <1>1, <2>1, <2>6, <2>7, ConnectsStay
  <2> QED
    BY <2>1, <2>8, <2>9 DEF Beside, ss
<1>6. ASSUME NEW t \in Sessions \ who PROVE Beside(t)
  <2>1. out[t] = <<>> /\ session'[t] = NothingHeld[t]
    BY <1>2, <1>4
  <2>2. cmds[t] \o <<>> = cmds[t]
    BY <1>1
  <2>3. cmds'[t] = cmds[t]
    BY <1>3, <2>1, <2>2
  <2> QED
    BY <2>1, <2>3, UnheldBeside
<1> QED
  BY <1>1, <1>5, <1>6, AppShown

\* The first connections have no transaction.
LEMMA InitShown == Init => TxInv
<1> SUFFICES ASSUME Init PROVE TxInv
  OBVIOUS
<1>1. /\ conn = [s \in Sessions |-> [NoConnection EXCEPT !.open = s \in FirstOpen, !.prod = s \in FirstProd]]
      /\ \A s \in Sessions : early[s] = <<>>
      /\ \A s \in Sessions : alive[s]
  BY DEF Init, WorkerInit
<1>2. ASSUME NEW s \in Sessions PROVE conn[s] \in Connection /\ ~conn[s].tx /\ ~conn[s].manual
  <2>1. conn[s] = [open |-> s \in FirstOpen, prod |-> s \in FirstProd, tx |-> FALSE, manual |-> FALSE]
    BY <1>1 DEF NoConnection
  <2>2. (s \in FirstOpen) \in BOOLEAN /\ (s \in FirstProd) \in BOOLEAN
    OBVIOUS
  <2> QED
    BY <2>1, <2>2 DEF Connection
<1>3. ASSUME NEW s \in Sessions PROVE TxShown(s)
  <2>1. session[s].queue = <<>> /\ session[s].inFlight = NoItem /\ session[s].held = <<>>
    BY DEF Init, Fresh
  <2>2. ItemsSound(session[s])
    BY <2>1 DEF ItemsSound, AllSound, Sound, NoItem
  <2>3. ShownAs(session[s], answers[s], conn[s])
    BY <1>2 DEF ShownAs
  <2>4. alive[s] /\ \A i \in DOMAIN early[s] : early[s][i].type = "CursorClosed"
    <3>1. DOMAIN <<>> = {}
      OBVIOUS
    <3>2. early[s] = <<>> /\ alive[s]
      BY <1>1
    <3> QED
      BY <3>1, <3>2
  <2> QED
    BY <2>2, <2>3, <2>4 DEF TxShown
<1>4. conn \in [Sessions -> Connection]
  BY <1>1, <1>2
<1> QED
  BY <1>3, <1>4 DEF TxInv

\* The step.
LEMMA NextShown == Typed /\ Agreed /\ Answering /\ TxInv /\ [Next]_vars => TxInv'
<1> SUFFICES ASSUME Typed, Agreed, Answering, TxInv, [Next]_vars PROVE TxInv'
  OBVIOUS
<1>1. CASE UNCHANGED vars \/ CancelArrives \/ Quit
  <2>1. UNCHANGED <<session, cmds, current, early, conn, alive, answers>>
    BY <1>1 DEF vars, appVars, workerVars, CancelArrives, CancelFires, Quit, User, untouchedByUser
  <2>2. Live' = Live
    BY <2>1 DEF Live
  <2> QED
    BY <2>1, <2>2 DEF TxInv, TxShown
<1>2. CASE Dismiss
  <2>1. session' = NothingHeld /\ UNCHANGED <<cmds, current, early, conn, alive, answers>>
    BY <1>2 DEF Dismiss, User, untouchedByUser
  <2>2. \A t \in Sessions : Beside(t)
    BY <2>1, UnheldBeside
  <2> QED
    BY <2>1, <2>2, AppShown
<1>3. Typed'
  BY NextTyped
<1> QED
  BY <1>1, <1>2, <1>3, ActsShown, HearShown, WorkerStoppedShown, WorkShown, QuitShown DEF Next

\* The transaction an open session's connection has is shown whenever the
\* session is at rest: whatever was run, stopped, lost or refused on the way,
\* the answers already heard have said of the transaction all that the worker
\* did to it, so that closing the session or the app asks before it is gone
\* (run.rs, `tx_change` and `finish_statement`; app/reducer.rs, the quit and the
\* close; db.rs, the worker's connection).
THEOREM TransactionStaysShown == Spec => []OpenTransactionIsShown
<1>1. TxInv => OpenTransactionIsShown
  <2> SUFFICES ASSUME TxInv, NEW s \in Sessions, Quiet(s), IsOpen(session[s]), conn[s].tx
               PROVE  TxOpen(session[s])
    BY DEF OpenTransactionIsShown
  <2>1. s \in Live /\ cmds[s] = <<>> /\ current[s] = NoCommand /\ answers[s] = <<>> /\ TxShown(s)
    BY DEF Quiet, TxInv
  <2>2. NoConnect(cmds[s]) /\ current[s].type # "Connect"
    BY <2>1 DEF NoConnect, NoCommand, Direct
  <2>3. ShownAs(session[s], <<>>, conn[s])
    BY <2>1, <2>2 DEF TxShown
  <2>4. DOMAIN <<>> = {}
    OBVIOUS
  <2>5. /\ WillBeOpen(session[s], <<>>) <=> session[s].status = "open"
        /\ WillBeManual(session[s], <<>>) <=> ~session[s].autocommit
        /\ WillBeInTx(session[s], <<>>) <=> session[s].inTx
    BY <2>4 DEF WillBeOpen, WillBeManual, WillBeInTx, Latched, NoneIn
  <2> QED
    BY <2>3, <2>5 DEF ShownAs, IsOpen, TxOpen
<1> QED
  BY <1>1, InitTyped, NextTyped, InitAgreed, NextAgreed, InitAnswering, NextAnswering, InitShown, NextShown,
     PTL DEF Spec

=============================================================================
