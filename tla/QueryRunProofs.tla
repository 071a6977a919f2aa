--------------------------- MODULE QueryRunProofs ---------------------------
(***************************************************************************)
(* Proofs about running SQL, for any sessions, any runs and operations of  *)
(* the user and any bounds: every variable keeps its type, whatever is     *)
(* run, cancelled, dropped, answered, closed or lost with its worker.      *)
(***************************************************************************)
EXTENDS QueryRun, TLAPS, FiniteSetTheorems

(***************************************************************************)
(* Types.  A tab shows the rows of an answer, so the app's side is typed   *)
(* only together with what stands on the channels.                         *)
(***************************************************************************)
Rows == Seq(Nat \X Nat)
AnswerTypes == Ending \cup {"CursorKept", "CursorClosed", "Autocommit", "Schema",
                            "Connected", "ConnectFailed"}
AnswerSet == [type : AnswerTypes, job : Nat, rows : Rows, more : BOOLEAN, ok : BOOLEAN]
CommandSet == [type : CommandTypes \cup {"none"}, sql : Statements \cup {NoSql},
               job : Nat, on : BOOLEAN]

ChannelsOK ==
  /\ cmds \in [Sessions -> Seq(CommandSet)]
  /\ current \in [Sessions -> CommandSet]
  /\ early \in [Sessions -> Seq(AnswerSet)]
  /\ stream \in [Sessions -> [job : Nat, read : Nat]]
  /\ alive \in [Sessions -> BOOLEAN]
  /\ answers \in [Sessions -> Seq(AnswerSet)]
  /\ stopping \in [Sessions -> BOOLEAN]

Typed == TypeOK /\ ChannelsOK

-----------------------------------------------------------------------------
(* Sequences *)

\* Two sequences over a set make one, the first before the second.
LEMMA Joined ==
  ASSUME NEW S, NEW p \in Seq(S), NEW q \in Seq(S)
  PROVE  /\ p \o q \in Seq(S) /\ Len(p \o q) = Len(p) + Len(q)
         /\ DOMAIN (p \o q) = 1..(Len(p) + Len(q))
         /\ \A i \in 1..Len(p) : (p \o q)[i] = p[i]
         /\ \A i \in 1..Len(q) : (p \o q)[Len(p) + i] = q[i]
OBVIOUS

\* What a nonempty sequence gives up first, and what it keeps.
LEMMA HeadAndTail ==
  ASSUME NEW S, NEW q \in Seq(S), q # <<>>
  PROVE  /\ Head(q) \in S /\ Head(q) = q[1] /\ 1 \in DOMAIN q
         /\ Tail(q) \in Seq(S) /\ DOMAIN Tail(q) = 1..(Len(q) - 1)
         /\ \A i \in DOMAIN Tail(q) : i + 1 \in DOMAIN q /\ Tail(q)[i] = q[i + 1]
OBVIOUS

\* Without its i-th element a sequence is one shorter, the others in order.
LEMMA WithoutThe ==
  ASSUME NEW S, NEW q \in Seq(S), NEW i \in 1..Len(q)
  PROVE  /\ RemoveAt(q, i) \in Seq(S) /\ DOMAIN RemoveAt(q, i) = 1..(Len(q) - 1)
         /\ \A k \in 1..(Len(q) - 1) : RemoveAt(q, i)[k] = IF k < i THEN q[k] ELSE q[k + 1]
<1> DEFINE a == SubSeq(q, 1, i - 1)
           b == SubSeq(q, i + 1, Len(q))
<1>1. a \in Seq(S) /\ Len(a) = i - 1 /\ \A k \in 1..(i - 1) : a[k] = q[k]
  OBVIOUS
<1>2. b \in Seq(S) /\ Len(b) = Len(q) - i /\ \A k \in 1..(Len(q) - i) : b[k] = q[i + k]
  OBVIOUS
<1>3. Len(q) \in Nat /\ i \in Nat /\ RemoveAt(q, i) = a \o b
  BY DEF RemoveAt
<1> HIDE DEF a, b
<1>4. a \o b \in Seq(S) /\ DOMAIN (a \o b) = 1..(Len(q) - 1)
  <2>0. a \in Seq(S) /\ b \in Seq(S)
    BY <1>1, <1>2
  <2>1. DOMAIN (a \o b) = 1..(Len(a) + Len(b)) /\ a \o b \in Seq(S)
    BY <2>0, Joined
  <2> QED
    BY <1>1, <1>2, <1>3, <2>1
<1>5. ASSUME NEW k \in 1..(Len(q) - 1), k < i
      PROVE  (a \o b)[k] = q[k]
  BY <1>1, <1>2, <1>3, <1>5, Joined
<1>6. ASSUME NEW k \in 1..(Len(q) - 1), ~(k < i)
      PROVE  (a \o b)[k] = q[k + 1]
  <2> DEFINE j == k - (i - 1)
  <2>1. j \in 1..Len(b) /\ k = Len(a) + j /\ i + j = k + 1
    BY <1>1, <1>2, <1>3, <1>6
  <2>2. (a \o b)[Len(a) + j] = b[j] /\ b[j] = q[i + j]
    BY <1>1, <1>2, <2>1, Joined
  <2> QED
    BY <2>1, <2>2
<1> QED
  BY <1>3, <1>4, <1>5, <1>6

-----------------------------------------------------------------------------
(* The types of the channels *)

\* The rows a statement reads, and the answers that carry them.
LEMMA RowsOfTyped ==
  ASSUME NEW job \in Nat, NEW from \in Nat, NEW to \in Nat, from <= to
  PROVE  RowsOf(job, from, to) \in Rows
<1>1. to - from \in Nat
  OBVIOUS
<1>2. \A i \in 1..(to - from) : <<job, from + i>> \in Nat \X Nat
  OBVIOUS
<1> QED
  BY <1>1, <1>2 DEF RowsOf, Rows

\* Every answer a worker builds is one.
LEMMA AnswerTyped ==
  ASSUME NEW type \in AnswerTypes, NEW job \in Nat, NEW rows \in Rows,
         NEW more \in BOOLEAN, NEW ok \in BOOLEAN
  PROVE  RowsAnswer(type, job, rows, more, ok) \in AnswerSet /\ Answer(type) \in AnswerSet
<1>1. <<>> \in Rows /\ NoJob \in Nat
  BY DEF Rows, NoJob
<1> QED
  BY <1>1 DEF RowsAnswer, Answer, AnswerSet

\* Every command the app builds is one.
LEMMA CommandTyped ==
  /\ NoCommand \in CommandSet
  /\ \A type \in CommandTypes, on \in BOOLEAN : Direct(type, on) \in CommandSet
  /\ \A item \in Item : CommandOf(item) \in CommandSet
<1>1. NoCommand \in CommandSet /\ \A type \in CommandTypes, on \in BOOLEAN : Direct(type, on) \in CommandSet
  BY DEF NoCommand, Direct, CommandSet, Statements, NoJob
<1>2. ASSUME NEW item \in Item PROVE CommandOf(item) \in CommandSet
  <2>1. item.sql \in Statements \cup {NoSql} /\ item.job \in Nat
    BY DEF Item, NoItem, NoJob
  <2>2. \A type \in CommandTypes : Statement(type, item.sql, item.job) \in CommandSet
    BY <2>1 DEF Statement, CommandSet
  <2>3. item.how \in Hows
    BY DEF Item, NoItem
  <2> QED
    BY <2>2, <2>3 DEF CommandOf, Hows, CommandTypes
<1> QED
  BY <1>1, <1>2

\* A command that ends sends answers of the right type, and its worker is free.
LEMMA EndsTyped ==
  ASSUME ChannelsOK, NEW s \in Sessions, NEW type, NEW last \in Seq(AnswerSet),
         Ends(s, type, last), stream' \in [Sessions -> [job : Nat, read : Nat]]
  PROVE  ChannelsOK'
<1>1. answers[s] \o early[s] \o last \in Seq(AnswerSet)
  BY DEF ChannelsOK
<1>2. answers' \in [Sessions -> Seq(AnswerSet)]
  BY <1>1 DEF ChannelsOK, Ends
<1>3. current' \in [Sessions -> CommandSet]
  BY CommandTyped DEF ChannelsOK, Ends
<1>4. early' \in [Sessions -> Seq(AnswerSet)]
  BY DEF ChannelsOK, Ends
<1> QED
  BY <1>2, <1>3, <1>4 DEF ChannelsOK, Ends

\* So does the one that answers in a word.
LEMMA EndsWithOne ==
  ASSUME ChannelsOK, NEW s \in Sessions, NEW type, NEW last \in AnswerSet,
         Ends(s, type, <<last>>), stream' \in [Sessions -> [job : Nat, read : Nat]]
  PROVE  ChannelsOK'
<1>1. <<last>> \in Seq(AnswerSet)
  OBVIOUS
<1> QED
  BY <1>1, EndsTyped

\* What a worker does keeps the channels typed.
LEMMA WorkerTyped ==
  ASSUME ChannelsOK, NEW s \in Sessions, Take(s) \/ EndCommand(s) \/ Die(s)
  PROVE  ChannelsOK'
<1> DEFINE Streams0 == [Sessions -> [job : Nat, read : Nat]]
           job == current[s].job
<1>0. /\ job \in Nat /\ current[s].on \in BOOLEAN
      /\ MaxRows \in Nat \ {0} /\ MaxStream \in Nat
      /\ stream \in Streams0 /\ NoStream \in [job : Nat, read : Nat]
      /\ <<>> \in Rows
  BY WorkerAssumption DEF ChannelsOK, CommandSet, NoStream, NoJob, Rows
<1>1. CASE Take(s)
  <2>1. Answer("CursorClosed") \in AnswerSet
    BY <1>0, AnswerTyped DEF AnswerTypes
  <2>2. Head(cmds[s]) \in CommandSet /\ Tail(cmds[s]) \in Seq(CommandSet)
    BY <1>1, HeadAndTail DEF Take, ChannelsOK
  <2>3. early' \in [Sessions -> Seq(AnswerSet)]
    BY <1>1, <2>1 DEF Take, ChannelsOK
  <2> QED
    BY <1>0, <1>1, <2>2, <2>3 DEF Take, ChannelsOK
<1>2. ASSUME NEW type, QueryFails(s, type) PROVE ChannelsOK'
  BY <1>0, <1>2, AnswerTyped, EndsWithOne DEF QueryFails, AnswerTypes, Ending
<1>3. ASSUME NEW type, QueryExecutes(s, type) PROVE ChannelsOK'
  BY <1>0, <1>3, AnswerTyped, EndsWithOne DEF QueryExecutes, AnswerTypes, Ending
<1>4. ASSUME NEW type, NEW limit \in Nat, ReadEnds(s, type, limit) \/ ReadStops(s, type, limit)
      PROVE  ChannelsOK'
  <2>1. \A n \in Nat : RowsOf(job, 0, n) \in Rows
    BY <1>0, RowsOfTyped
  <2>2. CASE ReadEnds(s, type, limit)
    <3>1. PICK n \in 0..limit : Ends(s, type, <<RowsAnswer("QueryDone", job, RowsOf(job, 0, n), FALSE, TRUE)>>)
      BY <2>2 DEF ReadEnds
    <3>2. RowsAnswer("QueryDone", job, RowsOf(job, 0, n), FALSE, TRUE) \in AnswerSet
      <4>1. RowsOf(job, 0, n) \in Rows
        BY <2>1
      <4> QED
        BY <1>0, <4>1, AnswerTyped DEF AnswerTypes, Ending
    <3>3. stream' \in Streams0
      BY <1>0, <2>2 DEF ReadEnds
    <3> QED
      BY <3>1, <3>2, <3>3, EndsWithOne
  <2>3. CASE ReadStops(s, type, limit)
    <3>1. PICK n \in 1..limit : Ends(s, type, <<RowsAnswer("QueryStopped", job, RowsOf(job, 0, n), FALSE, FALSE)>>)
      BY <2>3 DEF ReadStops
    <3>2. RowsAnswer("QueryStopped", job, RowsOf(job, 0, n), FALSE, FALSE) \in AnswerSet
      <4>1. RowsOf(job, 0, n) \in Rows
        BY <2>1
      <4> QED
        BY <1>0, <4>1, AnswerTyped DEF AnswerTypes, Ending
    <3>3. stream' \in Streams0
      BY <1>0, <2>3 DEF ReadStops
    <3> QED
      BY <3>1, <3>2, <3>3, EndsWithOne
  <2> QED
    BY <1>4, <2>2, <2>3
<1>5. CASE ReadKept(s)
  <2>1. RowsOf(job, 0, MaxRows) \in Rows
    BY <1>0, RowsOfTyped
  <2>2. /\ RowsAnswer("QueryDone", job, RowsOf(job, 0, MaxRows), TRUE, TRUE) \in AnswerSet
        /\ Answer("CursorKept") \in AnswerSet
    BY <1>0, <2>1, AnswerTyped DEF AnswerTypes, Ending
  <2>3. stream' \in Streams0
    BY <1>0, <1>5 DEF ReadKept
  <2>4. PICK first \in AnswerSet, last \in AnswerSet : Ends(s, "Query", <<first, last>>)
    BY <1>5, <2>2 DEF ReadKept
  <2>5. <<first, last>> \in Seq(AnswerSet)
    OBVIOUS
  <2> QED
    BY <2>3, <2>4, <2>5, EndsTyped
<1>6. CASE ReadOn(s)
  <2> DEFINE from == stream[s].read
             of == stream[s].job
             Read(to, more, ok) == RowsAnswer("MoreRows", job, RowsOf(of, from, to), more, ok)
  <2>1. from \in Nat /\ of \in Nat
    BY <1>0
  <2>2. ASSUME NEW to \in Nat, from <= to
        PROVE  \A more, ok \in BOOLEAN : Read(to, more, ok) \in AnswerSet
    <3>1. RowsOf(of, from, to) \in Rows
      BY <2>1, <2>2, RowsOfTyped
    <3> QED
      BY <1>0, <3>1, AnswerTyped DEF AnswerTypes, Ending
  <2> HIDE DEF Read
  <2>3. CASE Ends(s, "FetchMore", <<Read(from, FALSE, FALSE)>>) /\ UNCHANGED stream
    <3>1. Read(from, FALSE, FALSE) \in AnswerSet
      <4>1. from <= from
        BY <2>1
      <4> QED
        BY <2>1, <2>2, <4>1
    <3> QED
      BY <1>0, <2>3, <3>1, EndsWithOne
  <2>4. CASE /\ Ends(s, "FetchMore", <<Read(from + MaxRows, TRUE, TRUE)>>)
             /\ stream' = [stream EXCEPT ![s].read = from + MaxRows]
    <3>1. Read(from + MaxRows, TRUE, TRUE) \in AnswerSet
      <4>1. from + MaxRows \in Nat /\ from <= from + MaxRows
        BY <1>0, <2>1
      <4> QED
        BY <2>2, <4>1
    <3>2. stream' \in Streams0
      BY <1>0, <2>1, <2>4
    <3> QED
      BY <2>4, <3>1, <3>2, EndsWithOne
  <2>5. CASE /\ \E n \in 1..MaxRows, ok \in BOOLEAN : Ends(s, "FetchMore", <<Read(from + n, FALSE, ok)>>)
             /\ stream' = [stream EXCEPT ![s] = NoStream]
    <3>1. PICK n \in 1..MaxRows, ok \in BOOLEAN : Ends(s, "FetchMore", <<Read(from + n, FALSE, ok)>>)
      BY <2>5
    <3>2. Read(from + n, FALSE, ok) \in AnswerSet
      <4>1. from + n \in Nat /\ from <= from + n
        BY <1>0, <2>1
      <4> QED
        BY <2>2, <4>1
    <3>3. stream' \in Streams0
      BY <1>0, <2>5
    <3> QED
      BY <3>1, <3>2, <3>3, EndsWithOne
  <2> QED
    BY <1>6, <2>3, <2>4, <2>5 DEF ReadOn, Read
<1>7. CASE ExportEnds(s)
  BY <1>0, <1>7, AnswerTyped, EndsWithOne DEF ExportEnds, AnswerTypes, Ending
<1>8. CASE ExportFetchedEnds(s)
  BY <1>0, <1>8, AnswerTyped, EndsWithOne DEF ExportFetchedEnds, AnswerTypes, Ending
<1>9. CASE AutocommitEnds(s)
  BY <1>0, <1>9, AnswerTyped, EndsWithOne DEF AutocommitEnds, AnswerTypes, NoJob
<1>10. CASE SchemaEnds(s)
  BY <1>0, <1>10, AnswerTyped, EndsWithOne DEF SchemaEnds, AnswerTypes
<1>11. CASE ConnectEnds(s)
  BY <1>0, <1>11, AnswerTyped, EndsWithOne DEF ConnectEnds, AnswerTypes
<1>12. CASE Die(s)
  BY <1>0, <1>12, CommandTyped DEF Die, ChannelsOK
<1> QED
  BY <1>0, <1>1, <1>2, <1>3, <1>4, <1>5, <1>6, <1>7, <1>8, <1>9, <1>10, <1>11, <1>12 DEF EndCommand

-----------------------------------------------------------------------------
(* The registry: what each call makes of the jobs that are open, by session. *)

RegistryOK(js, n) == DOMAIN js \subseteq 1..n /\ \A id \in DOMAIN js : js[id] \in Job

QueuedOf(js, s) == Queued(js) \cap JobsOf(js, s)
RunningOf(js, s) == Running(js) \cap JobsOf(js, s)

\* js has turned into after, and the open jobs of every session are as they were
\* but for those in ids, which are not open any more.
OnlyLoses(js, after, ids) ==
  \A s \in Sessions : /\ QueuedOf(after, s) = QueuedOf(js, s) \ ids
                      /\ RunningOf(after, s) = RunningOf(js, s) \ ids

\* Forgetting old finished jobs forgets none that is still open.
LEMMA TrimLeavesOpen ==
  ASSUME NEW js, NEW n \in Nat, RegistryOK(js, n)
  PROVE  RegistryOK(Trim(js), n) /\ OnlyLoses(js, Trim(js), {})
<1>1. /\ DOMAIN Trim(js) \subseteq DOMAIN js
      /\ \A id \in DOMAIN Trim(js) : Trim(js)[id] = js[id]
      /\ \A id \in DOMAIN js : js[id].state \notin FinishedStates => id \in DOMAIN Trim(js)
  BY DEF Trim, Kept, Finished
<1> QED
  BY <1>1 DEF RegistryOK, OnlyLoses, QueuedOf, RunningOf, Queued, Running, JobsOf, FinishedStates

\* Ending a job leaves every other open job as it was.
LEMMA EndCloses ==
  ASSUME NEW js, NEW n \in Nat, RegistryOK(js, n), NEW id, NEW state \in FinishedStates
  PROVE  RegistryOK(End(js, id, state), n) /\ OnlyLoses(js, End(js, id, state), {id})
<1> DEFINE set == IF id \in DOMAIN js \ Finished(js) THEN SetState(js, id, state) ELSE js
<1>1. RegistryOK(set, n)
  BY DEF RegistryOK, SetState, Job, JobStates
<1>2. OnlyLoses(js, set, {id})
  BY DEF RegistryOK, SetState, Job, OnlyLoses, QueuedOf, RunningOf, Queued, Running, JobsOf, Finished, FinishedStates
<1>3. End(js, id, state) = Trim(set)
  BY DEF End
<1> HIDE DEF set
<1>4. RegistryOK(Trim(set), n) /\ OnlyLoses(set, Trim(set), {})
  BY <1>1, TrimLeavesOpen
<1> QED
  BY <1>2, <1>3, <1>4 DEF OnlyLoses

\* So do the two ends an answer tells.
LEMMA FinishOrFailCloses ==
  ASSUME NEW js, NEW n \in Nat, RegistryOK(js, n), NEW id
  PROVE  /\ RegistryOK(Finish(js, id), n) /\ OnlyLoses(js, Finish(js, id), {id})
         /\ RegistryOK(Fail(js, id), n) /\ OnlyLoses(js, Fail(js, id), {id})
BY EndCloses DEF Finish, Fail, FinishedStates

\* So does cancelling it, before it ran or while it runs.
LEMMA CancelCloses ==
  ASSUME NEW js, NEW n \in Nat, RegistryOK(js, n), NEW id \in Queued(js) \cup Running(js)
  PROVE  RegistryOK(Cancel(js, id), n) /\ OnlyLoses(js, Cancel(js, id), {id})
<1>1. CASE id \in Queued(js)
  BY <1>1 DEF Cancel, RegistryOK, OnlyLoses, QueuedOf, RunningOf, Queued, Running, JobsOf
<1>2. CASE id \in Running(js) \ Queued(js)
  BY <1>2, EndCloses DEF Cancel, FinishedStates
<1> QED
  BY <1>1, <1>2

\* Dropping a queue takes the queued jobs named and leaves those that run.
LEMMA RemoveQueuedCloses ==
  ASSUME NEW js, NEW n \in Nat, RegistryOK(js, n), NEW ids
  PROVE  /\ RegistryOK(RemoveQueued(js, ids), n)
         /\ \A s \in Sessions : /\ QueuedOf(RemoveQueued(js, ids), s) = QueuedOf(js, s) \ ids
                                /\ RunningOf(RemoveQueued(js, ids), s) = RunningOf(js, s)
BY DEF RemoveQueued, RegistryOK, QueuedOf, RunningOf, Queued, Running, JobsOf

\* A closed session has no open job; the others keep theirs.
LEMMA CloseSessionCloses ==
  ASSUME NEW js, NEW n \in Nat, RegistryOK(js, n), NEW s \in Sessions
  PROVE  /\ RegistryOK(CloseSession(js, s), n)
         /\ QueuedOf(CloseSession(js, s), s) = {} /\ RunningOf(CloseSession(js, s), s) = {}
         /\ \A t \in Sessions \ {s} : /\ QueuedOf(CloseSession(js, s), t) = QueuedOf(js, t)
                                      /\ RunningOf(CloseSession(js, s), t) = RunningOf(js, t)
<1> DEFINE open == JobsOf(js, s) \ Finished(js)
           closed == [id \in DOMAIN js |->
                        IF id \in open THEN [js[id] EXCEPT !.state = "cancelled"] ELSE js[id]]
<1>1. CASE open = {}
  BY <1>1 DEF CloseSession, QueuedOf, RunningOf, Queued, Running, JobsOf, Finished, FinishedStates
<1>2. CASE open # {}
  <2>1. RegistryOK(closed, n)
    BY DEF RegistryOK, Job, JobStates, FinishedStates
  <2>2. /\ QueuedOf(closed, s) = {} /\ RunningOf(closed, s) = {}
        /\ \A t \in Sessions \ {s} : QueuedOf(closed, t) = QueuedOf(js, t) /\ RunningOf(closed, t) = RunningOf(js, t)
    <3>1. /\ DOMAIN closed = DOMAIN js
          /\ \A id \in open : closed[id].state = "cancelled" /\ closed[id].session = js[id].session
          /\ \A id \in DOMAIN js \ open : closed[id] = js[id]
      BY DEF RegistryOK, Job, JobsOf
    <3> HIDE DEF closed
    <3> QED
      BY <3>1 DEF QueuedOf, RunningOf, Queued, Running, JobsOf, Finished, FinishedStates
  <2>3. CloseSession(js, s) = Trim(closed)
    BY <1>2 DEF CloseSession
  <2> HIDE DEF closed
  <2>4. RegistryOK(Trim(closed), n) /\ OnlyLoses(closed, Trim(closed), {})
    BY <2>1, TrimLeavesOpen
  <2> QED
    BY <2>2, <2>3, <2>4 DEF OnlyLoses
<1> QED
  BY <1>1, <1>2

\* A queued job of a session that runs nothing starts.
LEMMA StartRuns ==
  ASSUME NEW js, NEW n \in Nat, RegistryOK(js, n), NEW s \in Sessions,
         NEW id \in QueuedOf(js, s), RunningOf(js, s) = {}
  PROVE  /\ RegistryOK(Start(js, id), n)
         /\ QueuedOf(Start(js, id), s) = QueuedOf(js, s) \ {id}
         /\ RunningOf(Start(js, id), s) = {id}
         /\ \A t \in Sessions \ {s} : /\ QueuedOf(Start(js, id), t) = QueuedOf(js, t)
                                      /\ RunningOf(Start(js, id), t) = RunningOf(js, t)
<1>1. Start(js, id) = SetState(js, id, "running")
  BY DEF Start, SessionRuns, QueuedOf, RunningOf, JobsOf
<1> DEFINE set == SetState(js, id, "running")
<1>2. /\ DOMAIN set = DOMAIN js /\ id \in DOMAIN js /\ js[id].session = s /\ js[id].state = "queued"
      /\ set[id] = [js[id] EXCEPT !.state = "running"]
      /\ \A other \in DOMAIN js \ {id} : set[other] = js[other]
  BY DEF SetState, QueuedOf, Queued, JobsOf
<1>3. set[id].state = "running" /\ set[id].session = s /\ set[id] \in Job
  BY <1>2 DEF RegistryOK, Job, JobStates
<1> HIDE DEF set
<1>4. RegistryOK(set, n)
  BY <1>2, <1>3 DEF RegistryOK
<1> QED
  BY <1>1, <1>2, <1>3, <1>4 DEF set, QueuedOf, RunningOf, Queued, Running, JobsOf

\* The jobs of a run are queued with the ids after the newest, in the run's order.
LEMMA NumberedItems ==
  ASSUME made \in Nat, NEW items \in Seq(Item)
  PROVE  /\ Numbered(items) \in Seq(Item)
         /\ DOMAIN Numbered(items) = 1..Len(items) /\ Len(Numbered(items)) = Len(items)
         /\ \A i \in 1..Len(items) : Numbered(items)[i].job = made + i
<1>1. DOMAIN items = 1..Len(items) /\ Len(items) \in Nat
  OBVIOUS
<1>2. \A i \in 1..Len(items) : items[i] \in Item /\ made + i \in Nat
  OBVIOUS
<1>3. \A i \in 1..Len(items) : [items[i] EXCEPT !.job = made + i] \in Item
  BY <1>2 DEF Item
<1>4. \A i \in 1..Len(items) : [items[i] EXCEPT !.job = made + i].job = made + i
  BY <1>2 DEF Item
<1>5. Numbered(items) = [i \in 1..Len(items) |-> [items[i] EXCEPT !.job = made + i]]
  BY <1>1 DEF Numbered, JobId
<1> DEFINE numbered == Numbered(items)
<1>6. /\ DOMAIN numbered = 1..Len(items)
      /\ \A i \in 1..Len(items) : numbered[i] \in Item /\ numbered[i].job = made + i
  BY <1>3, <1>4, <1>5
<1>7. numbered \in Seq(Item)
  BY <1>1, <1>3, <1>5
<1> HIDE DEF numbered
<1>8. Len(numbered) = Len(items)
  BY <1>1, <1>6, <1>7
<1> QED
  BY <1>6, <1>7, <1>8 DEF numbered

\* Enqueueing adds the new jobs to what the session queues and moves no other.
LEMMA EnqueuedQueues ==
  ASSUME made \in Nat, RegistryOK(jobs, made), NEW s \in Sessions, NEW items \in Seq(Item)
  PROVE  /\ RegistryOK(Enqueued(s, items), made + Len(items))
         /\ QueuedOf(Enqueued(s, items), s) = QueuedOf(jobs, s) \cup (made + 1)..(made + Len(items))
         /\ RunningOf(Enqueued(s, items), s) = RunningOf(jobs, s)
         /\ \A t \in Sessions \ {s} : /\ QueuedOf(Enqueued(s, items), t) = QueuedOf(jobs, t)
                                      /\ RunningOf(Enqueued(s, items), t) = RunningOf(jobs, t)
<1> DEFINE new == (made + 1)..(made + Len(items))
           js == Enqueued(s, items)
<1>1. Len(items) \in Nat
  OBVIOUS
<1>2. new \cap DOMAIN jobs = {}
  BY DEF RegistryOK
<1>3. /\ DOMAIN js = DOMAIN jobs \cup new
      /\ \A id \in DOMAIN jobs : js[id] = jobs[id]
      /\ \A id \in new : js[id] = [session |-> s, kind |-> KindOf(items[id - made]), state |-> "queued"]
  BY <1>1, <1>2 DEF Enqueued, JobId
<1> HIDE DEF js
<1>4. ASSUME NEW id \in new
      PROVE  js[id] \in Job /\ js[id].session = s /\ js[id].state = "queued"
  <2> DEFINE kind == KindOf(items[id - made])
  <2>1. kind \in JobKinds
    BY DEF KindOf, JobKinds
  <2>2. js[id] = [session |-> s, kind |-> kind, state |-> "queued"]
    BY <1>3
  <2> HIDE DEF kind
  <2> QED
    BY <2>1, <2>2 DEF Job, JobStates
<1>5. RegistryOK(js, made + Len(items))
  BY <1>1, <1>3, <1>4 DEF RegistryOK
<1> QED
  BY <1>2, <1>3, <1>4, <1>5 DEF js, QueuedOf, RunningOf, Queued, Running, JobsOf

-----------------------------------------------------------------------------
(* The types of the app's side *)

\* A session just made is one.
LEMMA FreshTyped ==
  ASSUME NEW status \in {"unused", "connecting", "open", "failed", "closed"}, NEW prod \in BOOLEAN
  PROVE  Fresh(status, prod) \in SessionState
BY DEF Fresh, SessionState, NoItem

\* The pump keeps the types of the session and of what it sends.
LEMMA PumpedTyped ==
  ASSUME NEW ss \in SessionState
  PROVE  Pumped(ss) \in SessionState /\ Sent(ss) \in Seq(CommandSet)
<1>1. CASE Sends(ss)
  <2>1. ss.queue \in Seq(Item) /\ ss.queue # <<>> /\ ss.running \in Nat
    BY <1>1 DEF Sends, SessionState
  <2>2. Head(ss.queue) \in Item /\ Tail(ss.queue) \in Seq(Item)
    BY <2>1, HeadAndTail
  <2>3. ChangeOf(Head(ss.queue)) \in {"begins", "ends", "none"}
    BY DEF ChangeOf, TxChange
  <2>4. Append(ss.txChanges, ChangeOf(Head(ss.queue))) \in Seq({"begins", "ends", "none"})
    BY <2>3 DEF SessionState
  <2>5. CommandOf(Head(ss.queue)) \in CommandSet
    BY <2>2, CommandTyped
  <2> DEFINE first == Head(ss.queue)
             rest == Tail(ss.queue)
             changes == Append(ss.txChanges, ChangeOf(Head(ss.queue)))
             more == ss.running + 1
  <2>6. Pumped(ss) = [ss EXCEPT !.inFlight = first, !.queue = rest, !.running = more, !.txChanges = changes]
    BY <1>1 DEF Pumped
  <2>7. first \in Item /\ rest \in Seq(Item) /\ more \in Nat /\ changes \in Seq({"begins", "ends", "none"})
    BY <2>1, <2>2, <2>4
  <2> HIDE DEF first, rest, changes, more
  <2> DEFINE after == [ss EXCEPT !.inFlight = first, !.queue = rest, !.running = more, !.txChanges = changes]
  <2>9. after \in SessionState
    BY <2>7 DEF SessionState
  <2>10. Pumped(ss) \in SessionState
    BY <2>6, <2>9
  <2>8. Sent(ss) \in Seq(CommandSet)
    BY <1>1, <2>5 DEF Sent
  <2> QED
    BY <2>10, <2>8
<1>2. CASE ~Sends(ss)
  BY <1>2 DEF Pumped, Sent
<1> QED
  BY <1>1, <1>2

\* So does everything the end of a statement does to its session.
LEMMA EndedTyped ==
  ASSUME NEW ss \in SessionState
  PROVE  /\ Ended(ss) \in SessionState /\ Succeeded(ss) \in SessionState
         /\ Dropped(ss) \in SessionState /\ Placeless(ss) \in SessionState
         /\ GivenUp(ss) \in SessionState
         /\ [ss EXCEPT !.cursorKept = FALSE] \in SessionState
<1>0. <<>> \in Seq(Item) /\ <<>> \in Seq({"begins", "ends", "none"}) /\ 0 \in Nat
  OBVIOUS
<1>1. Less(ss.running) \in Nat
  BY DEF Less, SessionState
<1>2. Rest(ss.txChanges) \in Seq({"begins", "ends", "none"})
  BY DEF Rest, SessionState
<1>3. Ended(ss) \in SessionState
  BY <1>1, <1>2 DEF Ended, SessionState
<1>4. Succeeded(ss) \in SessionState
  BY <1>3 DEF Succeeded, SessionState
<1>5. Dropped(ss) \in SessionState
  BY <1>0 DEF Dropped, SessionState
<1>6. Placeless(ss) \in SessionState
  BY DEF Placeless, SessionState
<1>7. GivenUp(ss) \in SessionState
  BY <1>0 DEF GivenUp, SessionState
<1>8. [ss EXCEPT !.cursorKept = FALSE] \in SessionState
  BY DEF SessionState
<1> QED
  BY <1>3, <1>4, <1>5, <1>6, <1>7, <1>8

\* A new tab keeps the types, also when the oldest one goes.
LEMMA NewTabTyped ==
  ASSUME NEW ss \in SessionState, NEW job \in Nat, NEW sql \in Statements \cup {NoSql},
         NEW rows \in Rows, NEW truncated \in BOOLEAN, NEW stops \in BOOLEAN
  PROVE  NewTab(ss, job, sql, rows, truncated, stops) \in SessionState
<1> DEFINE tab == [number |-> ss.tabsMade + 1, job |-> job, sql |-> sql, rows |-> rows,
                   truncated |-> truncated, stopped |-> stops]
           tabs == Append(ss.tabs, tab)
           kept == IF Len(tabs) > MaxTabs THEN Tail(tabs) ELSE tabs
<1>1. ss.tabs \in Seq(Tab) /\ ss.tabsMade \in Nat
  BY DEF SessionState
<1>2. tab \in Tab
  BY <1>1 DEF Tab, Rows
<1> HIDE DEF tab
<1>3. tabs \in Seq(Tab) /\ tabs # <<>>
  BY <1>1, <1>2
<1>4. NewTab(ss, job, sql, rows, truncated, stops) = [ss EXCEPT !.tabsMade = ss.tabsMade + 1, !.tabs = kept]
  BY DEF NewTab, tab
<1> HIDE DEF tabs
<1>5. kept \in Seq(Tab)
  BY <1>3
<1> DEFINE made0 == ss.tabsMade + 1
           after == [ss EXCEPT !.tabsMade = made0, !.tabs = kept]
<1>6. made0 \in Nat
  BY <1>1
<1> HIDE DEF kept, made0
<1>7. after \in SessionState
  BY <1>5, <1>6 DEF SessionState
<1> QED
  BY <1>4, <1>7 DEF made0

\* So does every answer that ends no statement.
LEMMA ToldTyped ==
  ASSUME NEW ss \in SessionState, NEW answer \in AnswerSet
  PROVE  Told(ss, answer) \in SessionState
<1>1. /\ [ss EXCEPT !.status = "open", !.inTx = FALSE, !.autocommit = TRUE, !.cursor = 0,
                     !.cursorKept = FALSE] \in SessionState
      /\ [ss EXCEPT !.status = "failed"] \in SessionState
      /\ [ss EXCEPT !.cursorKept = TRUE] \in SessionState
      /\ Placeless(ss) \in SessionState
  <2>1. [ss EXCEPT !.status = "open", !.inTx = FALSE, !.autocommit = TRUE, !.cursor = 0,
                   !.cursorKept = FALSE] \in SessionState
    BY DEF SessionState
  <2>2. [ss EXCEPT !.status = "failed"] \in SessionState /\ [ss EXCEPT !.cursorKept = TRUE] \in SessionState
    BY DEF SessionState
  <2> QED
    BY <2>1, <2>2, EndedTyped
<1>2. answer.more \in BOOLEAN
  BY DEF AnswerSet
<1>3. [ss EXCEPT !.autocommit = answer.more, !.inTx = FALSE] \in SessionState
  BY <1>2 DEF SessionState
<1> QED
  BY <1>1, <1>3 DEF Told

\* So does adding the rows of an answer to the tab that asked for them.
LEMMA ExtendedTyped ==
  ASSUME NEW tabs \in Seq(Tab), NEW answer \in AnswerSet, NEW number
  PROVE  [i \in DOMAIN tabs |-> IF tabs[i].number = number THEN Extended(tabs[i], answer) ELSE tabs[i]]
           \in Seq(Tab)
<1>1. ASSUME NEW tab \in Tab PROVE Extended(tab, answer) \in Tab
  <2>1. tab.rows \o answer.rows \in Rows
    BY DEF Tab, AnswerSet, Rows
  <2> QED
    BY <2>1 DEF Extended, Tab, AnswerSet, Rows
<1>2. DOMAIN tabs = 1..Len(tabs) /\ Len(tabs) \in Nat /\ \A i \in 1..Len(tabs) : tabs[i] \in Tab
  OBVIOUS
<1> QED
  BY <1>1, <1>2

-----------------------------------------------------------------------------
(* Every step keeps the types. *)

Unworked == <<current, early, stream, conn, alive, answers>>

\* The questions asked are questions.
LEMMA DialogTyped ==
  /\ NoDialog \in Dialogs
  /\ \A kind \in {"RunOnProd", "FetchAll", "CloseSession", "Quit"}, who \in SUBSET Sessions :
       Confirm(kind, who) \in Dialogs
BY DEF NoDialog, Confirm, Dialogs

\* A registry of jobs up to m is one of jobs up to any later n.
LEMMA RegistryGrows ==
  ASSUME NEW js, NEW m \in Nat, NEW n \in Nat, m <= n, RegistryOK(js, m)
  PROVE  RegistryOK(js, n)
BY DEF RegistryOK

\* Sending commands keeps the types of the channels.
LEMMA DeliverTyped ==
  ASSUME ChannelsOK, NEW out, \A s \in Sessions : out[s] \in Seq(CommandSet), Deliver(out),
         UNCHANGED <<current, early, stream, alive>>,
         answers' \in [Sessions -> Seq(AnswerSet)]
  PROVE  ChannelsOK'
<1>2. \A s \in Sessions : cmds[s] \o out[s] \in Seq(CommandSet)
  BY DEF ChannelsOK
<1>3. cmds' \in [Sessions -> Seq(CommandSet)] /\ stopping' \in [Sessions -> BOOLEAN]
  BY <1>2 DEF Deliver, ChannelsOK
<1> QED
  BY <1>3 DEF ChannelsOK

\* What goes to one session is nothing for the others.
LEMMA ToTyped ==
  ASSUME NEW s \in Sessions, NEW out \in Seq(CommandSet)
  PROVE  \A t \in Sessions : To(s, out)[t] \in Seq(CommandSet)
BY DEF To

\* Pumping one session keeps the types.
LEMMA PumpTyped ==
  ASSUME Typed, NEW s \in Sessions, NEW ss \in SessionState, NEW n \in Nat,
         NEW js, RegistryOK(js, n), Pump(s, ss, js),
         UNCHANGED <<current, early, stream, alive>>,
         answers' \in [Sessions -> Seq(AnswerSet)]
  PROVE  /\ session' \in [Sessions -> SessionState] /\ RegistryOK(jobs', n)
         /\ quit' \in BOOLEAN /\ ChannelsOK'
<1>1. session' \in [Sessions -> SessionState]
  BY PumpedTyped DEF Pump, Typed, TypeOK
<1>2. ASSUME NEW id PROVE RegistryOK(Start(js, id), n)
  BY DEF Start, SetState, RegistryOK, Job, JobStates, Queued
<1>3. RegistryOK(jobs', n)
  BY <1>2 DEF Pump, Started
<1>4. quit' \in BOOLEAN
  BY DEF Pump
<1>5. ChannelsOK'
  BY PumpedTyped, ToTyped, DeliverTyped DEF Pump, Typed
<1> QED
  BY <1>1, <1>3, <1>4, <1>5

\* So does changing one session without the pump.
LEMMA OnlyTyped ==
  ASSUME Typed, NEW s \in Sessions, NEW ss \in SessionState, Only(s, ss),
         UNCHANGED <<current, early, stream, alive>>,
         answers' \in [Sessions -> Seq(AnswerSet)]
  PROVE  /\ session' \in [Sessions -> SessionState] /\ RegistryOK(jobs', made)
         /\ quit' \in BOOLEAN /\ ChannelsOK'
BY DEF Only, Typed, TypeOK, ChannelsOK, RegistryOK

\* What a session queues.
Queues(s, ss, items) ==
  [ss EXCEPT !.cursor = IF Closes(items) THEN 0 ELSE @, !.queue = Behind(@, Numbered(items))]

\* Enqueueing keeps the types.
LEMMA QueuesTyped ==
  ASSUME Typed, NEW s \in Sessions, NEW ss \in SessionState, NEW items \in Seq(Item)
  PROVE  Queues(s, ss, items) \in SessionState
<1> DEFINE queue == ss.queue \o Numbered(items)
           cursor == IF Closes(items) THEN 0 ELSE ss.cursor
<1>1. made \in Nat
  BY DEF Typed, TypeOK
<1>2. queue \in Seq(Item) /\ cursor \in Nat
  BY <1>1, NumberedItems DEF SessionState
<1>3. Queues(s, ss, items) = [ss EXCEPT !.cursor = cursor, !.queue = queue]
  BY DEF Queues, Behind
<1> HIDE DEF queue, cursor
<1> QED
  BY <1>2, <1>3 DEF SessionState

\* So does the whole of it: the registry, the session, the pump.
LEMMA QueueTyped ==
  ASSUME Typed, NEW s \in Sessions, NEW ss \in SessionState, NEW items \in Seq(Item),
         Queue(s, ss, items), UNCHANGED Unworked,
         dialog' \in Dialogs, UNCHANGED <<quitWhenIdle, direct, stopped>>
  PROVE  Typed'
<1>1. /\ made \in Nat /\ Len(items) \in Nat /\ made' = made + Len(items)
      /\ RegistryOK(jobs, made)
  BY DEF Queue, Typed, TypeOK, RegistryOK
<1>2. RegistryOK(Enqueued(s, items), made')
  BY <1>1, EnqueuedQueues
<1>3. Pump(s, Queues(s, ss, items), Enqueued(s, items))
  BY DEF Queue, Queues
<1>4. Queues(s, ss, items) \in SessionState
  BY QueuesTyped
<1>5. answers' \in [Sessions -> Seq(AnswerSet)]
  BY DEF Typed, ChannelsOK, Unworked
<1>6. /\ session' \in [Sessions -> SessionState] /\ RegistryOK(jobs', made')
      /\ quit' \in BOOLEAN /\ ChannelsOK'
  BY <1>1, <1>2, <1>3, <1>4, <1>5, PumpTyped DEF Unworked
<1>7. made' \in Nat /\ 1..made \subseteq 1..made'
  BY <1>1
<1> QED
  BY <1>6, <1>7 DEF Typed, TypeOK, RegistryOK

\* So does enqueueing that may first ask for a confirm.
LEMMA EnqueueOnTyped ==
  ASSUME Typed, NEW s \in Sessions, NEW items \in Seq(Item), EnqueueOn(s, items),
         UNCHANGED Unworked, UNCHANGED <<quitWhenIdle, direct, stopped>>
  PROVE  Typed'
<1>1. session[s] \in SessionState
  BY DEF Typed, TypeOK
<1>2. CASE Asks(s, items)
  <2>1. [session[s] EXCEPT !.held = items] \in SessionState
    BY <1>1 DEF SessionState
  <2>2. dialog' \in Dialogs /\ UNCHANGED made /\ Only(s, [session[s] EXCEPT !.held = items])
    BY <1>2, DialogTyped DEF EnqueueOn
  <2>3. answers' \in [Sessions -> Seq(AnswerSet)]
    BY DEF Typed, ChannelsOK, Unworked
  <2>4. /\ session' \in [Sessions -> SessionState] /\ RegistryOK(jobs', made)
        /\ quit' \in BOOLEAN /\ ChannelsOK'
    BY <2>1, <2>2, <2>3, OnlyTyped DEF Unworked
  <2> QED
    BY <2>2, <2>4 DEF Typed, TypeOK, RegistryOK
<1>3. CASE ~Asks(s, items)
  <2>1. Queue(s, session[s], items) /\ dialog' \in Dialogs
    BY <1>3, DialogTyped DEF EnqueueOn
  <2> QED
    BY <1>1, <2>1, QueueTyped
<1> QED
  BY <1>2, <1>3

\* So does a command sent past the queue.
LEMMA SendDirectTyped ==
  ASSUME Typed, NEW s \in Sessions, NEW command \in CommandSet, SendDirect(s, command),
         UNCHANGED Unworked
  PROVE  ChannelsOK' /\ direct' \in Nat
<1>1. <<command>> \in Seq(CommandSet)
  OBVIOUS
<1>2. answers' \in [Sessions -> Seq(AnswerSet)]
  BY DEF Typed, ChannelsOK, Unworked
<1>3. ChannelsOK'
  BY <1>1, <1>2, ToTyped, DeliverTyped DEF SendDirect, Typed, Unworked
<1> QED
  BY <1>3 DEF SendDirect, Typed, TypeOK

\* What the user wants run is an item.
LEMMA WantedTyped ==
  ASSUME NEW sql \in Statements \cup {NoSql}, NEW how \in Hows, NEW tab \in Nat
  PROVE  Wanted(sql, how, tab) \in Item /\ <<Wanted(sql, how, tab)>> \in Seq(Item)
<1>1. Wanted(sql, how, tab) \in Item
  BY DEF Wanted, Item, NoJob
<1> QED
  BY <1>1

\* What the user runs is queued, or held until the user confirms it.
LEMMA RunsTyped ==
  ASSUME Typed, NEW s \in Sessions,
         Run(s) \/ LoadMore(s) \/ FetchAll(s) \/ ExportAll(s) \/ Release(s)
  PROVE  Typed'
<1>0. UNCHANGED Unworked /\ UNCHANGED <<quitWhenIdle, direct, stopped>> /\ session[s] \in SessionState
  BY DEF Run, LoadMore, FetchAll, ExportAll, Release, Acts, User, untouchedByUser, Unworked, Typed, TypeOK
<1>1. CASE Run(s)
  <2>1. PICK run \in Runs : EnqueueOn(s, [i \in DOMAIN run |-> Wanted(run[i], "query", 0)])
    BY <1>1 DEF Run
  <2>2. run \in Seq(Statements)
    BY QueryRunAssumption
  <2>3. \A i \in DOMAIN run : Wanted(run[i], "query", 0) \in Item
    BY <2>2, WantedTyped DEF Hows
  <2>4. [i \in DOMAIN run |-> Wanted(run[i], "query", 0)] \in Seq(Item)
    BY <2>2, <2>3
  <2> QED
    BY <1>0, <2>1, <2>4, EnqueueOnTyped
<1>2. CASE LoadMore(s)
  <2>1. PICK i \in DOMAIN session[s].tabs :
          EnqueueOn(s, <<Wanted(session[s].tabs[i].sql, "more", session[s].tabs[i].number)>>)
    BY <1>2 DEF LoadMore
  <2>2. session[s].tabs[i] \in Tab
    BY <1>0 DEF SessionState
  <2>3. <<Wanted(session[s].tabs[i].sql, "more", session[s].tabs[i].number)>> \in Seq(Item)
    BY <2>2, WantedTyped DEF Tab, Hows
  <2> QED
    BY <1>0, <2>1, <2>3, EnqueueOnTyped
<1>3. CASE FetchAll(s)
  <2>1. <<Wanted("select", "all", 0)>> \in Seq(Item)
    BY WantedTyped DEF Hows, Statements
  <2> QED
    BY <1>0, <1>3, <2>1, EnqueueOnTyped DEF FetchAll
<1>4. CASE ExportAll(s)
  <2>1. <<Wanted("select", "export", 0)>> \in Seq(Item)
    BY WantedTyped DEF Hows, Statements
  <2> QED
    BY <1>0, <1>4, <2>1, EnqueueOnTyped DEF ExportAll
<1>5. CASE Release(s)
  <2> DEFINE ss == [session[s] EXCEPT !.confirmed = TRUE, !.held = <<>>]
  <2>1. <<>> \in Seq(Item)
    OBVIOUS
  <2>3. ss \in SessionState /\ session[s].held \in Seq(Item)
    BY <1>0, <2>1 DEF SessionState
  <2>2. Queue(s, ss, session[s].held) /\ dialog' \in Dialogs
    BY <1>5, DialogTyped DEF Release
  <2> HIDE DEF ss
  <2> QED
    BY <1>0, <2>2, <2>3, QueueTyped
<1> QED
  BY <1>1, <1>2, <1>3, <1>4, <1>5

\* A queue without an item is one.
LEMMA WithoutTyped ==
  ASSUME NEW queue \in Seq(Item), NEW id
  PROVE  Without(queue, id) \in Seq(Item)
<1>1. DOMAIN queue = 1..Len(queue)
  OBVIOUS
<1> QED
  BY <1>1, WithoutThe DEF Without

\* Cancelling, dropping and asking to fetch it all keep the types.
LEMMA CancelsTyped ==
  ASSUME Typed, NEW s \in Sessions, CancelRunning(s) \/ DropQueued(s) \/ AskToFetchAll(s)
  PROVE  Typed'
<1>0. /\ UNCHANGED Unworked /\ session[s] \in SessionState /\ made \in Nat /\ RegistryOK(jobs, made)
      /\ UNCHANGED <<cmds, stopping>> /\ ChannelsOK' /\ dialog' \in Dialogs
  BY DialogTyped DEF CancelRunning, DropQueued, AskToFetchAll, Acts, User, untouchedByUser, Unworked, Typed,
     TypeOK, RegistryOK, ChannelsOK
<1>1. CASE CancelRunning(s)
  <2>1. Dropped(session[s]) \in SessionState
    BY <1>0, EndedTyped
  <2>2. RegistryOK(jobs', made)
    BY <1>0, <1>1, CancelCloses, RemoveQueuedCloses DEF CancelRunning
  <2>3. stopped' \subseteq 1..made
    BY <1>0, <1>1 DEF CancelRunning, Typed, TypeOK, RegistryOK, Running
  <2> QED
    BY <1>0, <1>1, <2>1, <2>2, <2>3 DEF CancelRunning, Typed, TypeOK, RegistryOK
<1>2. CASE DropQueued(s)
  <2>1. PICK id \in Queued(jobs) :
          /\ session' = [session EXCEPT ![s].queue = Without(@, id)]
          /\ jobs' = Cancel(jobs, id)
    BY <1>2 DEF DropQueued
  <2>2. RegistryOK(jobs', made)
    BY <1>0, <2>1, CancelCloses
  <2>3. Without(session[s].queue, id) \in Seq(Item)
    BY <1>0, WithoutTyped DEF SessionState
  <2>4. [session[s] EXCEPT !.queue = Without(session[s].queue, id)] \in SessionState
    BY <1>0, <2>3 DEF SessionState
  <2>5. session' \in [Sessions -> SessionState]
    BY <2>1, <2>4 DEF Typed, TypeOK
  <2> QED
    BY <1>0, <1>2, <2>2, <2>5 DEF DropQueued, Typed, TypeOK, RegistryOK
<1>3. CASE AskToFetchAll(s)
  BY <1>0, <1>3 DEF AskToFetchAll, Typed, TypeOK
<1> QED
  BY <1>1, <1>2, <1>3

\* Commands past the queue, and sessions that connect.
LEMMA DirectTyped ==
  ASSUME Typed, NEW s \in Sessions,
         ToggleAutocommit(s) \/ LoadSchema(s) \/ ExportFetched(s) \/ Reconnect(s) \/ OpenSession(s)
  PROVE  Typed'
<1>0. /\ UNCHANGED Unworked /\ session[s] \in SessionState
      /\ UNCHANGED <<jobs, made, dialog, quitWhenIdle, quit, stopped>>
  BY DEF ToggleAutocommit, LoadSchema, ExportFetched, Reconnect, OpenSession, Acts, User, untouchedByUser,
     Unworked, Typed, TypeOK
<1>1. CASE ToggleAutocommit(s)
  <2>1. Direct("SetAutocommit", ~session[s].autocommit) \in CommandSet
    BY <1>0, CommandTyped DEF CommandTypes, SessionState
  <2> QED
    BY <1>0, <1>1, <2>1, SendDirectTyped DEF ToggleAutocommit, Typed, TypeOK
<1>2. CASE LoadSchema(s)
  <2>1. Direct("LoadSchema", FALSE) \in CommandSet
    BY CommandTyped DEF CommandTypes
  <2> QED
    BY <1>0, <1>2, <2>1, SendDirectTyped DEF LoadSchema, Typed, TypeOK
<1>3. CASE ExportFetched(s)
  <2>1. Direct("ExportFetched", FALSE) \in CommandSet
    BY CommandTyped DEF CommandTypes
  <2> QED
    BY <1>0, <1>3, <2>1, SendDirectTyped DEF ExportFetched, Typed, TypeOK
<1>4. ASSUME Reconnect(s) \/ OpenSession(s) PROVE Typed'
  <2>1. PICK prod \in BOOLEAN :
          /\ \/ session' = [session EXCEPT ![s] =
                  [session[s] EXCEPT !.status = "connecting", !.prod = prod, !.inTx = FALSE,
                                     !.autocommit = TRUE, !.cursor = 0, !.cursorKept = FALSE]]
             \/ session' = [session EXCEPT ![s] = Fresh("connecting", prod)]
          /\ SendDirect(s, Direct("Connect", prod))
    BY <1>4 DEF Reconnect, OpenSession
  <2>2. Direct("Connect", prod) \in CommandSet
    BY CommandTyped DEF CommandTypes
  <2>3. ChannelsOK' /\ direct' \in Nat
    BY <1>0, <2>1, <2>2, SendDirectTyped
  <2>4. [session[s] EXCEPT !.status = "connecting", !.prod = prod, !.inTx = FALSE, !.autocommit = TRUE,
                           !.cursor = 0, !.cursorKept = FALSE] \in SessionState
    BY <1>0 DEF SessionState
  <2>5. Fresh("connecting", prod) \in SessionState
    BY FreshTyped
  <2>6. session' \in [Sessions -> SessionState]
    BY <2>1, <2>4, <2>5 DEF Typed, TypeOK
  <2> QED
    BY <1>0, <2>3, <2>6 DEF Typed, TypeOK
<1> QED
  BY <1>1, <1>2, <1>3, <1>4

\* A session that closes leaves its jobs ended, and a scratch if it was the last.
LEMMA CloseTyped ==
  ASSUME Typed, NEW s \in Sessions, CloseOrConfirm(s) \/ CloseConfirmed(s)
  PROVE  Typed'
<1>0. /\ UNCHANGED Unworked /\ made \in Nat /\ RegistryOK(jobs, made) /\ dialog' \in Dialogs
      /\ answers' \in [Sessions -> Seq(AnswerSet)]
  BY DialogTyped DEF CloseOrConfirm, CloseConfirmed, Acts, User, untouchedByUser, Unworked, Typed, TypeOK,
     RegistryOK, ChannelsOK
<1>1. CASE Close(s)
  <2>1. RegistryOK(jobs', made)
    BY <1>0, <1>1, CloseSessionCloses DEF Close
  <2>2. Fresh("closed", FALSE) \in SessionState /\ Fresh("connecting", FALSE) \in SessionState
    BY FreshTyped
  <2>3. session' \in [Sessions -> SessionState]
    BY <1>1, <2>2 DEF Close, Typed, TypeOK
  <2>4. ChannelsOK'
    <3>1. ASSUME NEW new \in Sessions, Deliver(To(new, <<Direct("Connect", FALSE)>>)) PROVE ChannelsOK'
      <4> DEFINE connect == Direct("Connect", FALSE)
      <4>1. connect \in CommandSet
        BY CommandTyped DEF CommandTypes
      <4> HIDE DEF connect
      <4>2. <<connect>> \in Seq(CommandSet)
        BY <4>1
      <4>3. \A t \in Sessions : To(new, <<connect>>)[t] \in Seq(CommandSet)
        BY <4>2, ToTyped
      <4> QED
        BY <1>0, <3>1, <4>3, DeliverTyped DEF Typed, Unworked, connect
    <3>2. CASE UNCHANGED <<cmds, stopping>>
      BY <1>0, <3>2 DEF Typed, ChannelsOK, Unworked
    <3> QED
      BY <1>1, <3>1, <3>2 DEF Close
  <2> QED
    BY <1>0, <1>1, <2>1, <2>3, <2>4 DEF Close, Typed, TypeOK, RegistryOK
<1>2. CASE UNCHANGED <<session, jobs, made, quitWhenIdle, quit, direct, stopped, cmds, stopping>>
  BY <1>0, <1>2 DEF Typed, TypeOK, ChannelsOK, Unworked
<1> QED
  BY <1>1, <1>2 DEF CloseOrConfirm, CloseConfirmed

\* An answer, whatever it is of, and whatever became of its statement.
LEMMA HearTyped ==
  ASSUME Typed, NEW s \in Sessions, Hear(s)
  PROVE  Typed'
<1> DEFINE ss == session[s]
           answer == Head(answers[s])
           item == ss.inFlight
<1>1. /\ ss \in SessionState /\ made \in Nat /\ RegistryOK(jobs, made)
      /\ answer \in AnswerSet
      /\ answers' \in [Sessions -> Seq(AnswerSet)]
      /\ UNCHANGED <<current, early, stream, alive>>
      /\ UNCHANGED <<made, dialog, quitWhenIdle, direct, stopped>>
  <2>1. answers[s] \in Seq(AnswerSet) /\ answers[s] # <<>>
    BY DEF Hear, Typed, ChannelsOK
  <2>2. answer \in AnswerSet /\ Tail(answers[s]) \in Seq(AnswerSet)
    BY <2>1, HeadAndTail
  <2> QED
    BY <2>2 DEF Hear, Typed, TypeOK, ChannelsOK, RegistryOK
<1> DEFINE Goal == /\ session' \in [Sessions -> SessionState] /\ RegistryOK(jobs', made)
                   /\ quit' \in BOOLEAN /\ ChannelsOK'
<1> SUFFICES Goal
  BY <1>1 DEF Typed, TypeOK, RegistryOK
<1>2. ASSUME NEW after \in SessionState, NEW js, RegistryOK(js, made), Pump(s, after, js) PROVE Goal
  BY <1>1, <1>2, PumpTyped
<1>3. ASSUME NEW after \in SessionState, Only(s, after) PROVE Goal
  BY <1>1, <1>3, OnlyTyped
<1>4. ASSUME NEW after \in SessionState, Skip(s, after) PROVE Goal
  BY <1>1, <1>2, <1>4 DEF Skip
<1>5. /\ item.job \in Nat /\ item.sql \in Statements \cup {NoSql}
      /\ answer.rows \in Rows /\ answer.more \in BOOLEAN
  BY <1>1 DEF SessionState, Item, NoItem, NoJob, AnswerSet
<1>6. ASSUME NEW id PROVE /\ RegistryOK(Finish(jobs, id), made) /\ RegistryOK(Fail(jobs, id), made)
                          /\ \A ids : RegistryOK(RemoveQueued(Fail(jobs, id), ids), made)
  BY <1>1, FinishOrFailCloses, RemoveQueuedCloses
<1> HIDE DEF Goal
<1>7. CASE s \in Live /\ Done(s, answer)
  <2> DEFINE ended == [Succeeded(ss) EXCEPT !.cursorKept = FALSE]
             shown == NewTab(ended, item.job, item.sql, answer.rows, answer.more, FALSE)
             after == [shown EXCEPT !.cursor = IF ss.cursorKept /\ answer.more THEN shown.tabsMade ELSE @]
  <2>1. ended \in SessionState
    BY <1>1, EndedTyped
  <2>2. CASE WasCancelled(s)
    BY <1>4, <1>7, <2>1, <2>2 DEF Done
  <2>3. CASE ~WasCancelled(s)
    <3>1. shown \in SessionState
      BY <1>5, <2>1, NewTabTyped
    <3>2. Pump(s, after, Finish(jobs, item.job))
      BY <1>7, <2>3 DEF Done
    <3> HIDE DEF shown
    <3>3. after \in SessionState
      BY <3>1 DEF SessionState
    <3> QED
      BY <1>2, <1>6, <3>2, <3>3
  <2> QED
    BY <2>2, <2>3
<1>8. CASE s \in Live /\ Failed(s, answer)
  <2> DEFINE ended == [Ended(ss) EXCEPT !.cursorKept = FALSE]
             shown == NewTab(ended, item.job, item.sql, answer.rows, FALSE, TRUE)
  <2>1. ended \in SessionState
    BY <1>1, EndedTyped
  <2>2. shown \in SessionState /\ Dropped(shown) \in SessionState
    BY <1>5, <2>1, NewTabTyped, EndedTyped
  <2>3. \/ Skip(s, ended) \/ Pump(s, shown, Fail(jobs, item.job))
        \/ Pump(s, Dropped(shown), RemoveQueued(Fail(jobs, item.job), QueuedIds(ss)))
    BY <1>8 DEF Failed
  <2> HIDE DEF shown, ended
  <2> QED
    BY <1>2, <1>4, <1>6, <2>1, <2>2, <2>3
<1>9. CASE s \in Live /\ MoreRows(s, answer)
  <2> DEFINE ended == IF answer.more THEN Ended(ss) ELSE Placeless(Ended(ss))
             longer == [i \in DOMAIN ended.tabs |->
                          IF ended.tabs[i].number = item.tab THEN Extended(ended.tabs[i], answer)
                          ELSE ended.tabs[i]]
             after == [ended EXCEPT !.tabs = longer]
  <2>1. ended \in SessionState /\ Placeless(ended) \in SessionState
    BY <1>1, EndedTyped
  <2>2. \/ Only(s, ss) \/ Skip(s, Placeless(ended)) \/ Pump(s, after, Finish(jobs, item.job))
        \/ Pump(s, after, Fail(jobs, item.job))
    BY <1>9 DEF MoreRows
  <2> HIDE DEF ended
  <2>3. longer \in Seq(Tab)
    <3>1. ended.tabs \in Seq(Tab)
      BY <2>1 DEF SessionState
    <3> QED
      BY <1>1, <3>1, ExtendedTyped
  <2> HIDE DEF longer
  <2>4. after \in SessionState
    BY <2>1, <2>3 DEF SessionState
  <2> HIDE DEF after
  <2> QED
    BY <1>1, <1>2, <1>3, <1>4, <1>6, <2>1, <2>2, <2>4
<1>10. CASE s \in Live /\ ExportEnded(s, answer)
  <2> DEFINE ended == IF answer.ok THEN Succeeded(ss) ELSE Ended(ss)
  <2>1. ended \in SessionState
    BY <1>1, EndedTyped
  <2>2. \/ Only(s, ss) \/ Pump(s, ended, jobs) \/ Pump(s, ended, Finish(jobs, answer.job))
        \/ Pump(s, ended, Fail(jobs, answer.job))
    BY <1>10 DEF ExportEnded
  <2> HIDE DEF ended
  <2> QED
    BY <1>1, <1>2, <1>3, <1>6, <2>1, <2>2
<1>11. CASE s \in Live /\ Only(s, Told(ss, answer))
  BY <1>1, <1>3, <1>11, ToldTyped
<1>12. CASE s \notin Live
  BY <1>1, <1>3, <1>12 DEF Hear
<1>13. CASE s \in Live
  BY <1>7, <1>8, <1>9, <1>10, <1>11, <1>13 DEF Hear
<1> QED
  BY <1>12, <1>13

\* The places of the sessions that roll back among them: one each, in their order.
Place(who, s) == Cardinality({t \in who : t <= s})

\* The sessions asked about stand in distinct places, counted from one.
LEMMA Places ==
  ASSUME NEW who \in SUBSET Sessions
  PROVE  /\ Cardinality(who) \in Nat
         /\ \A s \in who : Place(who, s) \in 1..Cardinality(who)
         /\ \A s, t \in who : Place(who, s) = Place(who, t) => s = t
<1>1. Sessions \subseteq Nat /\ IsFiniteSet(Sessions)
  BY QueryRunAssumption
<1>2. IsFiniteSet(who) /\ Cardinality(who) \in Nat
  BY <1>1, FS_Subset, FS_CardinalityType
<1> DEFINE upTo(s) == {t \in who : t <= s}
<1>3. ASSUME NEW s \in who
      PROVE  /\ IsFiniteSet(upTo(s)) /\ s \in upTo(s) /\ Cardinality(upTo(s)) \in Nat
             /\ Cardinality(upTo(s)) <= Cardinality(who) /\ Cardinality(upTo(s)) # 0
  <2>1. s \in upTo(s) /\ upTo(s) \subseteq who
    BY <1>1
  <2>2. IsFiniteSet(upTo(s)) /\ Cardinality(upTo(s)) <= Cardinality(who)
    BY <1>2, <2>1, FS_Subset
  <2> HIDE DEF upTo
  <2>3. Cardinality(upTo(s)) \in Nat /\ Cardinality(upTo(s)) # 0
    BY <2>1, <2>2, FS_CardinalityType, FS_EmptySet
  <2> QED
    BY <2>1, <2>2, <2>3
<1>4. ASSUME NEW s \in who, NEW t \in who, s < t
      PROVE  Cardinality(upTo(s)) # Cardinality(upTo(t))
  <2>1. upTo(s) \subseteq upTo(t) \ {t}
    <3>1. ASSUME NEW x \in who, x <= s PROVE x <= t /\ x # t
      <4>1. x \in Nat /\ s \in Nat /\ t \in Nat
        BY <1>1
      <4> QED
        BY <1>4, <3>1, <4>1
    <3> QED
      BY <3>1
  <2>2. IsFiniteSet(upTo(t)) /\ t \in upTo(t) /\ Cardinality(upTo(t)) \in Nat /\ Cardinality(upTo(s)) \in Nat
    BY <1>3
  <2> HIDE DEF upTo
  <2>3. Cardinality(upTo(t) \ {t}) = Cardinality(upTo(t)) - 1 /\ IsFiniteSet(upTo(t) \ {t})
    BY <2>2, FS_RemoveElement
  <2>4. Cardinality(upTo(s)) <= Cardinality(upTo(t) \ {t})
    BY <2>1, <2>3, FS_Subset
  <2> QED
    BY <2>2, <2>3, <2>4
<1>5. \A s \in who : Place(who, s) = Cardinality(upTo(s))
  BY DEF Place
<1> HIDE DEF upTo
<1>6. \A s, t \in who : s = t \/ s < t \/ t < s
  BY <1>1
<1>7. \A s \in who : Cardinality(upTo(s)) \in 1..Cardinality(who)
  BY <1>2, <1>3
<1> QED
  BY <1>2, <1>4, <1>5, <1>6, <1>7

\* So their rollbacks take distinct new job numbers.
LEMMA RollbackItem ==
  ASSUME Typed, NEW s \in dialog.who
  PROVE  /\ Rollback(s) \in Item
         /\ Rollback(s).job = made + Place(dialog.who, s)
         /\ Rollback(s).job \in (made + 1)..(made + Cardinality(dialog.who))
<1>1. dialog.who \in SUBSET Sessions /\ made \in Nat
  BY DEF Typed, TypeOK, Dialogs
<1>2. /\ Place(dialog.who, s) \in 1..Cardinality(dialog.who)
      /\ Cardinality(dialog.who) \in Nat
  BY <1>1, Places
<1>3. /\ made + Place(dialog.who, s) \in Nat
      /\ made + Place(dialog.who, s) \in (made + 1)..(made + Cardinality(dialog.who))
  BY <1>1, <1>2
<1>4. Rollback(s) = [Wanted("commit", "query", 0) EXCEPT !.job = made + Place(dialog.who, s)]
  BY DEF Rollback, JobId, Place
<1> DEFINE job == made + Place(dialog.who, s)
           item == [Wanted("commit", "query", 0) EXCEPT !.job = job]
<1> HIDE DEF job
<1>5. item \in Item /\ item.job = job
  BY <1>3, WantedTyped DEF Wanted, Item, Statements, Hows, job
<1> QED
  BY <1>3, <1>4, <1>5 DEF job

\* A session that rolls back before the quit is one.
LEMMA RollingBackTyped ==
  ASSUME Typed, NEW s \in dialog.who
  PROVE  RollingBack(s) \in SessionState
<1>1. session[s] \in SessionState
  BY DEF Typed, TypeOK, Dialogs
<1>2. Rollback(s) \in Item
  BY RollbackItem
<1> DEFINE queue == session[s].queue \o <<Rollback(s)>>
<1>3. queue \in Seq(Item) /\ <<>> \in Seq(Item)
  BY <1>1, <1>2 DEF SessionState
<1>4. RollingBack(s) = [session[s] EXCEPT !.held = <<>>, !.cursor = 0, !.queue = queue]
  BY DEF RollingBack, Behind
<1> HIDE DEF queue
<1> DEFINE after == [session[s] EXCEPT !.held = <<>>, !.cursor = 0, !.queue = queue]
<1>5. after \in SessionState
  BY <1>1, <1>3 DEF SessionState
<1> HIDE DEF after
<1> QED
  BY <1>4, <1>5 DEF after

\* Esc leaves every session with nothing held.
LEMMA NothingHeldTyped ==
  ASSUME Typed
  PROVE  \A s \in Sessions : NothingHeld[s] \in SessionState
<1>1. ASSUME NEW ss \in SessionState PROVE [ss EXCEPT !.held = <<>>] \in SessionState
  <2>1. <<>> \in Seq(Item)
    OBVIOUS
  <2> QED
    BY <1>1, <2>1 DEF SessionState
<1>2. \A s \in Sessions : session[s] \in SessionState /\ NothingHeld[s] = [session[s] EXCEPT !.held = <<>>]
  BY DEF Typed, TypeOK, NothingHeld
<1> QED
  BY <1>1, <1>2

\* Quitting with rollbacks keeps the types.
LEMMA QuitTyped ==
  ASSUME Typed, QuitRollingBack
  PROVE  Typed'
<1> DEFINE who == dialog.who
<1>1. /\ who \in SUBSET Sessions /\ made \in Nat /\ RegistryOK(jobs, made) /\ Cardinality(who) \in Nat
      /\ UNCHANGED Unworked /\ answers' \in [Sessions -> Seq(AnswerSet)]
  BY Places DEF Typed, TypeOK, Dialogs, RegistryOK, ChannelsOK, QuitRollingBack, User, untouchedByUser, Unworked
<1>2. made' = made + Cardinality(who) /\ made' \in Nat /\ 1..made \subseteq 1..made'
  BY <1>1 DEF QuitRollingBack
<1>3. <<>> \in Seq(Item) /\ <<>> \in Seq(CommandSet)
  OBVIOUS
<1>4. session' \in [Sessions -> SessionState]
  <2>1. \A s \in who : Pumped(RollingBack(s)) \in SessionState
    BY RollingBackTyped, PumpedTyped
  <2>2. \A s \in Sessions : NothingHeld[s] \in SessionState
    BY NothingHeldTyped
  <2> QED
    BY <2>1, <2>2 DEF QuitRollingBack
<1>5. RegistryOK(jobs', made')
  <2>1. DOMAIN jobs' = DOMAIN jobs \cup {Rollback(s).job : s \in who}
    BY DEF QuitRollingBack
  <2>2. \A s \in who : Rollback(s).job \in 1..made'
    BY <1>1, <1>2, RollbackItem
  <2>3. ASSUME NEW id \in DOMAIN jobs PROVE jobs'[id] \in Job
    BY <1>1, <2>1 DEF QuitRollingBack, RegistryOK
  <2>4. ASSUME NEW id \in DOMAIN jobs', id \notin DOMAIN jobs PROVE jobs'[id] \in Job
    <3> DEFINE chosen == CHOOSE t \in who : Rollback(t).job = id
    <3>1. chosen \in who
      BY <2>1, <2>4
    <3>2. jobs'[id] = [session |-> chosen, kind |-> "Query",
                       state |-> IF Sends(RollingBack(chosen)) THEN "running" ELSE "queued"]
      BY <2>1, <2>4 DEF QuitRollingBack
    <3> HIDE DEF chosen
    <3> QED
      BY <1>1, <3>1, <3>2 DEF Job, JobKinds, JobStates
  <2> QED
    BY <1>1, <1>2, <2>1, <2>2, <2>3, <2>4 DEF RegistryOK
<1>6. ChannelsOK'
  <2> DEFINE out == [s \in Sessions |-> IF s \in who THEN Sent(RollingBack(s)) ELSE <<>>]
  <2>1. \A s \in who : Sent(RollingBack(s)) \in Seq(CommandSet)
    BY RollingBackTyped, PumpedTyped
  <2>2. \A s \in Sessions : out[s] \in Seq(CommandSet)
    BY <1>3, <2>1
  <2>3. Deliver(out)
    BY DEF QuitRollingBack
  <2> HIDE DEF out
  <2> QED
    BY <1>1, <2>2, <2>3, DeliverTyped DEF Typed, Unworked
<1> QED
  BY <1>1, <1>2, <1>4, <1>5, <1>6, DialogTyped DEF QuitRollingBack, Typed, TypeOK, RegistryOK

\* So do the actions of no session, and those of the workers.
LEMMA OthersTyped ==
  ASSUME Typed, Dismiss \/ Quit \/ CancelArrives \/ \E s \in Sessions : WorkerStopped(s) \/ Work(s)
  PROVE  Typed'
<1>1. CASE Dismiss
  <2>1. \A s \in Sessions : NothingHeld[s] \in SessionState
    BY NothingHeldTyped
  <2>2. session' \in [Sessions -> SessionState]
    BY <1>1, <2>1 DEF Dismiss, NothingHeld
  <2> QED
    BY <1>1, <2>2, DialogTyped DEF Dismiss, User, untouchedByUser, Typed, TypeOK, ChannelsOK
<1>2. CASE Quit
  <2>1. InTransaction \in SUBSET Sessions
    BY DEF InTransaction, Live
  <2>2. dialog' \in Dialogs /\ quit' \in BOOLEAN
    BY <1>2, <2>1, DialogTyped DEF Quit, Typed, TypeOK
  <2> QED
    BY <1>2, <2>2 DEF Quit, User, untouchedByUser, Typed, TypeOK, ChannelsOK
<1>3. CASE CancelArrives
  BY <1>3 DEF CancelArrives, CancelFires, appVars, Typed, TypeOK, ChannelsOK
<1>4. ASSUME NEW s \in Sessions, WorkerStopped(s) PROVE Typed'
  <2>1. RegistryOK(jobs, made) /\ made \in Nat
    BY DEF Typed, TypeOK, RegistryOK
  <2>2. RegistryOK(jobs', made)
    BY <1>4, <2>1, CloseSessionCloses DEF WorkerStopped
  <2>3. session' \in [Sessions -> SessionState]
    BY <1>4, EndedTyped DEF WorkerStopped, Typed, TypeOK
  <2>4. ChannelsOK'
    BY <1>4 DEF WorkerStopped, Typed, ChannelsOK
  <2> QED
    BY <1>4, <2>2, <2>3, <2>4 DEF WorkerStopped, Typed, TypeOK, RegistryOK
<1>5. ASSUME NEW s \in Sessions, Work(s) PROVE Typed'
  <2>1. ChannelsOK'
    BY <1>5, WorkerTyped DEF Work, Typed
  <2> QED
    BY <1>5, <2>1 DEF Work, appVars, Typed, TypeOK
<1> QED
  BY <1>1, <1>2, <1>3, <1>4, <1>5

\* The types hold when the app starts, and every step keeps them.
LEMMA InitTyped == Init => Typed
<1> SUFFICES ASSUME Init PROVE Typed
  OBVIOUS
<1>1. FirstOpen \subseteq Sessions /\ FirstProd \subseteq FirstOpen
  BY QueryRunAssumption
<1>2. session \in [Sessions -> SessionState]
  <2>1. \A s \in Sessions : (s \in FirstProd) \in BOOLEAN
    OBVIOUS
  <2>2. Fresh("unused", FALSE) \in SessionState /\ \A prod \in BOOLEAN : Fresh("open", prod) \in SessionState
    BY FreshTyped
  <2>3. \A s \in Sessions : Fresh("open", s \in FirstProd) \in SessionState
    BY <2>1, <2>2
  <2> QED
    BY <2>2, <2>3 DEF Init
<1>3. ChannelsOK
  <2>1. <<>> \in Seq(CommandSet) /\ <<>> \in Seq(AnswerSet)
    OBVIOUS
  <2>2. NoStream \in [job : Nat, read : Nat]
    BY DEF NoStream, NoJob
  <2> QED
    BY <2>1, <2>2, CommandTyped DEF Init, WorkerInit, ChannelsOK
<1> QED
  BY <1>2, <1>3, DialogTyped DEF Init, NoJobs, Typed, TypeOK

\* The step.
LEMMA NextTyped == Typed /\ [Next]_vars => Typed'
<1> SUFFICES ASSUME Typed, [Next]_vars PROVE Typed'
  OBVIOUS
<1>1. ASSUME NEW s \in Sessions, UserActs(s) PROVE Typed'
  BY <1>1, RunsTyped, CancelsTyped, DirectTyped, CloseTyped DEF UserActs
<1>2. CASE UNCHANGED vars
  BY <1>2 DEF vars, workerVars, appVars, Typed, TypeOK, ChannelsOK
<1> QED
  BY <1>1, <1>2, HearTyped, QuitTyped, OthersTyped DEF Next

\* Every variable of the app's side and of the channels is at all times what the
\* code declares it to be: no sequence of events, answers and failures leaves a
\* session, a job, a tab or a command half made.
THEOREM TypesHold == Spec => []TypeOK
<1>1. Typed => TypeOK
  BY DEF Typed
<1> QED
  BY <1>1, InitTyped, NextTyped, PTL DEF Spec

(***************************************************************************)
(* The drawer.                                                             *)
(***************************************************************************)
-----------------------------------------------------------------------------
(* The drawer and the sessions. *)

\* Session s, its state ss, agrees with the registry js, when the jobs in st
\* were cancelled while they ran and n is the newest: what it queues is queued,
\* in order and behind what is in flight, and that runs unless it was
\* cancelled.  No other session has it open.
Ordered(ss) ==
  /\ Ascending(ss.queue)
  /\ \A i \in DOMAIN ss.queue : ss.inFlight.job < ss.queue[i].job

Coherent(s, ss, js, st, n) ==
  /\ QueuedOf(js, s) = QueuedIds(ss)
  /\ RunningOf(js, s) = {ss.inFlight.job} \ (st \cup {NoJob})
  /\ QueuedIds(ss) \cap st = {}
  /\ Ordered(ss)
  /\ ss.inFlight.job <= n
  /\ \A t \in Sessions \ {s} : ss.inFlight.job \notin QueuedOf(js, t) \cup RunningOf(js, t)

\* With nothing in flight nothing waits.
Settled(ss) == ss.inFlight = NoItem => ss.queue = <<>>

\* The inductive invariant: between two events every session agrees with the
\* registry and nothing is left unsent, a session that is not there has nothing
\* in flight, and a confirm is about sessions that are.
SessionsAgree ==
  \A s \in Sessions : /\ Coherent(s, session[s], jobs, stopped, made)
                      /\ Settled(session[s])
                      /\ s \notin Live => session[s].inFlight = NoItem

Agreed == SessionsAgree /\ dialog.who \subseteq Live

\* js has turned into after, in what session s has open only: it has closed some
\* of its jobs, and opened some after the n-th.
Moves(s, js, after, n) ==
  /\ \A t \in Sessions \ {s} : QueuedOf(after, t) = QueuedOf(js, t) /\ RunningOf(after, t) = RunningOf(js, t)
  /\ \A id \in QueuedOf(after, s) \cup RunningOf(after, s) :
       id \in QueuedOf(js, s) \cup RunningOf(js, s) \/ (id \in Nat /\ n < id)

\* What one session moves leaves the others in agreement.
LEMMA OthersCohere ==
  ASSUME NEW js, NEW after, NEW n \in Nat, NEW m \in Nat, n <= m, NEW st,
         NEW s \in Sessions, Moves(s, js, after, n),
         NEW t \in Sessions \ {s}, NEW ss \in SessionState, Coherent(t, ss, js, st, n)
  PROVE  Coherent(t, ss, after, st, m)
<1>1. ss.inFlight.job \in Nat
  BY DEF SessionState, Item, NoItem, NoJob
<1>2. ss.inFlight.job <= m
  BY <1>1 DEF Coherent
<1>3. QueuedOf(after, t) = QueuedOf(js, t) /\ RunningOf(after, t) = RunningOf(js, t)
  BY DEF Moves
<1>4. ASSUME NEW u \in Sessions \ {t} PROVE ss.inFlight.job \notin QueuedOf(after, u) \cup RunningOf(after, u)
  <2>1. CASE u = s
    <3>1. ss.inFlight.job \notin QueuedOf(js, s) \cup RunningOf(js, s) /\ ~(n < ss.inFlight.job)
      BY <1>1 DEF Coherent
    <3> QED
      BY <2>1, <3>1 DEF Moves
  <2>2. CASE u # s
    BY <2>2 DEF Moves, Coherent
  <2> QED
    BY <2>1, <2>2
<1> QED
  BY <1>2, <1>3, <1>4 DEF Coherent

\* The first of what waits, and the rest of it.
LEMMA HeadOfOrdered ==
  ASSUME NEW ss \in SessionState, ss.queue # <<>>, Ordered(ss)
  PROVE  /\ Head(ss.queue) \in Item /\ Head(ss.queue).job \in QueuedIds(ss)
         /\ {Tail(ss.queue)[i].job : i \in DOMAIN Tail(ss.queue)} = QueuedIds(ss) \ {Head(ss.queue).job}
         /\ Ascending(Tail(ss.queue))
         /\ \A i \in DOMAIN Tail(ss.queue) : Head(ss.queue).job < Tail(ss.queue)[i].job
<1> DEFINE q == ss.queue
           r == Tail(q)
<1>1. /\ q \in Seq(Item) /\ q # <<>> /\ DOMAIN q = 1..Len(q) /\ Len(q) \in Nat
      /\ Head(q) = q[1] /\ Head(q) \in Item /\ 1 \in DOMAIN q
      /\ DOMAIN r = 1..(Len(q) - 1)
      /\ \A i \in DOMAIN r : i + 1 \in DOMAIN q /\ r[i] = q[i + 1]
  BY HeadAndTail DEF SessionState
<1>2. \A i \in DOMAIN q : q[i].job \in Nat
  <2>1. \A i \in DOMAIN q : q[i] \in Item
    BY <1>1
  <2> QED
    BY <2>1 DEF Item
<1>3. \A i, j \in DOMAIN q : i < j => q[i].job < q[j].job
  BY DEF Ordered, Ascending
<1> HIDE DEF q, r
<1>4. \A i \in DOMAIN q : i # 1 => i - 1 \in DOMAIN r /\ r[i - 1] = q[i]
  BY <1>1
<1>5. \A i \in DOMAIN r : q[1].job < r[i].job
  BY <1>1, <1>3
<1>6. Ascending(r)
  <2>1. ASSUME NEW i \in DOMAIN r, NEW j \in DOMAIN r, i < j PROVE r[i].job < r[j].job
    <3>1. i + 1 \in DOMAIN q /\ j + 1 \in DOMAIN q /\ i + 1 < j + 1
      BY <1>1, <2>1
    <3> QED
      BY <1>1, <1>3, <3>1
  <2> QED
    BY <2>1 DEF Ascending
<1>7. {r[i].job : i \in DOMAIN r} = {q[i].job : i \in DOMAIN q} \ {q[1].job}
  <2>1. ASSUME NEW i \in DOMAIN r PROVE r[i].job \in {q[k].job : k \in DOMAIN q} \ {q[1].job}
    <3>1. i + 1 \in DOMAIN q /\ r[i] = q[i + 1] /\ q[1].job < r[i].job /\ q[1].job \in Nat /\ r[i].job \in Nat
      BY <1>1, <1>2, <1>5
    <3>2. q[1].job # r[i].job
      BY <3>1
    <3> QED
      BY <3>1, <3>2
  <2>2. ASSUME NEW i \in DOMAIN q, q[i].job # q[1].job PROVE q[i].job \in {r[k].job : k \in DOMAIN r}
    BY <1>4, <2>2
  <2> QED
    BY <2>1, <2>2
<1> QED
  BY <1>1, <1>5, <1>6, <1>7 DEF q, r, QueuedIds

\* The heart of it.  A handler that leaves its session in agreement ends with
\* everything in agreement once it has pumped, and nothing left unsent.
LEMMA PumpAgrees ==
  ASSUME NEW n \in Nat, NEW js, RegistryOK(js, n), NEW st, NEW s \in Sessions, NEW ss \in SessionState,
         NEW others, \A t \in Sessions \ {s} : Coherent(t, others[t], js, st, n) /\ others[t] \in SessionState,
         Coherent(s, ss, js, st, n)
  PROVE  /\ RegistryOK(Started(js, ss), n)
         /\ Coherent(s, Pumped(ss), Started(js, ss), st, n)
         /\ Settled(Pumped(ss))
         /\ \A t \in Sessions \ {s} : Coherent(t, others[t], Started(js, ss), st, n)
         /\ Sends(ss) => Head(ss.queue).job \in Running(Started(js, ss))
<1>1. CASE ~Sends(ss)
  BY <1>1 DEF Sends, Pumped, Started, Settled
<1>2. CASE Sends(ss)
  <2> DEFINE id == Head(ss.queue).job
             after == Start(js, id)
             rest == Tail(ss.queue)
             later == {rest[i].job : i \in DOMAIN rest}
  <2>1. ss.queue # <<>> /\ ss.inFlight = NoItem /\ ss.queue \in Seq(Item)
    BY <1>2 DEF Sends, SessionState
  <2>2. /\ id \in QueuedIds(ss) /\ later = QueuedIds(ss) \ {id} /\ Ascending(rest)
        /\ Head(ss.queue) \in Item /\ rest \in Seq(Item)
        /\ \A i \in DOMAIN rest : id < rest[i].job
    BY <2>1, HeadOfOrdered, HeadAndTail DEF Coherent
  <2>3. QueuedOf(js, s) = QueuedIds(ss) /\ RunningOf(js, s) = {} /\ id \notin st
    BY <2>1, <2>2 DEF Coherent, NoItem
  <2>4. id \in 1..n /\ js[id].session = s /\ js[id].state = "queued"
    BY <2>2, <2>3 DEF QueuedOf, Queued, JobsOf, RegistryOK
  <2>5. /\ RegistryOK(after, n)
        /\ QueuedOf(after, s) = QueuedOf(js, s) \ {id} /\ RunningOf(after, s) = {id}
        /\ \A t \in Sessions \ {s} : QueuedOf(after, t) = QueuedOf(js, t) /\ RunningOf(after, t) = RunningOf(js, t)
    BY <2>2, <2>3, StartRuns
  <2>6. Moves(s, js, after, n)
    BY <2>2, <2>3, <2>5 DEF Moves
  <2>7. Started(js, ss) = after
    BY <1>2 DEF Started
  <2>8. Pumped(ss).inFlight = Head(ss.queue) /\ Pumped(ss).queue = rest
    BY <1>2 DEF Pumped, SessionState
  <2>9. Head(ss.queue) # NoItem
    <3>1. NoItem.how \notin Hows /\ Head(ss.queue).how \in Hows
      BY <2>2 DEF NoItem, Hows, Item
    <3> QED
      BY <3>1
  <2> HIDE DEF after, rest
  <2>10. \A t \in Sessions \ {s} : Coherent(t, others[t], after, st, n)
    <3>1. n <= n
      OBVIOUS
    <3> QED
      BY <2>6, <3>1, OthersCohere
  <2>11. \A t \in Sessions \ {s} : id \notin QueuedOf(after, t) \cup RunningOf(after, t)
    BY <2>4, <2>5 DEF QueuedOf, RunningOf, JobsOf
  <2> DEFINE sent == Pumped(ss)
  <2>12. QueuedIds(sent) = later
    BY <2>8 DEF QueuedIds
  <2>13. Ordered(sent)
    BY <2>2, <2>8 DEF Ordered
  <2>14. sent.inFlight.job = id
    BY <2>8
  <2>15. id <= n /\ id # NoJob
    BY <2>4 DEF NoJob
  <2>16. QueuedIds(ss) \cap st = {}
    BY DEF Coherent
  <2> HIDE DEF sent, later, id
  <2>17. Coherent(s, sent, after, st, n)
    BY <2>2, <2>3, <2>5, <2>11, <2>12, <2>13, <2>14, <2>15, <2>16 DEF Coherent
  <2>18. Settled(sent)
    BY <2>8, <2>9 DEF Settled, sent
  <2>19. id \in Running(after)
    BY <2>5 DEF RunningOf
  <2> QED
    BY <2>5, <2>7, <2>10, <2>17, <2>18, <2>19 DEF sent, id
<1> QED
  BY <1>1, <1>2

\* No job is open for two sessions, nor both waiting and running.
LEMMA OpenOnce ==
  ASSUME NEW js, NEW s, NEW t, s # t
  PROVE  /\ (QueuedOf(js, s) \cup RunningOf(js, s)) \cap (QueuedOf(js, t) \cup RunningOf(js, t)) = {}
         /\ QueuedOf(js, s) \cap RunningOf(js, s) = {}
BY DEF QueuedOf, RunningOf, Queued, Running, JobsOf

\* Agreement is about what a session has in flight and what waits.
LEMMA CoherentAlike ==
  ASSUME NEW s, NEW a, NEW b, b.queue = a.queue, b.inFlight = a.inFlight,
         NEW js, NEW st, NEW n, Coherent(s, a, js, st, n)
  PROVE  Coherent(s, b, js, st, n)
BY DEF Coherent, QueuedIds, Ordered

\* A step that leaves the registry and every session's work alone.
LEMMA SameWork ==
  ASSUME SessionsAgree, UNCHANGED <<jobs, made, stopped>>,
         \A t \in Sessions : session'[t].queue = session[t].queue /\ session'[t].inFlight = session[t].inFlight,
         Live \subseteq Live'
  PROVE  SessionsAgree'
<1>1. ASSUME NEW t \in Sessions
      PROVE  /\ Coherent(t, session'[t], jobs, stopped, made) /\ Settled(session'[t])
             /\ t \notin Live' => session'[t].inFlight = NoItem
  <2>1. Coherent(t, session[t], jobs, stopped, made) /\ Settled(session[t])
    BY DEF SessionsAgree
  <2>2. Coherent(t, session'[t], jobs, stopped, made)
    BY <2>1, CoherentAlike
  <2> QED
    BY <2>1, <2>2 DEF Settled, SessionsAgree
<1> QED
  BY <1>1 DEF SessionsAgree

\* What this step gives the workers to run is running.
SentRun ==
  \A s \in Sessions :
    \A i \in (DOMAIN cmds'[s]) \ (DOMAIN cmds[s]) :
      cmds'[s][i].type \in StatementTypes => cmds'[s][i].job \in Running(jobs')

\* A step that sends each session nothing, or one statement the drawer shows
\* running, sends no other.
LEMMA Delivered ==
  ASSUME Typed, NEW out, Deliver(out),
         \A s \in Sessions :
           \/ out[s] = <<>>
           \/ \E c \in CommandSet : out[s] = <<c>> /\ (c.type \in StatementTypes => c.job \in Running(jobs'))
  PROVE  SentRun
<1>1. ASSUME NEW s \in Sessions, NEW i \in (DOMAIN cmds'[s]) \ (DOMAIN cmds[s])
      PROVE  cmds'[s][i].type \in StatementTypes => cmds'[s][i].job \in Running(jobs')
  <2>1. cmds[s] \in Seq(CommandSet) /\ (cmds'[s] = cmds[s] \/ cmds'[s] = cmds[s] \o out[s])
    BY DEF Typed, ChannelsOK, Deliver
  <2>2. cmds'[s] = cmds[s] \o out[s] /\ out[s] # <<>>
    <3>1. cmds'[s] # cmds[s]
      BY <1>1
    <3>2. cmds[s] \o <<>> = cmds[s]
      BY <2>1
    <3> QED
      BY <2>1, <3>1, <3>2
  <2>5. \/ out[s] = <<>>
        \/ \E c \in CommandSet : out[s] = <<c>> /\ (c.type \in StatementTypes => c.job \in Running(jobs'))
    OBVIOUS
  <2>3. PICK c \in CommandSet : out[s] = <<c>> /\ (c.type \in StatementTypes => c.job \in Running(jobs'))
    BY <2>2, <2>5
  <2>4. i = Len(cmds[s]) + 1 /\ (cmds[s] \o <<c>>)[i] = c
    BY <1>1, <2>1, <2>2, <2>3
  <2> QED
    BY <2>2, <2>3, <2>4
<1> QED
  BY <1>1 DEF SentRun

\* A live session that pumps, its handler having moved its own jobs alone.
LEMMA PumpKeeps ==
  ASSUME Typed, SessionsAgree, NEW s \in Live, NEW ss \in SessionState, ss.status = session[s].status,
         NEW js, made' \in Nat, made <= made', RegistryOK(js, made'), Moves(s, jobs, js, made),
         Coherent(s, ss, js, stopped, made'), Pump(s, ss, js), UNCHANGED stopped
  PROVE  SessionsAgree' /\ Live' = Live /\ SentRun
<1> DEFINE n == made'
<1>1. /\ n \in Nat /\ made \in Nat /\ made <= n /\ s \in Sessions
      /\ session \in [Sessions -> SessionState]
      /\ session' = [session EXCEPT ![s] = Pumped(ss)] /\ jobs' = Started(js, ss)
  BY DEF Typed, TypeOK, Pump, Live
<1> HIDE DEF n
<1>2. \A t \in Sessions \ {s} : Coherent(t, session[t], js, stopped, n) /\ session[t] \in SessionState
  BY <1>1, OthersCohere DEF SessionsAgree
<1>3. /\ Coherent(s, Pumped(ss), jobs', stopped, n) /\ Settled(Pumped(ss))
      /\ \A t \in Sessions \ {s} : Coherent(t, session[t], jobs', stopped, n)
  BY <1>1, <1>2, PumpAgrees DEF n
<1>4. Pumped(ss).status = ss.status
  BY DEF Pumped, SessionState
<1>5. Live' = Live
  BY <1>1, <1>4 DEF Live
<1>6. \A t \in Sessions : Coherent(t, session'[t], jobs', stopped', made')
  BY <1>1, <1>3 DEF n
<1>7. \A t \in Sessions : Settled(session'[t]) /\ (t \notin Live' => session'[t].inFlight = NoItem)
  BY <1>1, <1>3, <1>5 DEF SessionsAgree
<1>8. SentRun
  <2> DEFINE out == To(s, Sent(ss))
  <2>1. \A t \in Sessions : out[t] = IF t = s THEN Sent(ss) ELSE <<>>
    BY DEF To
  <2>2. CASE ~Sends(ss)
    <3>1. \A t \in Sessions : out[t] = <<>>
      BY <2>1, <2>2 DEF Sent
    <3> HIDE DEF out
    <3> QED
      BY <3>1, Delivered DEF Pump, out
  <2>3. CASE Sends(ss)
    <3> DEFINE c == CommandOf(Head(ss.queue))
    <3>1. Head(ss.queue) \in Item
      BY <2>3, HeadAndTail DEF Sends, SessionState
    <3>2. c \in CommandSet /\ c.job = Head(ss.queue).job
      BY <3>1, CommandTyped DEF CommandOf, Statement
    <3>3. c.job \in Running(jobs')
      BY <1>1, <1>2, <2>3, <3>2, PumpAgrees DEF n
    <3>4. Sent(ss) = <<c>>
      BY <2>3 DEF Sent
    <3> HIDE DEF c, out
    <3> QED
      BY <2>1, <3>2, <3>3, <3>4, Delivered DEF Pump, out
  <2> QED
    BY <2>2, <2>3
<1> QED
  BY <1>5, <1>6, <1>7, <1>8 DEF SessionsAgree

\* What is queued goes behind what waits, with newer ids.
LEMMA QueuesCohere ==
  ASSUME Typed, NEW s \in Sessions, NEW ss \in SessionState, NEW items \in Seq(Item),
         NEW st, st \subseteq 1..made, Coherent(s, ss, jobs, st, made)
  PROVE  Coherent(s, Queues(s, ss, items), Enqueued(s, items), st, made + Len(items))
<1> DEFINE n == Len(items)
           numbered == Numbered(items)
           q == ss.queue
           after == Queues(s, ss, items)
           js == Enqueued(s, items)
<1>1. /\ made \in Nat /\ n \in Nat /\ RegistryOK(jobs, made) /\ q \in Seq(Item)
      /\ ss.inFlight.job \in Nat
  <2>1. made \in Nat /\ RegistryOK(jobs, made)
    BY DEF Typed, TypeOK, RegistryOK
  <2>2. q \in Seq(Item) /\ ss.inFlight \in Item \cup {NoItem}
    BY DEF SessionState
  <2>3. ss.inFlight.job \in Nat
    BY <2>2 DEF Item, NoItem, NoJob
  <2> QED
    BY <2>1, <2>2, <2>3
<1>2. /\ numbered \in Seq(Item) /\ Len(numbered) = n
      /\ \A i \in 1..n : numbered[i].job = made + i
  BY <1>1, NumberedItems
<1>3. after.queue = q \o numbered /\ after.inFlight = ss.inFlight
  BY DEF Queues, Behind, SessionState
<1>4. /\ QueuedOf(js, s) = QueuedOf(jobs, s) \cup (made + 1)..(made + n)
      /\ RunningOf(js, s) = RunningOf(jobs, s)
      /\ \A t \in Sessions \ {s} : QueuedOf(js, t) = QueuedOf(jobs, t) /\ RunningOf(js, t) = RunningOf(jobs, t)
  BY <1>1, EnqueuedQueues
<1>5. /\ DOMAIN (q \o numbered) = 1..(Len(q) + n) /\ Len(q) \in Nat /\ DOMAIN q = 1..Len(q)
      /\ \A i \in 1..Len(q) : (q \o numbered)[i] = q[i]
      /\ \A i \in 1..n : (q \o numbered)[Len(q) + i] = numbered[i]
  <2> HIDE DEF q, numbered, n
  <2>1. q \in Seq(Item) /\ numbered \in Seq(Item) /\ Len(numbered) = n
    BY <1>1, <1>2
  <2>2. Len(q) \in Nat /\ DOMAIN q = 1..Len(q)
    BY <2>1
  <2>3. /\ DOMAIN (q \o numbered) = 1..(Len(q) + Len(numbered))
        /\ \A i \in 1..Len(q) : (q \o numbered)[i] = q[i]
        /\ \A i \in 1..Len(numbered) : (q \o numbered)[Len(q) + i] = numbered[i]
    BY <2>1, Joined
  <2> QED
    BY <2>1, <2>2, <2>3
<1>6. \A i \in 1..Len(q) : q[i].job \in 1..made
  <2>1. QueuedIds(ss) \subseteq 1..made
    BY <1>1 DEF Coherent, RegistryOK, QueuedOf, Queued
  <2> QED
    BY <1>5, <2>1 DEF QueuedIds
<1> DEFINE joined == q \o numbered
<1>7. /\ \A i \in 1..Len(q) : joined[i].job = q[i].job
      /\ \A i \in (Len(q) + 1)..(Len(q) + n) : joined[i].job = made + (i - Len(q))
  <2>1. ASSUME NEW i \in (Len(q) + 1)..(Len(q) + n) PROVE joined[i].job = made + (i - Len(q))
    <3>1. i - Len(q) \in 1..n /\ Len(q) + (i - Len(q)) = i
      BY <1>1, <1>5
    <3>2. joined[Len(q) + (i - Len(q))] = numbered[i - Len(q)]
      BY <1>5, <3>1
    <3> QED
      BY <1>2, <3>1, <3>2
  <2> QED
    BY <1>5, <2>1
<1>8. DOMAIN joined = 1..(Len(q) + n)
  BY <1>5
<1>9. \A i, j \in 1..Len(q) : i < j => q[i].job < q[j].job
  BY <1>5 DEF Coherent, Ordered, Ascending
<1>10. \A i \in 1..Len(q) : ss.inFlight.job < q[i].job
  BY <1>5 DEF Coherent, Ordered
<1>11. ss.inFlight.job <= made
  BY DEF Coherent
<1> HIDE DEF joined, numbered, q, after, js, n
<1>12. Ascending(joined)
  <2>1. ASSUME NEW i \in 1..(Len(q) + n), NEW j \in 1..(Len(q) + n), i < j
        PROVE  joined[i].job < joined[j].job
    <3>1. CASE j \in 1..Len(q)
      <4>1. i \in 1..Len(q)
        BY <1>1, <1>5, <2>1, <3>1
      <4> QED
        BY <1>7, <1>9, <2>1, <3>1, <4>1
    <3>2. CASE j \notin 1..Len(q) /\ i \in 1..Len(q)
      <4>1. j \in (Len(q) + 1)..(Len(q) + n)
        BY <1>1, <1>5, <2>1, <3>2
      <4>2. joined[j].job = made + (j - Len(q)) /\ joined[i].job = q[i].job /\ q[i].job \in 1..made
        BY <1>6, <1>7, <3>2, <4>1
      <4> QED
        BY <1>1, <1>5, <4>1, <4>2
    <3>3. CASE i \notin 1..Len(q)
      <4>1. i \in (Len(q) + 1)..(Len(q) + n) /\ j \in (Len(q) + 1)..(Len(q) + n)
        BY <1>1, <1>5, <2>1, <3>3
      <4>2. joined[i].job = made + (i - Len(q)) /\ joined[j].job = made + (j - Len(q))
        BY <1>7, <4>1
      <4> QED
        BY <1>1, <1>5, <2>1, <4>1, <4>2
    <3> QED
      BY <3>1, <3>2, <3>3
  <2> QED
    BY <1>8, <2>1 DEF Ascending
<1>13. \A i \in DOMAIN joined : ss.inFlight.job < joined[i].job
  <2>1. ASSUME NEW i \in 1..(Len(q) + n) PROVE ss.inFlight.job < joined[i].job
    <3>1. CASE i \in 1..Len(q)
      BY <1>7, <1>10, <3>1
    <3>2. CASE i \notin 1..Len(q)
      <4>1. i \in (Len(q) + 1)..(Len(q) + n)
        BY <1>1, <1>5, <2>1, <3>2
      <4>2. joined[i].job = made + (i - Len(q))
        BY <1>7, <4>1
      <4> QED
        BY <1>1, <1>5, <1>11, <4>1, <4>2
    <3> QED
      BY <3>1, <3>2
  <2> QED
    BY <1>8, <2>1
<1>14. {joined[i].job : i \in DOMAIN joined} = {q[i].job : i \in DOMAIN q} \cup (made + 1)..(made + n)
  <2>1. ASSUME NEW i \in DOMAIN joined PROVE joined[i].job \in {q[k].job : k \in DOMAIN q} \cup (made + 1)..(made + n)
    <3>1. CASE i \in 1..Len(q)
      BY <1>5, <1>7, <3>1
    <3>2. CASE i \notin 1..Len(q)
      <4>1. i \in (Len(q) + 1)..(Len(q) + n)
        BY <1>1, <1>5, <1>8, <2>1, <3>2
      <4>2. joined[i].job = made + (i - Len(q)) /\ made + (i - Len(q)) \in (made + 1)..(made + n)
        BY <1>1, <1>5, <1>7, <4>1
      <4> QED
        BY <4>2
    <3> QED
      BY <3>1, <3>2
  <2>2. ASSUME NEW i \in DOMAIN q PROVE q[i].job \in {joined[k].job : k \in DOMAIN joined}
    <3>1. i \in 1..Len(q) /\ i \in DOMAIN joined
      BY <1>1, <1>5, <1>8
    <3> QED
      BY <1>7, <3>1
  <2>3. ASSUME NEW id \in (made + 1)..(made + n) PROVE id \in {joined[k].job : k \in DOMAIN joined}
    <3> DEFINE k == Len(q) + (id - made)
    <3>1. k \in (Len(q) + 1)..(Len(q) + n) /\ made + (k - Len(q)) = id /\ k \in DOMAIN joined
      BY <1>1, <1>5, <1>8
    <3>2. joined[k].job = id
      BY <1>7, <3>1
    <3> QED
      BY <3>1, <3>2
  <2> QED
    BY <2>1, <2>2, <2>3
<1>15. QueuedIds(after) = QueuedIds(ss) \cup (made + 1)..(made + n) /\ Ordered(after)
  BY <1>3, <1>12, <1>13, <1>14 DEF QueuedIds, Ordered, joined, q
<1>16. /\ QueuedOf(js, s) = QueuedIds(after)
       /\ RunningOf(js, s) = {after.inFlight.job} \ (st \cup {NoJob})
  BY <1>3, <1>4, <1>15 DEF Coherent
<1>17. (made + 1)..(made + n) \cap st = {} /\ after.inFlight.job <= made + n
  BY <1>1, <1>3, <1>11
<1>18. \A t \in Sessions \ {s} : after.inFlight.job \notin QueuedOf(js, t) \cup RunningOf(js, t)
  BY <1>3, <1>4 DEF Coherent
<1>19. QueuedIds(after) \cap st = {}
  BY <1>15, <1>17 DEF Coherent
<1> QED
  BY <1>15, <1>16, <1>17, <1>18, <1>19 DEF Coherent, after, js, n

\* Enqueueing and pumping keeps the sessions and the registry in agreement.
LEMMA QueueKeeps ==
  ASSUME Typed, SessionsAgree, NEW s \in Live, NEW items \in Seq(Item),
         NEW ss \in SessionState, ss.status = session[s].status,
         ss.queue = session[s].queue, ss.inFlight = session[s].inFlight,
         Queue(s, ss, items), UNCHANGED stopped
  PROVE  SessionsAgree' /\ Live' = Live /\ SentRun
<1> DEFINE js == Enqueued(s, items)
           after == Queues(s, ss, items)
<1>1. /\ s \in Sessions /\ made \in Nat /\ Len(items) \in Nat /\ made' = made + Len(items)
      /\ RegistryOK(jobs, made) /\ stopped \subseteq 1..made
  BY DEF Queue, Typed, TypeOK, RegistryOK, Live
<1>2. Coherent(s, ss, jobs, stopped, made)
  BY <1>1, CoherentAlike DEF SessionsAgree
<1>3. Coherent(s, after, js, stopped, made')
  BY <1>1, <1>2, QueuesCohere
<1>4. /\ RegistryOK(js, made')
      /\ QueuedOf(js, s) = QueuedOf(jobs, s) \cup (made + 1)..(made + Len(items))
      /\ RunningOf(js, s) = RunningOf(jobs, s)
      /\ \A t \in Sessions \ {s} : QueuedOf(js, t) = QueuedOf(jobs, t) /\ RunningOf(js, t) = RunningOf(jobs, t)
  BY <1>1, EnqueuedQueues
<1>5. Moves(s, jobs, js, made)
  BY <1>1, <1>4 DEF Moves
<1>6. after \in SessionState /\ after.status = session[s].status
  BY <1>1, QueuesTyped DEF Queues, SessionState
<1>7. Pump(s, after, js)
  BY DEF Queue, Queues
<1>8. made' \in Nat /\ made <= made'
  BY <1>1
<1> HIDE DEF js, after
<1> QED
  BY <1>3, <1>4, <1>5, <1>6, <1>7, <1>8, PumpKeeps

\* Only session s changes, and not in what it has in flight or waiting.
LEMMA OnlyKeeps ==
  ASSUME Typed, SessionsAgree, NEW s \in Sessions, NEW ss \in SessionState,
         ss.queue = session[s].queue, ss.inFlight = session[s].inFlight,
         s \in Live => ss.status \in {"connecting", "open", "failed"},
         session' = [session EXCEPT ![s] = ss], UNCHANGED <<jobs, made, stopped>>
  PROVE  SessionsAgree' /\ Live \subseteq Live'
<1>1. session \in [Sessions -> SessionState]
  BY DEF Typed, TypeOK
<1>2. Live \subseteq Live'
  BY <1>1 DEF Live
<1>3. \A t \in Sessions : session'[t].queue = session[t].queue /\ session'[t].inFlight = session[t].inFlight
  BY <1>1
<1> QED
  BY <1>2, <1>3, SameWork

\* So does enqueueing that may ask for a confirm first.
LEMMA EnqueueOnKeeps ==
  ASSUME Typed, SessionsAgree, NEW s \in Live, NEW items \in Seq(Item), EnqueueOn(s, items),
         UNCHANGED stopped
  PROVE  SessionsAgree' /\ Live \subseteq Live' /\ dialog'.who \subseteq Live /\ SentRun
<1>1. session[s] \in SessionState /\ s \in Sessions
  BY DEF Typed, TypeOK, Live
<1>2. CASE Asks(s, items)
  <2> DEFINE ss == [session[s] EXCEPT !.held = items]
  <2>1. /\ ss \in SessionState /\ ss.queue = session[s].queue /\ ss.inFlight = session[s].inFlight
        /\ ss.status = session[s].status
    BY <1>1 DEF SessionState
  <2>2. /\ session' = [session EXCEPT ![s] = ss] /\ UNCHANGED <<jobs, made>>
        /\ dialog'.who = {s} /\ UNCHANGED cmds
    BY <1>2 DEF EnqueueOn, Only, Confirm
  <2>3. s \in Live => ss.status \in {"connecting", "open", "failed"}
    BY <2>1 DEF Live
  <2> HIDE DEF ss
  <2> QED
    BY <1>1, <2>1, <2>2, <2>3, OnlyKeeps DEF SentRun
<1>3. CASE ~Asks(s, items)
  <2>1. Queue(s, session[s], items) /\ dialog'.who = {}
    BY <1>3 DEF EnqueueOn, NoDialog
  <2> QED
    BY <1>1, <2>1, QueueKeeps
<1> QED
  BY <1>2, <1>3

\* What the user runs is enqueued, with items made for it.
LEMMA RunsEnqueue ==
  ASSUME Typed, NEW s \in Sessions, Run(s) \/ LoadMore(s) \/ FetchAll(s) \/ ExportAll(s)
  PROVE  \E items \in Seq(Item) : EnqueueOn(s, items)
<1>0. session[s] \in SessionState
  BY DEF Typed, TypeOK
<1>1. CASE Run(s)
  <2>1. PICK run \in Runs : EnqueueOn(s, [i \in DOMAIN run |-> Wanted(run[i], "query", 0)])
    BY <1>1 DEF Run
  <2>2. run \in Seq(Statements)
    BY QueryRunAssumption
  <2>3. \A i \in DOMAIN run : Wanted(run[i], "query", 0) \in Item
    BY <2>2, WantedTyped DEF Hows
  <2>4. [i \in DOMAIN run |-> Wanted(run[i], "query", 0)] \in Seq(Item)
    BY <2>2, <2>3
  <2> QED
    BY <2>1, <2>4
<1>2. CASE LoadMore(s)
  <2>1. PICK i \in DOMAIN session[s].tabs :
          EnqueueOn(s, <<Wanted(session[s].tabs[i].sql, "more", session[s].tabs[i].number)>>)
    BY <1>2 DEF LoadMore
  <2>2. session[s].tabs[i] \in Tab
    BY <1>0 DEF SessionState
  <2>3. <<Wanted(session[s].tabs[i].sql, "more", session[s].tabs[i].number)>> \in Seq(Item)
    BY <2>2, WantedTyped DEF Tab, Hows
  <2> QED
    BY <2>1, <2>3
<1>3. CASE FetchAll(s) \/ ExportAll(s)
  <2>1. <<Wanted("select", "all", 0)>> \in Seq(Item) /\ <<Wanted("select", "export", 0)>> \in Seq(Item)
    BY WantedTyped DEF Hows, Statements
  <2> QED
    BY <1>3, <2>1 DEF FetchAll, ExportAll
<1> QED
  BY <1>1, <1>2, <1>3

\* So does everything the user runs, or confirms.
LEMMA RunsAgree ==
  ASSUME Typed, Agreed, NEW s \in Sessions,
         Run(s) \/ LoadMore(s) \/ FetchAll(s) \/ ExportAll(s) \/ Release(s)
  PROVE  Agreed' /\ SentRun
<1>0. UNCHANGED stopped /\ session[s] \in SessionState /\ SessionsAgree
  BY DEF Run, LoadMore, FetchAll, ExportAll, Release, Acts, User, Typed, TypeOK, Agreed
<1>1. s \in Live
  <2>1. dialog \in {Confirm("FetchAll", {s}), Confirm("RunOnProd", {s})} => s \in dialog.who
    BY DEF Confirm
  <2> QED
    BY <2>1 DEF Run, LoadMore, FetchAll, ExportAll, Release, Acts, Agreed
<1>2. CASE Release(s)
  <2> DEFINE ss == [session[s] EXCEPT !.confirmed = TRUE, !.held = <<>>]
  <2>1. <<>> \in Seq(Item)
    OBVIOUS
  <2>2. /\ ss \in SessionState /\ session[s].held \in Seq(Item) /\ ss.queue = session[s].queue
        /\ ss.inFlight = session[s].inFlight /\ ss.status = session[s].status
    BY <1>0, <2>1 DEF SessionState
  <2>3. Queue(s, ss, session[s].held) /\ dialog'.who = {}
    BY <1>2 DEF Release, NoDialog
  <2> HIDE DEF ss
  <2>4. SessionsAgree' /\ Live' = Live /\ SentRun
    BY <1>0, <1>1, <2>2, <2>3, QueueKeeps
  <2> QED
    BY <2>3, <2>4 DEF Agreed
<1>3. CASE ~Release(s)
  <2>1. \E items \in Seq(Item) : EnqueueOn(s, items)
    BY <1>3, RunsEnqueue
  <2> QED
    BY <1>0, <1>1, <2>1, EnqueueOnKeeps DEF Agreed
<1> QED
  BY <1>2, <1>3

\* The queue without the statement of one of its jobs.
LEMMA WithoutOrdered ==
  ASSUME NEW ss \in SessionState, Ordered(ss), NEW id \in QueuedIds(ss)
  PROVE  LET after == [ss EXCEPT !.queue = Without(ss.queue, id)]
         IN  /\ after \in SessionState /\ Ordered(after) /\ QueuedIds(after) = QueuedIds(ss) \ {id}
             /\ after.inFlight = ss.inFlight /\ after.status = ss.status
<1> DEFINE q == ss.queue
           places == {i \in DOMAIN q : q[i].job = id}
           place == CHOOSE i \in places : TRUE
           r == RemoveAt(q, place)
           after == [ss EXCEPT !.queue = r]
<1>1. q \in Seq(Item) /\ DOMAIN q = 1..Len(q) /\ Len(q) \in Nat
  BY DEF SessionState
<1>2. place \in 1..Len(q) /\ q[place].job = id /\ places # {}
  BY <1>1 DEF QueuedIds
<1>3. Without(q, id) = r
  BY <1>2 DEF Without
<1> HIDE DEF place
<1>4. /\ r \in Seq(Item) /\ DOMAIN r = 1..(Len(q) - 1)
      /\ \A k \in 1..(Len(q) - 1) : r[k] = IF k < place THEN q[k] ELSE q[k + 1]
  BY <1>1, <1>2, WithoutThe
<1>5. \A i \in DOMAIN q : q[i].job \in Nat
  <2>1. \A i \in DOMAIN q : q[i] \in Item
    BY <1>1
  <2> QED
    BY <2>1 DEF Item
<1>6. /\ \A i, j \in 1..Len(q) : i < j => q[i].job < q[j].job
      /\ \A i \in 1..Len(q) : ss.inFlight.job < q[i].job
  BY <1>1 DEF Ordered, Ascending
<1>7. /\ after \in SessionState /\ after.queue = r /\ after.inFlight = ss.inFlight
      /\ after.status = ss.status
  <2> HIDE DEF r
  <2> QED
    BY <1>4 DEF SessionState
<1> HIDE DEF q, r, after
<1> DEFINE from(k) == IF k < place THEN k ELSE k + 1
<1>8. \A k \in 1..(Len(q) - 1) : from(k) \in 1..Len(q) /\ r[k] = q[from(k)] /\ from(k) # place
  BY <1>1, <1>2, <1>4
<1>9. \A k, m \in 1..(Len(q) - 1) : k < m => from(k) < from(m)
  BY <1>1, <1>2
<1>10. Ascending(r)
  <2>1. ASSUME NEW k \in 1..(Len(q) - 1), NEW m \in 1..(Len(q) - 1), k < m PROVE r[k].job < r[m].job
    <3>1. from(k) < from(m)
      BY <1>9, <2>1
    <3> HIDE DEF from
    <3> QED
      BY <1>6, <1>8, <3>1
  <2> QED
    BY <1>4, <2>1 DEF Ascending
<1>11. Ordered(after)
  <2>1. \A k \in DOMAIN r : ss.inFlight.job < r[k].job
    <3> HIDE DEF from
    <3> QED
      BY <1>4, <1>6, <1>8
  <2> QED
    BY <1>7, <1>10, <2>1 DEF Ordered
<1>12. {r[k].job : k \in DOMAIN r} = {q[i].job : i \in DOMAIN q} \ {id}
  <2>1. ASSUME NEW k \in DOMAIN r PROVE r[k].job \in {q[i].job : i \in DOMAIN q} /\ r[k].job # id
    <3> DEFINE i == from(k)
    <3>1. i \in 1..Len(q) /\ r[k] = q[i] /\ i # place
      BY <1>4, <1>8
    <3> HIDE DEF i
    <3>2. i < place \/ place < i
      BY <1>1, <1>2, <3>1
    <3>3. q[i].job # q[place].job
      BY <1>1, <1>2, <1>5, <1>6, <3>1, <3>2
    <3> QED
      BY <1>1, <1>2, <3>1, <3>3
  <2>2. ASSUME NEW i \in DOMAIN q, q[i].job # id PROVE q[i].job \in {r[k].job : k \in DOMAIN r}
    <3>1. i \in 1..Len(q) /\ i # place
      BY <1>1, <1>2, <2>2
    <3>2. CASE i < place
      <4>1. i \in 1..(Len(q) - 1)
        BY <1>1, <1>2, <3>1, <3>2
      <4> QED
        BY <1>4, <3>2, <4>1
    <3>3. CASE place < i
      <4>1. i - 1 \in 1..(Len(q) - 1) /\ ~(i - 1 < place) /\ (i - 1) + 1 = i
        BY <1>1, <1>2, <3>1, <3>3
      <4> QED
        BY <1>4, <4>1
    <3> QED
      BY <1>1, <1>2, <3>1, <3>2, <3>3
  <2> QED
    BY <2>1, <2>2
<1>13. QueuedIds(after) = QueuedIds(ss) \ {id}
  BY <1>7, <1>12 DEF QueuedIds, q
<1> QED
  BY <1>3, <1>7, <1>11, <1>13 DEF q, after, r

\* A session with nothing in flight, nothing waiting and no open job agrees.
LEMMA IdleCoheres ==
  ASSUME NEW s \in Sessions, NEW ss, ss.queue = <<>>, ss.inFlight = NoItem,
         NEW js, NEW n \in Nat, RegistryOK(js, n), NEW st, QueuedOf(js, s) = {}, RunningOf(js, s) = {}
  PROVE  Coherent(s, ss, js, st, n)
<1>1. QueuedIds(ss) = {} /\ Ordered(ss)
  BY DEF QueuedIds, Ordered, Ascending
<1>2. NoItem.job = 0 /\ NoJob = 0
  BY DEF NoItem, NoJob
<1>3. \A t \in Sessions : 0 \notin QueuedOf(js, t) \cup RunningOf(js, t)
  BY DEF RegistryOK, QueuedOf, RunningOf, Queued, Running
<1> QED
  BY <1>1, <1>2, <1>3 DEF Coherent

\* Cancelling what runs drops what waits behind it, from both sides.
LEMMA CancelAgrees ==
  ASSUME Typed, Agreed, NEW s \in Sessions, CancelRunning(s)
  PROVE  Agreed'
<1> DEFINE ss == session[s]
           job == ss.inFlight.job
           cancelled == Cancel(jobs, job)
           ids == QueuedIds(ss)
           js == RemoveQueued(cancelled, ids)
<1>1. /\ s \in Live /\ job \in Running(jobs) /\ jobs' = js /\ stopped' = stopped \cup {job}
      /\ session' = [session EXCEPT ![s] = Dropped(ss)] /\ UNCHANGED <<made, dialog>>
      /\ session \in [Sessions -> SessionState] /\ made \in Nat /\ RegistryOK(jobs, made)
  BY DEF CancelRunning, Acts, Typed, TypeOK, RegistryOK
<1>2. \A t \in Sessions : /\ Coherent(t, session[t], jobs, stopped, made) /\ Settled(session[t])
                          /\ t \notin Live => session[t].inFlight = NoItem
  BY DEF Agreed, SessionsAgree
<1>3. job \in RunningOf(jobs, s) /\ RunningOf(jobs, s) = {job}
  <2>1. jobs[job].session \in Sessions /\ job \in RunningOf(jobs, jobs[job].session)
    BY <1>1 DEF RegistryOK, Job, RunningOf, Running, JobsOf
  <2>2. jobs[job].session = s
    BY <1>2, <2>1 DEF Coherent
  <2>3. job \in RunningOf(jobs, s)
    BY <2>1, <2>2
  <2> QED
    BY <1>2, <2>3 DEF Coherent
<1>4. ids = QueuedOf(jobs, s)
  BY <1>2 DEF Coherent
<1>5. RegistryOK(cancelled, made) /\ OnlyLoses(jobs, cancelled, {job})
  BY <1>1, CancelCloses
<1> HIDE DEF cancelled, ids
<1>6. \A t \in Sessions : /\ QueuedOf(js, t) = (QueuedOf(jobs, t) \ {job}) \ ids
                          /\ RunningOf(js, t) = RunningOf(jobs, t) \ {job}
  BY <1>1, <1>5, RemoveQueuedCloses DEF OnlyLoses
<1>7. RegistryOK(js, made)
  BY <1>1, <1>5, RemoveQueuedCloses
<1> HIDE DEF js
<1>8. \A t \in Sessions \ {s} : QueuedOf(js, t) = QueuedOf(jobs, t) /\ RunningOf(js, t) = RunningOf(jobs, t)
  <2>1. ASSUME NEW t \in Sessions \ {s}
        PROVE  job \notin QueuedOf(jobs, t) \cup RunningOf(jobs, t) /\ ids \cap QueuedOf(jobs, t) = {}
    <3>1. (QueuedOf(jobs, s) \cup RunningOf(jobs, s)) \cap (QueuedOf(jobs, t) \cup RunningOf(jobs, t)) = {}
      BY OpenOnce
    <3> QED
      BY <1>3, <1>4, <3>1
  <2> HIDE DEF job
  <2>2. ASSUME NEW t \in Sessions \ {s}
        PROVE  QueuedOf(js, t) = QueuedOf(jobs, t) /\ RunningOf(js, t) = RunningOf(jobs, t)
    <3>1. job \notin QueuedOf(jobs, t) \cup RunningOf(jobs, t) /\ ids \cap QueuedOf(jobs, t) = {}
      BY <2>1
    <3>2. /\ QueuedOf(js, t) = (QueuedOf(jobs, t) \ {job}) \ ids
          /\ RunningOf(js, t) = RunningOf(jobs, t) \ {job}
      BY <1>6
    <3> QED
      BY <3>1, <3>2
  <2> QED
    BY <2>2
<1>9. QueuedOf(js, s) = {} /\ RunningOf(js, s) = {}
  BY <1>3, <1>4, <1>6
<1>10. Moves(s, jobs, js, made)
  BY <1>8, <1>9 DEF Moves
<1>11. ASSUME NEW t \in Sessions \ {s} PROVE Coherent(t, session[t], js, stopped', made)
  <2>1. made <= made
    BY <1>1
  <2>2. Coherent(t, session[t], js, stopped, made)
    BY <1>1, <1>2, <1>10, <2>1, OthersCohere
  <2>3. job \notin QueuedIds(session[t])
    BY <1>2, <1>3, OpenOnce DEF Coherent
  <2>4. session[t].inFlight.job # job
    BY <1>2, <1>3 DEF Coherent
  <2>5. stopped' = stopped \cup {job}
    BY <1>1
  <2> HIDE DEF job
  <2> QED
    BY <2>2, <2>3, <2>4, <2>5 DEF Coherent
<1>12. Coherent(s, Dropped(ss), js, stopped', made)
  <2>1. Dropped(ss).queue = <<>> /\ Dropped(ss).inFlight = ss.inFlight
    BY <1>1 DEF Dropped, SessionState
  <2>2. QueuedIds(Dropped(ss)) = {} /\ Ordered(Dropped(ss))
    BY <2>1 DEF QueuedIds, Ordered, Ascending
  <2>3. job <= made /\ \A t \in Sessions \ {s} : job \notin QueuedOf(js, t) \cup RunningOf(js, t)
    BY <1>2, <1>8 DEF Coherent
  <2>4. stopped' = stopped \cup {job}
    BY <1>1
  <2> QED
    BY <1>9, <2>1, <2>2, <2>3, <2>4 DEF Coherent
<1>13. Dropped(ss).queue = <<>> /\ Dropped(ss).status = ss.status
  BY <1>1 DEF Dropped, SessionState
<1>14. Live' = Live
  BY <1>1, <1>13 DEF Live
<1>15. \A t \in Sessions : Settled(session'[t]) /\ (t \notin Live' => session'[t].inFlight = NoItem)
  BY <1>1, <1>2, <1>13, <1>14 DEF Settled
<1>16. \A t \in Sessions : Coherent(t, session'[t], jobs', stopped', made')
  BY <1>1, <1>11, <1>12
<1> QED
  BY <1>1, <1>14, <1>15, <1>16 DEF Agreed, SessionsAgree

\* Dropping one queued statement drops it from both sides.
LEMMA DropAgrees ==
  ASSUME Typed, Agreed, NEW s \in Sessions, DropQueued(s)
  PROVE  Agreed'
<1>1. PICK id \in QueuedOf(jobs, s) :
        /\ session' = [session EXCEPT ![s].queue = Without(@, id)]
        /\ jobs' = Cancel(jobs, id)
  BY DEF DropQueued, QueuedOf
<1> DEFINE ss == session[s]
           after == [ss EXCEPT !.queue = Without(ss.queue, id)]
           js == Cancel(jobs, id)
<1>2. /\ s \in Live /\ UNCHANGED <<made, dialog, stopped>> /\ session \in [Sessions -> SessionState]
      /\ made \in Nat /\ RegistryOK(jobs, made)
  BY DEF DropQueued, Acts, Typed, TypeOK, RegistryOK
<1>3. session' = [session EXCEPT ![s] = after] /\ jobs' = js
  BY <1>1, <1>2
<1>4. \A t \in Sessions : /\ Coherent(t, session[t], jobs, stopped, made) /\ Settled(session[t])
                          /\ t \notin Live => session[t].inFlight = NoItem
  BY DEF Agreed, SessionsAgree
<1>5. id \in Queued(jobs)
  BY DEF QueuedOf
<1>6. RegistryOK(js, made) /\ OnlyLoses(jobs, js, {id})
  BY <1>2, <1>5, CancelCloses
<1>7. id \in QueuedIds(ss) /\ Ordered(ss) /\ ss \in SessionState
  BY <1>2, <1>4 DEF Coherent
<1>8. /\ Ordered(after) /\ QueuedIds(after) = QueuedIds(ss) \ {id}
      /\ after.inFlight = ss.inFlight /\ after.status = ss.status
  BY <1>7, WithoutOrdered
<1> HIDE DEF after, js
<1>9. \A t \in Sessions \ {s} : QueuedOf(js, t) = QueuedOf(jobs, t) /\ RunningOf(js, t) = RunningOf(jobs, t)
  <2>1. ASSUME NEW t \in Sessions \ {s} PROVE id \notin QueuedOf(jobs, t) \cup RunningOf(jobs, t)
    <3>1. (QueuedOf(jobs, s) \cup RunningOf(jobs, s)) \cap (QueuedOf(jobs, t) \cup RunningOf(jobs, t)) = {}
      BY OpenOnce
    <3> QED
      BY <3>1
  <2>2. ASSUME NEW t \in Sessions \ {s}
        PROVE  QueuedOf(js, t) = QueuedOf(jobs, t) /\ RunningOf(js, t) = RunningOf(jobs, t)
    <3>1. id \notin QueuedOf(jobs, t) \cup RunningOf(jobs, t)
      BY <2>1
    <3>2. QueuedOf(js, t) = QueuedOf(jobs, t) \ {id} /\ RunningOf(js, t) = RunningOf(jobs, t) \ {id}
      BY <1>6 DEF OnlyLoses
    <3> QED
      BY <3>1, <3>2
  <2> QED
    BY <2>2
<1>10. QueuedOf(js, s) = QueuedOf(jobs, s) \ {id} /\ RunningOf(js, s) = RunningOf(jobs, s)
  BY <1>6, OpenOnce DEF OnlyLoses, QueuedOf, RunningOf, Queued, Running
<1>11. Moves(s, jobs, js, made)
  BY <1>9, <1>10 DEF Moves
<1>12. \A t \in Sessions \ {s} : Coherent(t, session[t], js, stopped, made)
  <2>1. made <= made
    BY <1>2
  <2> QED
    BY <1>2, <1>4, <1>11, <2>1, OthersCohere
<1>13. Coherent(s, after, js, stopped, made)
  BY <1>4, <1>8, <1>9, <1>10 DEF Coherent
<1>14. ss.inFlight # NoItem
  <2>1. ss.queue # <<>>
    BY <1>7 DEF QueuedIds
  <2> QED
    BY <1>4, <2>1 DEF Settled
<1>15. Live' = Live
  BY <1>2, <1>3, <1>8 DEF Live
<1>16. \A t \in Sessions : Settled(session'[t]) /\ (t \notin Live' => session'[t].inFlight = NoItem)
  BY <1>2, <1>3, <1>4, <1>8, <1>14, <1>15 DEF Settled
<1>17. \A t \in Sessions : Coherent(t, session'[t], jobs', stopped', made')
  BY <1>2, <1>3, <1>12, <1>13
<1> QED
  BY <1>2, <1>15, <1>16, <1>17 DEF Agreed, SessionsAgree

\* Commands past the queue, and sessions that connect, again or for the first time.
LEMMA DirectAgrees ==
  ASSUME Typed, Agreed, NEW s \in Sessions,
         \/ ToggleAutocommit(s) \/ LoadSchema(s) \/ ExportFetched(s) \/ Reconnect(s) \/ OpenSession(s)
         \/ AskToFetchAll(s)
  PROVE  Agreed'
<1>0. /\ session[s] \in SessionState /\ SessionsAgree /\ UNCHANGED <<jobs, made, stopped>>
      /\ dialog'.who \subseteq Live
  <2>1. session[s] \in SessionState /\ SessionsAgree /\ dialog.who \subseteq Live
    BY DEF Typed, TypeOK, Agreed
  <2>2. UNCHANGED <<jobs, made, stopped>>
    BY DEF ToggleAutocommit, LoadSchema, ExportFetched, Reconnect, OpenSession, AskToFetchAll
  <2>3. UNCHANGED dialog \/ (dialog' = Confirm("FetchAll", {s}) /\ s \in Live)
    BY DEF ToggleAutocommit, LoadSchema, ExportFetched, Reconnect, OpenSession, AskToFetchAll, Acts
  <2>4. Confirm("FetchAll", {s}).who = {s}
    BY DEF Confirm
  <2> QED
    BY <2>1, <2>2, <2>3, <2>4
<1>1. CASE UNCHANGED session
  <2>1. Live' = Live
    BY <1>1 DEF Live
  <2> QED
    BY <1>0, <1>1, <2>1, SameWork DEF Agreed
<1>2. CASE Reconnect(s)
  <2>1. PICK prod \in BOOLEAN :
          session' = [session EXCEPT ![s] =
            [session[s] EXCEPT !.status = "connecting", !.prod = prod, !.inTx = FALSE,
                               !.autocommit = TRUE, !.cursor = 0, !.cursorKept = FALSE]]
    BY <1>0, <1>2 DEF Reconnect, Typed, TypeOK
  <2> DEFINE after == [session[s] EXCEPT !.status = "connecting", !.prod = prod, !.inTx = FALSE,
                                         !.autocommit = TRUE, !.cursor = 0, !.cursorKept = FALSE]
  <2>2. /\ after \in SessionState /\ after.queue = session[s].queue /\ after.inFlight = session[s].inFlight
        /\ after.status = "connecting"
    BY <1>0 DEF SessionState
  <2> HIDE DEF after
  <2>3. session' = [session EXCEPT ![s] = after]
    BY <2>1 DEF after
  <2> QED
    BY <1>0, <2>2, <2>3, OnlyKeeps DEF Agreed
<1>3. CASE OpenSession(s)
  <2>1. PICK prod \in BOOLEAN : session' = [session EXCEPT ![s] = Fresh("connecting", prod)]
    BY <1>3 DEF OpenSession
  <2>2. /\ Fresh("connecting", prod) \in SessionState
        /\ Fresh("connecting", prod).queue = <<>> /\ Fresh("connecting", prod).inFlight = NoItem
        /\ Fresh("connecting", prod).status = "connecting"
    BY FreshTyped DEF Fresh
  <2>3. session[s].queue = <<>> /\ session[s].inFlight = NoItem
    BY <1>0, <1>3 DEF OpenSession, NextId, Unused, Live, SessionsAgree, Settled
  <2> QED
    BY <1>0, <2>1, <2>2, <2>3, OnlyKeeps DEF Agreed
<1> QED
  BY <1>1, <1>2, <1>3 DEF ToggleAutocommit, LoadSchema, ExportFetched, Reconnect, OpenSession, AskToFetchAll

\* Closing a session closes all its jobs.
LEMMA CloseAgrees ==
  ASSUME Typed, Agreed, NEW s \in Sessions, CloseOrConfirm(s) \/ CloseConfirmed(s)
  PROVE  Agreed'
<1>0. /\ s \in Live /\ SessionsAgree /\ UNCHANGED <<made, stopped>>
      /\ session \in [Sessions -> SessionState] /\ made \in Nat /\ RegistryOK(jobs, made)
  <2>1. Confirm("CloseSession", {s}).who = {s} /\ dialog.who \subseteq Live /\ SessionsAgree
    BY DEF Confirm, Agreed
  <2>2. s \in Live
    BY <2>1 DEF CloseOrConfirm, CloseConfirmed, Acts
  <2>3. UNCHANGED <<made, stopped>>
    BY DEF CloseOrConfirm, CloseConfirmed, Close
  <2>4. session \in [Sessions -> SessionState] /\ made \in Nat /\ RegistryOK(jobs, made)
    BY DEF Typed, TypeOK, RegistryOK
  <2> QED
    BY <2>1, <2>2, <2>3, <2>4
<1>1. CASE Close(s) /\ dialog' = NoDialog
  <2> DEFINE js == CloseSession(jobs, s)
             closed == Fresh("closed", FALSE)
             fresh == Fresh("connecting", FALSE)
  <2>1. /\ RegistryOK(js, made) /\ QueuedOf(js, s) = {} /\ RunningOf(js, s) = {}
        /\ \A t \in Sessions \ {s} : QueuedOf(js, t) = QueuedOf(jobs, t) /\ RunningOf(js, t) = RunningOf(jobs, t)
    BY <1>0, CloseSessionCloses
  <2>2. /\ closed.queue = <<>> /\ closed.inFlight = NoItem
        /\ fresh.queue = <<>> /\ fresh.inFlight = NoItem /\ fresh.status = "connecting"
    BY DEF Fresh
  <2>3. /\ jobs' = js
        /\ \/ session' = [session EXCEPT ![s] = closed]
           \/ \E new \in Sessions \ Live : session' = [session EXCEPT ![s] = closed, ![new] = fresh]
    BY <1>1 DEF Close, NextId, Unused, Live
  <2> HIDE DEF js, closed, fresh
  <2>4. \A t \in Sessions \ {s} : Coherent(t, session[t], js, stopped, made)
    <3>1. Moves(s, jobs, js, made) /\ made <= made
      BY <1>0, <2>1 DEF Moves
    <3> QED
      BY <1>0, <3>1, OthersCohere DEF SessionsAgree
  <2>5. Coherent(s, closed, js, stopped, made)
    BY <1>0, <2>1, <2>2, IdleCoheres
  <2>6. \A t \in Sessions \ Live : session[t].queue = <<>> /\ session[t].inFlight = NoItem
    BY <1>0 DEF SessionsAgree, Settled
  <2>7. ASSUME NEW t \in Sessions
        PROVE  /\ Coherent(t, session'[t], js, stopped, made) /\ Settled(session'[t])
               /\ t \notin Live' => session'[t].inFlight = NoItem
    <3>1. CASE t = s /\ session'[t] = closed
      BY <2>2, <2>5, <3>1 DEF Settled
    <3>2. CASE t # s /\ session'[t] = session[t]
      BY <1>0, <2>4, <3>2 DEF SessionsAgree, Live
    <3>3. CASE t # s /\ t \notin Live /\ session'[t] = fresh
      <4>1. Coherent(t, fresh, js, stopped, made)
        BY <2>2, <2>4, <2>6, <3>3, CoherentAlike
      <4> QED
        BY <2>2, <3>3, <4>1 DEF Settled
    <3>4. CASE session' = [session EXCEPT ![s] = closed]
      BY <1>0, <3>1, <3>2, <3>4
    <3>5. CASE \E new \in Sessions \ Live : session' = [session EXCEPT ![s] = closed, ![new] = fresh]
      BY <1>0, <3>1, <3>2, <3>3, <3>5
    <3> QED
      BY <2>3, <3>4, <3>5
  <2>8. dialog'.who = {}
    BY <1>1 DEF NoDialog
  <2> QED
    BY <1>0, <2>3, <2>7, <2>8 DEF Agreed, SessionsAgree
<1>2. CASE UNCHANGED <<session, jobs>> /\ dialog' = Confirm("CloseSession", {s})
  <2>1. Live' = Live /\ dialog'.who \subseteq Live
    BY <1>0, <1>2 DEF Live, Confirm
  <2> QED
    BY <1>0, <1>2, <2>1, SameWork DEF Agreed
<1> QED
  BY <1>1, <1>2 DEF CloseOrConfirm, CloseConfirmed

\* The statement in flight of a session ends in the registry, one way or another.
LEMMA EndsInRegistry ==
  ASSUME Typed, SessionsAgree, NEW s \in Sessions,
         NEW js \in {Finish(jobs, session[s].inFlight.job), Fail(jobs, session[s].inFlight.job)}
  PROVE  /\ RegistryOK(js, made)
         /\ QueuedOf(js, s) = QueuedOf(jobs, s) /\ RunningOf(js, s) = {}
         /\ \A t \in Sessions \ {s} : QueuedOf(js, t) = QueuedOf(jobs, t) /\ RunningOf(js, t) = RunningOf(jobs, t)
<1> DEFINE job == session[s].inFlight.job
<1>1. RegistryOK(jobs, made) /\ made \in Nat /\ session[s] \in SessionState
  BY DEF Typed, TypeOK, RegistryOK
<1>2. Coherent(s, session[s], jobs, stopped, made)
  BY DEF SessionsAgree
<1>3. RegistryOK(js, made) /\ OnlyLoses(jobs, js, {job})
  BY <1>1, FinishOrFailCloses
<1>4. job \notin QueuedOf(jobs, s)
  <2>1. session[s].queue \in Seq(Item) /\ job \in Nat
    BY <1>1 DEF SessionState, Item, NoItem, NoJob
  <2>2. \A i \in DOMAIN session[s].queue : job < session[s].queue[i].job
    BY <1>2 DEF Coherent, Ordered
  <2>3. \A i \in DOMAIN session[s].queue : session[s].queue[i] \in Item
    BY <2>1
  <2>4. \A i \in DOMAIN session[s].queue : session[s].queue[i].job \in Nat
    BY <2>3 DEF Item
  <2> HIDE DEF job
  <2>5. \A i \in DOMAIN session[s].queue : session[s].queue[i].job # job
    BY <2>1, <2>2, <2>4
  <2> QED
    BY <1>2, <2>5 DEF Coherent, QueuedIds
<1>5. RunningOf(jobs, s) \subseteq {job}
  BY <1>2 DEF Coherent
<1>6. ASSUME NEW t \in Sessions \ {s} PROVE job \notin QueuedOf(jobs, t) \cup RunningOf(jobs, t)
  BY <1>2 DEF Coherent
<1> HIDE DEF job
<1>7. QueuedOf(js, s) = QueuedOf(jobs, s) /\ RunningOf(js, s) = {}
  BY <1>3, <1>4, <1>5 DEF OnlyLoses
<1>8. ASSUME NEW t \in Sessions \ {s}
      PROVE  QueuedOf(js, t) = QueuedOf(jobs, t) /\ RunningOf(js, t) = RunningOf(jobs, t)
  <2>1. QueuedOf(js, t) = QueuedOf(jobs, t) \ {job} /\ RunningOf(js, t) = RunningOf(jobs, t) \ {job}
    BY <1>3 DEF OnlyLoses
  <2> QED
    BY <1>6, <2>1
<1> QED
  BY <1>3, <1>7, <1>8

\* ... and a statement that was cancelled has ended there already.
LEMMA CancelledHasEnded ==
  ASSUME SessionsAgree, NEW s \in Sessions, WasCancelled(s)
  PROVE  RunningOf(jobs, s) = {}
<1>1. RunningOf(jobs, s) \subseteq {session[s].inFlight.job}
  BY DEF SessionsAgree, Coherent
<1>2. session[s].inFlight.job \notin RunningOf(jobs, s)
  BY DEF WasCancelled, IsCancelled, RunningOf, Running
<1> QED
  BY <1>1, <1>2

\* An ending pumps: its session has nothing in flight, and what waited still
\* does or was dropped.
LEMMA EndingKeeps ==
  ASSUME Typed, SessionsAgree, NEW s \in Live, NEW ss \in SessionState, ss.status = session[s].status,
         ss.inFlight = NoItem, ss.queue \in {session[s].queue, <<>>},
         NEW js, RegistryOK(js, made), QueuedOf(js, s) = QueuedIds(ss), RunningOf(js, s) = {},
         \A t \in Sessions \ {s} : QueuedOf(js, t) = QueuedOf(jobs, t) /\ RunningOf(js, t) = RunningOf(jobs, t),
         Pump(s, ss, js), UNCHANGED <<made, stopped>>
  PROVE  SessionsAgree' /\ Live' = Live /\ SentRun
<1>1. s \in Sessions /\ made \in Nat /\ Coherent(s, session[s], jobs, stopped, made)
  BY DEF Live, Typed, TypeOK, SessionsAgree
<1>2. QueuedIds(ss) \subseteq QueuedOf(jobs, s) /\ QueuedIds(ss) \cap stopped = {}
  BY <1>1 DEF QueuedIds, Coherent
<1>3. Moves(s, jobs, js, made)
  BY <1>2 DEF Moves
<1>4. \A i \in DOMAIN ss.queue : ss.queue[i].job \in 1..made
  BY DEF RegistryOK, QueuedIds, QueuedOf, Queued
<1>5. NoItem.job = 0 /\ NoJob = 0
  BY DEF NoItem, NoJob
<1>6. Ordered(ss)
  <2>1. Ascending(ss.queue)
    BY <1>1 DEF Coherent, Ordered, Ascending
  <2>2. \A i \in DOMAIN ss.queue : 0 < ss.queue[i].job
    BY <1>1, <1>4
  <2> QED
    BY <1>5, <2>1, <2>2 DEF Ordered
<1>7. \A t \in Sessions : 0 \notin QueuedOf(js, t) \cup RunningOf(js, t)
  BY DEF RegistryOK, QueuedOf, RunningOf, Queued, Running
<1>8. Coherent(s, ss, js, stopped, made)
  BY <1>1, <1>2, <1>5, <1>6, <1>7 DEF Coherent
<1>9. made' \in Nat /\ made <= made' /\ made' = made
  BY <1>1
<1> QED
  BY <1>3, <1>8, <1>9, PumpKeeps

\* What an ending makes of a session's state, as far as agreement goes.
Frees(ss, after) ==
  /\ after \in SessionState /\ after.inFlight = NoItem
  /\ after.queue = ss.queue /\ after.status = ss.status

\* The end of a statement frees its place, and queues nothing.
LEMMA EndedFrees ==
  ASSUME NEW ss \in SessionState
  PROVE  /\ Frees(ss, Ended(ss)) /\ Frees(ss, Succeeded(ss))
         /\ \A a \in SessionState : Frees(ss, a) => /\ Frees(ss, [a EXCEPT !.cursorKept = FALSE])
                                                    /\ Frees(ss, Placeless(a))
<1>1. Frees(ss, Ended(ss))
  BY EndedTyped DEF Ended, SessionState, Frees
<1>2. Frees(ss, Succeeded(ss))
  <2> DEFINE change == IF ss.txChanges = <<>> THEN "none" ELSE Head(ss.txChanges)
             ended == Ended(ss)
             tx == CASE change = "begins" -> TRUE [] change = "ends" -> FALSE [] OTHER -> ended.inTx
             after == [ended EXCEPT !.inTx = tx]
  <2>1. Succeeded(ss) = after
    BY DEF Succeeded
  <2>2. ended \in SessionState
    BY EndedTyped
  <2> HIDE DEF tx, ended
  <2>3. after.inFlight = ended.inFlight /\ after.queue = ended.queue /\ after.status = ended.status
    BY <2>2 DEF SessionState
  <2> HIDE DEF after
  <2>4. Succeeded(ss) \in SessionState
    BY EndedTyped
  <2> QED
    BY <1>1, <2>1, <2>3, <2>4 DEF Frees, ended
<1>3. ASSUME NEW a \in SessionState, Frees(ss, a)
      PROVE  Frees(ss, [a EXCEPT !.cursorKept = FALSE]) /\ Frees(ss, Placeless(a))
  <2> DEFINE b == [a EXCEPT !.cursorKept = FALSE]
             c == [a EXCEPT !.cursor = 0]
  <2>1. b \in SessionState /\ c \in SessionState
    BY EndedTyped DEF Placeless
  <2>2. b.inFlight = a.inFlight /\ b.queue = a.queue /\ b.status = a.status
    BY DEF SessionState
  <2>3. c.inFlight = a.inFlight /\ c.queue = a.queue /\ c.status = a.status
    BY DEF SessionState
  <2> HIDE DEF b, c
  <2>4. Frees(ss, b)
    BY <1>3, <2>1, <2>2 DEF Frees
  <2>5. Frees(ss, c)
    BY <1>3, <2>1, <2>3 DEF Frees
  <2> QED
    BY <2>4, <2>5 DEF Placeless, b, c
<1> QED
  BY <1>1, <1>2, <1>3

\* So does showing its rows.
LEMMA NewTabFrees ==
  ASSUME NEW ss, NEW a \in SessionState, Frees(ss, a), NEW job \in Nat, NEW sql \in Statements \cup {NoSql},
         NEW rows \in Rows, NEW truncated \in BOOLEAN, NEW stops \in BOOLEAN
  PROVE  Frees(ss, NewTab(a, job, sql, rows, truncated, stops))
<1> DEFINE shown == NewTab(a, job, sql, rows, truncated, stops)
<1>1. shown \in SessionState
  BY NewTabTyped
<1>2. shown.inFlight = a.inFlight /\ shown.queue = a.queue /\ shown.status = a.status
  BY DEF NewTab, SessionState
<1> HIDE DEF shown
<1> QED
  BY <1>1, <1>2 DEF Frees, shown

\* Hearing an answer ends its job, and starts the next, on both sides.
LEMMA HearAgrees ==
  ASSUME Typed, Agreed, NEW s \in Sessions, Hear(s)
  PROVE  Agreed' /\ SentRun
<1> DEFINE ss == session[s]
           answer == Head(answers[s])
           item == ss.inFlight
<1>1. /\ ss \in SessionState /\ made \in Nat /\ RegistryOK(jobs, made) /\ SessionsAgree
      /\ UNCHANGED <<made, dialog, stopped>> /\ dialog.who \subseteq Live
      /\ answer \in AnswerSet
  <2>1. answers[s] \in Seq(AnswerSet) /\ answers[s] # <<>>
    BY DEF Hear, Typed, ChannelsOK
  <2>2. answer \in AnswerSet
    BY <2>1, HeadAndTail
  <2> QED
    BY <2>2 DEF Hear, Typed, TypeOK, RegistryOK, Agreed
<1> DEFINE Goal == SessionsAgree' /\ Live \subseteq Live' /\ SentRun
<1> SUFFICES Goal
  BY <1>1 DEF Agreed
<1>2. ASSUME NEW after \in SessionState, after.queue = ss.queue, after.inFlight = ss.inFlight,
             s \in Live => after.status \in {"connecting", "open", "failed"}, Only(s, after)
      PROVE  Goal
  BY <1>1, <1>2, OnlyKeeps DEF Only, SentRun
<1>3. QueuedOf(jobs, s) = QueuedIds(ss)
  BY <1>1 DEF SessionsAgree, Coherent
<1>4. ASSUME s \in Live, NEW after, Frees(ss, after),
             \/ WasCancelled(s) /\ Skip(s, after)
             \/ \E js \in {Finish(jobs, item.job), Fail(jobs, item.job)} : Pump(s, after, js)
      PROVE  Goal
  <2>1. QueuedIds(after) = QueuedIds(ss)
    BY <1>4 DEF QueuedIds, Frees
  <2>2. CASE WasCancelled(s) /\ Skip(s, after)
    BY <1>1, <1>3, <1>4, <2>1, <2>2, CancelledHasEnded, EndingKeeps DEF Frees, Skip
  <2>3. CASE \E js \in {Finish(jobs, item.job), Fail(jobs, item.job)} : Pump(s, after, js)
    <3>1. PICK js \in {Finish(jobs, item.job), Fail(jobs, item.job)} : Pump(s, after, js)
      BY <2>3
    <3>2. /\ RegistryOK(js, made) /\ QueuedOf(js, s) = QueuedIds(after) /\ RunningOf(js, s) = {}
          /\ \A t \in Sessions \ {s} : QueuedOf(js, t) = QueuedOf(jobs, t) /\ RunningOf(js, t) = RunningOf(jobs, t)
      BY <1>1, <1>3, <2>1, EndsInRegistry
    <3> HIDE DEF ss
    <3> QED
      BY <1>1, <1>4, <3>1, <3>2, EndingKeeps DEF Frees, ss
  <2> QED
    BY <1>4, <2>2, <2>3
<1> HIDE DEF Goal
<1>5. CASE s \in Live /\ Done(s, answer)
  <2> DEFINE ended == [Succeeded(ss) EXCEPT !.cursorKept = FALSE]
             shown == NewTab(ended, item.job, item.sql, answer.rows, answer.more, FALSE)
             after == [shown EXCEPT !.cursor = IF ss.cursorKept /\ answer.more THEN shown.tabsMade ELSE @]
  <2>1. Frees(ss, ended) /\ ended \in SessionState
    BY <1>1, EndedFrees DEF Frees
  <2>2. CASE WasCancelled(s)
    BY <1>4, <1>5, <2>1, <2>2 DEF Done
  <2>3. CASE ~WasCancelled(s)
    <3>0. item \in Item \cup {NoItem} /\ answer.rows \in Rows /\ answer.more \in BOOLEAN
      BY <1>1 DEF SessionState, AnswerSet
    <3>1. item.job \in Nat /\ item.sql \in Statements \cup {NoSql}
      BY <3>0 DEF Item, NoItem, NoJob
    <3>2. Frees(ss, shown)
      BY <2>1, <3>0, <3>1, NewTabFrees
    <3>3. Pump(s, after, Finish(jobs, item.job))
      BY <1>5, <2>3 DEF Done
    <3> HIDE DEF shown
    <3>4. Frees(ss, after)
      BY <3>2 DEF SessionState, Frees
    <3> QED
      BY <1>4, <1>5, <3>3, <3>4
  <2> QED
    BY <2>2, <2>3
<1>6. CASE s \in Live /\ Failed(s, answer)
  <2> DEFINE ended == [Ended(ss) EXCEPT !.cursorKept = FALSE]
             shown == NewTab(ended, item.job, item.sql, answer.rows, FALSE, TRUE)
             failed == Fail(jobs, item.job)
             js == RemoveQueued(failed, QueuedIds(ss))
  <2>1. Frees(ss, ended) /\ ended \in SessionState
    BY <1>1, EndedFrees DEF Frees
  <2>2. item.job \in Nat /\ item.sql \in Statements \cup {NoSql} /\ answer.rows \in Rows
    BY <1>1 DEF SessionState, Item, NoItem, NoJob, AnswerSet
  <2>3. Frees(ss, shown)
    BY <2>1, <2>2, NewTabFrees
  <2>4. \/ WasCancelled(s) /\ Skip(s, ended)
        \/ Pump(s, shown, failed)
        \/ Pump(s, Dropped(shown), js)
    BY <1>6 DEF Failed
  <2> HIDE DEF shown, ended
  <2>5. CASE Pump(s, Dropped(shown), js)
    <3>1. /\ Dropped(shown) \in SessionState /\ Dropped(shown).inFlight = NoItem
          /\ Dropped(shown).queue = <<>> /\ Dropped(shown).status = ss.status
      <4>1. shown \in SessionState
        BY <2>3 DEF Frees
      <4>2. /\ Dropped(shown) \in SessionState /\ Dropped(shown).inFlight = shown.inFlight
            /\ Dropped(shown).queue = <<>> /\ Dropped(shown).status = shown.status
        BY <4>1, EndedTyped DEF Dropped, SessionState
      <4> QED
        BY <2>3, <4>2 DEF Frees
    <3>2. /\ RegistryOK(failed, made) /\ QueuedOf(failed, s) = QueuedOf(jobs, s) /\ RunningOf(failed, s) = {}
          /\ \A t \in Sessions \ {s} : QueuedOf(failed, t) = QueuedOf(jobs, t) /\ RunningOf(failed, t) = RunningOf(jobs, t)
      BY <1>1, EndsInRegistry
    <3> HIDE DEF failed
    <3>3. /\ RegistryOK(js, made)
          /\ \A t \in Sessions : /\ QueuedOf(js, t) = QueuedOf(failed, t) \ QueuedIds(ss)
                                 /\ RunningOf(js, t) = RunningOf(failed, t)
      BY <1>1, <3>2, RemoveQueuedCloses
    <3> HIDE DEF js
    <3>4. QueuedOf(js, s) = {} /\ RunningOf(js, s) = {}
      BY <1>3, <3>2, <3>3
    <3>5. ASSUME NEW t \in Sessions \ {s}
          PROVE  QueuedOf(js, t) = QueuedOf(jobs, t) /\ RunningOf(js, t) = RunningOf(jobs, t)
      <4>1. (QueuedOf(jobs, s) \cup RunningOf(jobs, s)) \cap (QueuedOf(jobs, t) \cup RunningOf(jobs, t)) = {}
        BY OpenOnce
      <4>2. QueuedOf(js, t) = QueuedOf(jobs, t) \ QueuedIds(ss) /\ RunningOf(js, t) = RunningOf(jobs, t)
        BY <3>2, <3>3
      <4> QED
        BY <1>3, <4>1, <4>2
    <3>6. QueuedIds(Dropped(shown)) = {}
      BY <3>1 DEF QueuedIds
    <3>7. SessionsAgree' /\ Live' = Live /\ SentRun
      BY <1>1, <1>6, <2>5, <3>1, <3>3, <3>4, <3>5, <3>6, EndingKeeps
    <3> QED
      BY <3>7 DEF Goal
  <2> QED
    BY <1>4, <1>6, <2>1, <2>3, <2>4, <2>5
<1>7. CASE s \in Live /\ MoreRows(s, answer)
  <2> DEFINE ended == IF answer.more THEN Ended(ss) ELSE Placeless(Ended(ss))
             longer == [i \in DOMAIN ended.tabs |->
                          IF ended.tabs[i].number = item.tab THEN Extended(ended.tabs[i], answer)
                          ELSE ended.tabs[i]]
             after == [ended EXCEPT !.tabs = longer]
  <2>1. Frees(ss, ended) /\ Frees(ss, Placeless(ended)) /\ ended \in SessionState
    BY <1>1, EndedFrees DEF Frees
  <2>2. /\ item.how # "more" => Only(s, ss)
        /\ item.how = "more" /\ WasCancelled(s) => Skip(s, Placeless(ended))
    BY <1>7 DEF MoreRows
  <2>6. item.how = "more" /\ ~WasCancelled(s) =>
          Pump(s, after, IF answer.ok THEN Finish(jobs, item.job) ELSE Fail(jobs, item.job))
    BY <1>7 DEF MoreRows
  <2> HIDE DEF ended
  <2>3. longer \in Seq(Tab)
    <3>1. ended.tabs \in Seq(Tab)
      BY <2>1 DEF SessionState
    <3> QED
      BY <1>1, <3>1, ExtendedTyped
  <2> HIDE DEF longer
  <2>4. Frees(ss, after)
    BY <2>1, <2>3 DEF SessionState, Frees
  <2> HIDE DEF after
  <2>5. CASE item.how # "more"
    BY <1>1, <1>2, <2>2, <2>5 DEF Live
  <2>7. CASE item.how = "more" /\ WasCancelled(s)
    BY <1>4, <1>7, <2>1, <2>2, <2>7
  <2>8. CASE item.how = "more" /\ ~WasCancelled(s)
    BY <1>4, <1>7, <2>4, <2>6, <2>8
  <2> QED
    BY <2>5, <2>7, <2>8
<1>8. CASE s \in Live /\ ExportEnded(s, answer)
  <2> DEFINE ended == IF answer.ok THEN Succeeded(ss) ELSE Ended(ss)
  <2>1. Frees(ss, ended)
    BY <1>1, EndedFrees
  <2>2. \/ Only(s, ss)
        \/ answer.job = item.job /\ Pump(s, ended, IF WasCancelled(s) THEN jobs
             ELSE IF answer.ok THEN Finish(jobs, answer.job) ELSE Fail(jobs, answer.job))
    BY <1>8 DEF ExportEnded
  <2> HIDE DEF ended
  <2>3. CASE Only(s, ss)
    BY <1>1, <1>2, <2>3 DEF Live
  <2> QED
    BY <1>4, <1>8, <2>1, <2>2, <2>3 DEF Skip
<1>9. CASE s \in Live /\ Only(s, Told(ss, answer))
  <2>1. /\ Told(ss, answer) \in SessionState /\ Told(ss, answer).queue = ss.queue
        /\ Told(ss, answer).inFlight = ss.inFlight
        /\ Told(ss, answer).status \in {ss.status, "open", "failed"}
    <3>1. /\ Told(ss, answer).queue = ss.queue /\ Told(ss, answer).inFlight = ss.inFlight
          /\ Told(ss, answer).status \in {ss.status, "open", "failed"}
      <4> HIDE DEF ss, answer
      <4>1. \A cursor \in Nat, kept \in BOOLEAN :
              /\ [ss EXCEPT !.cursor = cursor].queue = ss.queue
              /\ [ss EXCEPT !.cursor = cursor].inFlight = ss.inFlight
              /\ [ss EXCEPT !.cursor = cursor].status = ss.status
              /\ [ss EXCEPT !.cursorKept = kept].queue = ss.queue
              /\ [ss EXCEPT !.cursorKept = kept].inFlight = ss.inFlight
              /\ [ss EXCEPT !.cursorKept = kept].status = ss.status
        BY <1>1 DEF SessionState
      <4> QED
        BY <1>1, <4>1 DEF Told, Placeless, SessionState
    <3> QED
      BY <1>1, <3>1, ToldTyped
  <2> HIDE DEF ss
  <2> QED
    BY <1>2, <1>9, <2>1 DEF Live, ss
<1>10. CASE s \notin Live
  BY <1>1, <1>2, <1>10 DEF Hear
<1>11. CASE s \in Live
  BY <1>5, <1>6, <1>7, <1>8, <1>9, <1>11 DEF Hear
<1> QED
  BY <1>10, <1>11

\* Quitting: every session in a transaction had sent all it had, so its rollback
\* goes out at once or waits behind the one statement in flight.
LEMMA QuitAgrees ==
  ASSUME Typed, Agreed, QuitRollingBack
  PROVE  Agreed' /\ SentRun
<1> DEFINE who == dialog.who
           n == Cardinality(who)
           back(s) == RollingBack(s)
           id(s) == Rollback(s).job
<1>1. /\ who \subseteq Live /\ who \in SUBSET Sessions /\ made \in Nat /\ n \in Nat /\ RegistryOK(jobs, made)
      /\ session \in [Sessions -> SessionState] /\ stopped \subseteq 1..made
      /\ made' = made + n /\ UNCHANGED stopped
  BY Places DEF Agreed, Typed, TypeOK, RegistryOK, Live, QuitRollingBack
<1>2. \A s \in Sessions : /\ Coherent(s, session[s], jobs, stopped, made) /\ Settled(session[s])
                          /\ s \notin Live => session[s].inFlight = NoItem
  BY DEF Agreed, SessionsAgree
<1>3. /\ session' = [s \in Sessions |-> IF s \in who THEN Pumped(back(s)) ELSE NothingHeld[s]]
      /\ DOMAIN jobs' = DOMAIN jobs \cup {id(s) : s \in who}
      /\ \A i \in DOMAIN jobs' : jobs'[i] =
           IF i \in DOMAIN jobs THEN jobs[i]
           ELSE LET s == CHOOSE t \in who : id(t) = i
                IN  [session |-> s, kind |-> "Query", state |-> IF Sends(back(s)) THEN "running" ELSE "queued"]
      /\ dialog' = NoDialog
  BY DEF QuitRollingBack
<1>4. \A s \in who : /\ Rollback(s) \in Item /\ id(s) \in (made + 1)..(made + n)
                     /\ id(s) = made + Place(who, s)
  BY RollbackItem
<1>5. \A s, t \in who : id(s) = id(t) => s = t
  <2>1. ASSUME NEW s \in who, NEW t \in who, id(s) = id(t) PROVE s = t
    <3>1. Place(who, s) \in Nat /\ Place(who, t) \in Nat
      BY <1>1, Places
    <3>2. made + Place(who, s) = made + Place(who, t)
      BY <1>4, <2>1
    <3>3. Place(who, s) = Place(who, t)
      BY <1>1, <3>1, <3>2
    <3> QED
      BY <1>1, <3>3, Places
  <2> QED
    BY <2>1
<1>6. \A s \in who : id(s) \notin DOMAIN jobs /\ id(s) \in Nat /\ made < id(s)
  BY <1>1, <1>4 DEF RegistryOK
<1>7. \A s \in who : /\ back(s) \in SessionState /\ back(s).inFlight = session[s].inFlight
                     /\ back(s).queue = session[s].queue \o <<Rollback(s)>> /\ back(s).status = session[s].status
  BY <1>1, RollingBackTyped DEF RollingBack, Behind, SessionState
<1> HIDE DEF id, back, n
<1>8. \A s \in who : /\ jobs'[id(s)].session = s /\ id(s) \in DOMAIN jobs'
                     /\ jobs'[id(s)].state = IF Sends(back(s)) THEN "running" ELSE "queued"
  <2>1. ASSUME NEW s \in who
        PROVE  jobs'[id(s)] = [session |-> s, kind |-> "Query", state |-> IF Sends(back(s)) THEN "running" ELSE "queued"]
    <3>1. (CHOOSE t \in who : id(t) = id(s)) = s
      BY <1>5
    <3> QED
      BY <1>3, <1>6, <3>1
  <2>2. ASSUME NEW s \in who
        PROVE  /\ jobs'[id(s)].session = s /\ id(s) \in DOMAIN jobs'
               /\ jobs'[id(s)].state = IF Sends(back(s)) THEN "running" ELSE "queued"
    <3> DEFINE state == IF Sends(back(s)) THEN "running" ELSE "queued"
    <3>1. jobs'[id(s)] = [session |-> s, kind |-> "Query", state |-> state]
      BY <2>1
    <3> HIDE DEF state
    <3>2. jobs'[id(s)].session = s /\ jobs'[id(s)].state = state
      BY <3>1
    <3>3. id(s) \in DOMAIN jobs'
      BY <1>3
    <3> QED
      BY <3>2, <3>3 DEF state
  <2> QED
    BY <2>2
<1>9. ASSUME NEW s \in Sessions
      PROVE  /\ QueuedOf(jobs', s) = QueuedOf(jobs, s) \cup {i \in {id(t) : t \in {s} \cap who} : ~Sends(back(s))}
             /\ RunningOf(jobs', s) = RunningOf(jobs, s) \cup {i \in {id(t) : t \in {s} \cap who} : Sends(back(s))}
  <2>1. \A i \in DOMAIN jobs : i \in DOMAIN jobs' /\ jobs'[i] = jobs[i]
    BY <1>3
  <2>2. \A i \in DOMAIN jobs' : i \in DOMAIN jobs \/ \E t \in who : i = id(t)
    BY <1>3
  <2>3. \A t \in who : id(t) \notin DOMAIN jobs
    BY <1>6
  <2> DEFINE new == {id(t) : t \in {s} \cap who}
  <2>4. \A i : i \in new <=> s \in who /\ i = id(s)
    OBVIOUS
  <2> HIDE DEF new
  <2>5. ASSUME NEW i
        PROVE  /\ i \in QueuedOf(jobs', s) <=> i \in QueuedOf(jobs, s) \/ (i \in new /\ ~Sends(back(s)))
               /\ i \in RunningOf(jobs', s) <=> i \in RunningOf(jobs, s) \/ (i \in new /\ Sends(back(s)))
    <3>1. CASE i \in DOMAIN jobs
      BY <2>1, <2>3, <2>4, <3>1 DEF QueuedOf, RunningOf, Queued, Running, JobsOf
    <3>2. CASE i \notin DOMAIN jobs'
      BY <1>8, <2>1, <2>4, <3>2 DEF QueuedOf, RunningOf, Queued, Running, JobsOf
    <3>3. ASSUME NEW t \in who, i = id(t)
          PROVE  /\ i \in QueuedOf(jobs', s) <=> i \in QueuedOf(jobs, s) \/ (i \in new /\ ~Sends(back(s)))
                 /\ i \in RunningOf(jobs', s) <=> i \in RunningOf(jobs, s) \/ (i \in new /\ Sends(back(s)))
      <4>1. i \in new <=> t = s
        BY <1>5, <2>4, <3>3
      <4>2. /\ i \in DOMAIN jobs' /\ i \notin DOMAIN jobs /\ jobs'[i].session = t
            /\ jobs'[i].state = IF Sends(back(t)) THEN "running" ELSE "queued"
        BY <1>8, <2>3, <3>3
      <4> QED
        BY <4>1, <4>2 DEF QueuedOf, RunningOf, Queued, Running, JobsOf
    <3> QED
      BY <2>2, <3>1, <3>2, <3>3
  <2> QED
    BY <2>5 DEF new
<1>10. \A s \in Sessions : \A i \in QueuedOf(jobs', s) \cup RunningOf(jobs', s) :
         i \in QueuedOf(jobs, s) \cup RunningOf(jobs, s) \/ (i \in Nat /\ made < i)
  BY <1>6, <1>9
<1>11. ASSUME NEW s \in Sessions, NEW t \in Sessions
       PROVE  session[s].inFlight.job \in QueuedOf(jobs', t) \cup RunningOf(jobs', t) => s = t
  <2>1. session[s].inFlight.job <= made /\ session[s].inFlight.job \in Nat
    BY <1>1, <1>2 DEF Coherent, SessionState, Item, NoItem, NoJob
  <2>2. ~(made < session[s].inFlight.job)
    BY <1>1, <2>1
  <2> QED
    BY <1>2, <1>10, <2>2 DEF Coherent
<1>12. ASSUME NEW s \in Sessions, s \notin who
       PROVE  /\ Coherent(s, session'[s], jobs', stopped', made') /\ Settled(session'[s])
              /\ session'[s].inFlight = session[s].inFlight /\ session'[s].status = session[s].status
  <2>1. /\ session'[s].queue = session[s].queue /\ session'[s].inFlight = session[s].inFlight
        /\ session'[s].status = session[s].status
    BY <1>1, <1>3, <1>12 DEF NothingHeld, SessionState
  <2>2. QueuedOf(jobs', s) = QueuedOf(jobs, s) /\ RunningOf(jobs', s) = RunningOf(jobs, s)
    <3>1. {s} \cap who = {}
      BY <1>12
    <3> QED
      BY <1>9, <3>1
  <2>3. session[s].inFlight.job <= made'
    <3>1. session[s].inFlight.job <= made
      BY <1>2 DEF Coherent
    <3>2. session[s].inFlight.job \in Nat
      BY <1>1 DEF SessionState, Item, NoItem, NoJob
    <3> QED
      BY <1>1, <3>1, <3>2
  <2>4. Coherent(s, session[s], jobs', stopped', made')
    BY <1>1, <1>2, <1>11, <2>2, <2>3 DEF Coherent
  <2> QED
    BY <1>2, <2>1, <2>4, CoherentAlike DEF Settled
<1>13. ASSUME NEW s \in who
       PROVE  /\ Coherent(s, session'[s], jobs', stopped', made') /\ Settled(session'[s])
              /\ session'[s].status = session[s].status
  <2> DEFINE q == session[s].queue
             item == Rollback(s)
  <2>1. s \in Sessions /\ session[s] \in SessionState /\ q \in Seq(Item) /\ item \in Item /\ item # NoItem
    <3>1. s \in Sessions /\ session[s] \in SessionState /\ item \in Item
      BY <1>1, <1>4
    <3>2. item.how \in Hows /\ NoItem.how \notin Hows
      BY <3>1 DEF Item, NoItem, Hows
    <3> QED
      BY <3>1, <3>2 DEF SessionState
  <2>2. /\ session'[s] = Pumped(back(s)) /\ back(s) \in SessionState
        /\ back(s).inFlight = session[s].inFlight /\ back(s).queue = q \o <<item>>
        /\ back(s).status = session[s].status
    BY <1>3, <1>7, <2>1
  <2>3. id(s) \notin stopped /\ id(s) <= made' /\ id(s) # NoJob /\ item.job = id(s)
    BY <1>1, <1>4, <1>6 DEF NoJob, id, n
  <2>4. \A t \in Sessions \ {s} : id(s) \notin QueuedOf(jobs', t) \cup RunningOf(jobs', t)
    BY <1>8 DEF QueuedOf, RunningOf, JobsOf
  <2> HIDE DEF q, item
  <2>5. CASE session[s].inFlight = NoItem
    <3>1. q = <<>>
      BY <1>2, <2>1, <2>5 DEF Settled, q
    <3>2. back(s).queue = <<item>>
      BY <2>1, <2>2, <3>1
    <3>3. Sends(back(s)) /\ Head(<<item>>) = item /\ Tail(<<item>>) = <<>>
      BY <2>2, <2>5, <3>2 DEF Sends
    <3>4. session'[s].inFlight = item /\ session'[s].queue = <<>> /\ session'[s].status = session[s].status
      BY <2>2, <3>2, <3>3 DEF Pumped, SessionState
    <3>5. QueuedOf(jobs, s) = {} /\ RunningOf(jobs, s) = {}
      BY <1>2, <2>1, <2>5, <3>1 DEF Coherent, QueuedIds, NoItem, q
    <3>6. QueuedOf(jobs', s) = {} /\ RunningOf(jobs', s) = {id(s)}
      BY <1>9, <2>1, <3>3, <3>5
    <3>7. QueuedIds(session'[s]) = {} /\ Ordered(session'[s])
      BY <3>4 DEF QueuedIds, Ordered, Ascending
    <3>8. session'[s].inFlight.job = id(s)
      BY <2>3, <3>4
    <3>9. {id(s)} \ (stopped' \cup {NoJob}) = {id(s)}
      BY <1>1, <2>3
    <3>10. Coherent(s, session'[s], jobs', stopped', made')
      BY <2>3, <2>4, <3>6, <3>7, <3>8, <3>9 DEF Coherent
    <3> QED
      BY <2>1, <3>4, <3>10 DEF Settled
  <2>6. CASE session[s].inFlight # NoItem
    <3>1. ~Sends(back(s)) /\ session'[s] = back(s)
      BY <2>2, <2>6 DEF Sends, Pumped
    <3>2. QueuedOf(jobs', s) = QueuedOf(jobs, s) \cup {id(s)} /\ RunningOf(jobs', s) = RunningOf(jobs, s)
      BY <1>9, <2>1, <3>1
    <3>3. Coherent(s, session[s], jobs, stopped, made) /\ RegistryOK(jobs, made)
      BY <1>1, <1>2, <2>1
    <3> DEFINE r == q \o <<item>>
    <3>4. DOMAIN q = 1..Len(q) /\ Len(q) \in Nat
      BY <2>1
    <3>5. /\ DOMAIN r = 1..(Len(q) + 1)
          /\ \A i \in 1..Len(q) : r[i] = q[i]
          /\ r[Len(q) + 1] = item
      BY <2>1, <3>4
    <3> HIDE DEF r
    <3>6. \A i \in 1..Len(q) : q[i].job \in 1..made
      <4>1. QueuedIds(session[s]) \subseteq 1..made
        BY <3>3 DEF Coherent, RegistryOK, QueuedOf, Queued
      <4> QED
        BY <3>4, <4>1 DEF QueuedIds, q
    <3>7. /\ \A i, j \in 1..Len(q) : i < j => q[i].job < q[j].job
          /\ \A i \in 1..Len(q) : session[s].inFlight.job < q[i].job
      BY <3>3, <3>4 DEF Coherent, Ordered, Ascending, q
    <3>8. session[s].inFlight.job <= made /\ session[s].inFlight.job \in Nat
      BY <2>1, <3>3 DEF Coherent, SessionState, Item, NoItem, NoJob
    <3>9. id(s) \in Nat /\ made < id(s)
      BY <1>6
    <3>10. Ascending(r)
      <4>1. ASSUME NEW i \in 1..(Len(q) + 1), NEW j \in 1..(Len(q) + 1), i < j PROVE r[i].job < r[j].job
        <5>1. i \in 1..Len(q)
          BY <3>4, <4>1
        <5>2. CASE j \in 1..Len(q)
          BY <3>5, <3>7, <4>1, <5>1, <5>2
        <5>3. CASE j = Len(q) + 1
          <6>1. r[j].job = id(s) /\ r[i].job = q[i].job /\ q[i].job \in 1..made
            BY <2>3, <3>5, <3>6, <5>1, <5>3
          <6> QED
            BY <1>1, <3>9, <6>1
        <5> QED
          BY <3>4, <5>2, <5>3
      <4> QED
        BY <3>5, <4>1 DEF Ascending
    <3>11. \A i \in DOMAIN r : session[s].inFlight.job < r[i].job
      <4>1. session[s].inFlight.job < r[Len(q) + 1].job
        BY <1>1, <2>3, <3>5, <3>8, <3>9
      <4>2. \A i \in 1..(Len(q) + 1) : i \in 1..Len(q) \/ i = Len(q) + 1
        BY <3>4
      <4> QED
        BY <3>5, <3>7, <4>1, <4>2
    <3>12. {r[i].job : i \in DOMAIN r} = {q[i].job : i \in DOMAIN q} \cup {id(s)}
      <4>1. \A i \in DOMAIN r : i \in DOMAIN q \/ i = Len(q) + 1
        BY <3>4, <3>5
      <4>2. DOMAIN q \subseteq DOMAIN r /\ Len(q) + 1 \in DOMAIN r
        BY <3>4, <3>5
      <4> QED
        BY <2>3, <3>4, <3>5, <4>1, <4>2
    <3>13. session'[s].queue = r /\ session'[s].inFlight = session[s].inFlight
      BY <2>2, <3>1 DEF r
    <3>14. QueuedIds(session'[s]) = QueuedIds(session[s]) \cup {id(s)} /\ Ordered(session'[s])
      BY <3>10, <3>11, <3>12, <3>13 DEF QueuedIds, Ordered, q
    <3>15. session[s].inFlight.job <= made'
      BY <1>1, <3>8 DEF n
    <3>16. QueuedIds(session'[s]) \cap stopped' = {}
      BY <1>1, <2>3, <3>3, <3>14 DEF Coherent
    <3>17. /\ QueuedOf(jobs', s) = QueuedIds(session'[s])
           /\ RunningOf(jobs', s) = {session'[s].inFlight.job} \ (stopped' \cup {NoJob})
      BY <1>1, <3>2, <3>3, <3>13, <3>14 DEF Coherent
    <3>18. \A t \in Sessions \ {s} : session'[s].inFlight.job \notin QueuedOf(jobs', t) \cup RunningOf(jobs', t)
      BY <1>11, <2>1, <3>13
    <3>19. Coherent(s, session'[s], jobs', stopped', made')
      BY <3>13, <3>14, <3>15, <3>16, <3>17, <3>18 DEF Coherent
    <3> QED
      BY <2>2, <2>6, <3>1, <3>13, <3>19 DEF Settled
  <2> QED
    BY <2>5, <2>6
<1>14. Live' = Live
  <2>1. \A s \in Sessions : session'[s].status = session[s].status
    BY <1>12, <1>13
  <2> QED
    BY <2>1 DEF Live
<1>15. \A s \in Sessions : s \notin Live' => session'[s].inFlight = NoItem
  BY <1>1, <1>2, <1>12, <1>14
<1>16. dialog'.who = {}
  BY <1>3 DEF NoDialog
<1>17. SentRun
  <2> DEFINE out == [s \in Sessions |-> IF s \in who THEN Sent(back(s)) ELSE <<>>]
  <2>1. Deliver(out)
    BY DEF QuitRollingBack, back
  <2>2. ASSUME NEW s \in Sessions
        PROVE  \/ out[s] = <<>>
               \/ \E c \in CommandSet : out[s] = <<c>> /\ (c.type \in StatementTypes => c.job \in Running(jobs'))
    <3>1. CASE s \notin who \/ ~Sends(back(s))
      BY <3>1 DEF Sent
    <3>2. CASE s \in who /\ Sends(back(s))
      <4>1. session[s].inFlight = NoItem /\ session[s].queue = <<>>
        BY <1>2, <1>7, <3>2 DEF Sends, Settled
      <4> DEFINE item == Rollback(s)
                 c == CommandOf(item)
      <4>2. item \in Item /\ item.job = id(s) /\ c \in CommandSet
        BY <1>4, <3>2, CommandTyped DEF id
      <4>3. c.job = item.job
        BY DEF CommandOf, Statement
      <4> HIDE DEF item, c
      <4>4. back(s).queue = <<item>>
        <5>1. back(s).queue = <<>> \o <<item>>
          BY <1>7, <3>2, <4>1 DEF item
        <5> QED
          BY <5>1
      <4>5. out[s] = <<c>>
        BY <3>2, <4>4 DEF Sent, c
      <4>6. c.job \in Running(jobs')
        BY <1>8, <3>2, <4>2, <4>3 DEF Running
      <4> QED
        BY <4>2, <4>5, <4>6
    <3> QED
      BY <3>1, <3>2
  <2> HIDE DEF out
  <2> QED
    BY <2>1, <2>2, Delivered
<1> QED
  BY <1>17, <1>12, <1>13, <1>15, <1>16 DEF Agreed, SessionsAgree

\* A step that sends nothing to run.
LEMMA NothingToRun ==
  ASSUME Typed, \/ UNCHANGED cmds
                \/ \E s \in Sessions, type \in CommandTypes \ StatementTypes, on \in BOOLEAN :
                     Deliver(To(s, <<Direct(type, on)>>))
  PROVE  SentRun
<1>1. CASE UNCHANGED cmds
  BY <1>1 DEF SentRun
<1>2. ASSUME NEW s \in Sessions, NEW type \in CommandTypes \ StatementTypes, NEW on \in BOOLEAN,
             Deliver(To(s, <<Direct(type, on)>>))
      PROVE  SentRun
  <2> DEFINE c == Direct(type, on)
             out == To(s, <<c>>)
  <2>1. c \in CommandSet /\ c.type \notin StatementTypes
    BY CommandTyped DEF Direct
  <2> HIDE DEF c
  <2>2. \A t \in Sessions : out[t] = <<>> \/ out[t] = <<c>>
    BY DEF To
  <2>3. Deliver(out)
    BY <1>2 DEF c
  <2> HIDE DEF out
  <2> QED
    BY <2>1, <2>2, <2>3, Delivered
<1> QED
  BY <1>1, <1>2

\* The user's actions on a session.
LEMMA UserActsAgree ==
  ASSUME Typed, Agreed, NEW s \in Sessions, UserActs(s)
  PROVE  Agreed' /\ SentRun
<1>1. CASE Run(s) \/ LoadMore(s) \/ FetchAll(s) \/ ExportAll(s) \/ Release(s)
  BY <1>1, RunsAgree
<1>2. CASE CancelRunning(s) \/ DropQueued(s)
  <2>1. UNCHANGED cmds
    BY <1>2 DEF CancelRunning, DropQueued
  <2> QED
    BY <1>2, <2>1, CancelAgrees, DropAgrees, NothingToRun
<1>3. CASE \/ ToggleAutocommit(s) \/ LoadSchema(s) \/ ExportFetched(s) \/ Reconnect(s) \/ OpenSession(s)
           \/ AskToFetchAll(s)
  <2>1. session[s].autocommit \in BOOLEAN
    BY DEF Typed, TypeOK, SessionState
  <2>2. {"SetAutocommit", "LoadSchema", "ExportFetched", "Connect"} \subseteq CommandTypes \ StatementTypes
    BY DEF CommandTypes, StatementTypes
  <2>3. SentRun
    <3>1. CASE ToggleAutocommit(s)
      BY <2>1, <2>2, <3>1, NothingToRun DEF ToggleAutocommit, SendDirect
    <3>2. CASE LoadSchema(s) \/ ExportFetched(s)
      BY <2>2, <3>2, NothingToRun DEF LoadSchema, ExportFetched, SendDirect
    <3>3. CASE Reconnect(s) \/ OpenSession(s)
      BY <2>2, <3>3, NothingToRun DEF Reconnect, OpenSession, SendDirect
    <3>4. CASE AskToFetchAll(s)
      BY <3>4, NothingToRun DEF AskToFetchAll
    <3> QED
      BY <1>3, <3>1, <3>2, <3>3, <3>4
  <2> QED
    BY <1>3, <2>3, DirectAgrees
<1>4. CASE CloseOrConfirm(s) \/ CloseConfirmed(s)
  <2>1. "Connect" \in CommandTypes \ StatementTypes
    BY DEF CommandTypes, StatementTypes
  <2>2. UNCHANGED cmds \/ \E new \in Sessions : Deliver(To(new, <<Direct("Connect", FALSE)>>))
    BY <1>4 DEF CloseOrConfirm, CloseConfirmed, Close
  <2>3. SentRun
    BY <2>1, <2>2, NothingToRun
  <2> QED
    BY <1>4, <2>3, CloseAgrees
<1> QED
  BY <1>1, <1>2, <1>3, <1>4 DEF UserActs

\* A worker lost fails what ran and drops what waited, on both sides.
LEMMA WorkerLostAgrees ==
  ASSUME Typed, Agreed, NEW s \in Sessions, WorkerStopped(s)
  PROVE  Agreed' /\ SentRun
<1>0. /\ SessionsAgree /\ UNCHANGED <<made, stopped, dialog, cmds>> /\ dialog.who \subseteq Live
      /\ session \in [Sessions -> SessionState] /\ made \in Nat /\ RegistryOK(jobs, made)
  BY DEF WorkerStopped, Typed, TypeOK, RegistryOK, Agreed
<1>1. CASE s \notin Live
  <2>1. UNCHANGED <<session, jobs>>
    BY <1>1 DEF WorkerStopped
  <2>2. Live' = Live
    BY <2>1 DEF Live
  <2> QED
    BY <1>0, <2>1, <2>2, SameWork DEF Agreed, SentRun
<1>2. CASE s \in Live
  <2> DEFINE js == CloseSession(jobs, s)
             gone == GivenUp(session[s])
  <2>1. session' = [session EXCEPT ![s] = gone] /\ jobs' = js
    BY <1>2 DEF WorkerStopped
  <2>2. /\ RegistryOK(js, made) /\ QueuedOf(js, s) = {} /\ RunningOf(js, s) = {}
        /\ \A t \in Sessions \ {s} : QueuedOf(js, t) = QueuedOf(jobs, t) /\ RunningOf(js, t) = RunningOf(jobs, t)
    BY <1>0, CloseSessionCloses
  <2>3. gone.queue = <<>> /\ gone.inFlight = NoItem /\ gone.status = "failed"
    BY <1>0 DEF GivenUp, SessionState
  <2> HIDE DEF js, gone
  <2>4. \A t \in Sessions \ {s} : Coherent(t, session[t], js, stopped, made)
    <3>1. Moves(s, jobs, js, made) /\ made <= made
      BY <1>0, <2>2 DEF Moves
    <3> QED
      BY <1>0, <3>1, OthersCohere DEF SessionsAgree
  <2>5. Coherent(s, gone, js, stopped, made)
    BY <1>0, <2>2, <2>3, IdleCoheres
  <2>6. Live' = Live
    BY <1>0, <1>2, <2>1, <2>3 DEF Live
  <2>7. \A t \in Sessions : Settled(session'[t]) /\ (t \notin Live' => session'[t].inFlight = NoItem)
    BY <1>0, <2>1, <2>3, <2>6 DEF SessionsAgree, Settled
  <2>8. \A t \in Sessions : Coherent(t, session'[t], jobs', stopped', made')
    BY <1>0, <2>1, <2>4, <2>5
  <2> QED
    BY <1>0, <2>6, <2>7, <2>8 DEF Agreed, SessionsAgree, SentRun
<1> QED
  BY <1>1, <1>2

\* What is no session's action, and what the workers do.
LEMMA WorkAgrees ==
  ASSUME Typed, Agreed, Dismiss \/ Quit \/ CancelArrives \/ \E s \in Sessions : Work(s)
  PROVE  Agreed' /\ SentRun
<1>0. /\ SessionsAgree /\ dialog.who \subseteq Live /\ session \in [Sessions -> SessionState]
      /\ InTransaction \subseteq Live
  BY DEF Agreed, Typed, TypeOK, InTransaction
<1>1. CASE Dismiss
  <2>1. /\ UNCHANGED <<jobs, made, stopped, cmds>> /\ session' = NothingHeld /\ dialog'.who = {}
    BY <1>1 DEF Dismiss, NoDialog
  <2>2. \A t \in Sessions : /\ session'[t].queue = session[t].queue /\ session'[t].inFlight = session[t].inFlight
                            /\ session'[t].status = session[t].status
    BY <1>0, <2>1 DEF NothingHeld, SessionState
  <2>3. Live' = Live
    BY <2>2 DEF Live
  <2> QED
    BY <1>0, <2>1, <2>2, <2>3, SameWork DEF Agreed, SentRun
<1>2. CASE UNCHANGED <<session, jobs, made, stopped, cmds>> /\ (UNCHANGED dialog \/ dialog' = Confirm("Quit", InTransaction))
  <2>1. Live' = Live
    BY <1>2 DEF Live
  <2>2. dialog'.who \subseteq Live
    BY <1>0, <1>2 DEF Confirm
  <2> QED
    BY <1>0, <1>2, <2>1, <2>2, SameWork DEF Agreed, SentRun
<1>3. ASSUME NEW s \in Sessions, Work(s) PROVE Agreed' /\ SentRun
  <2>1. UNCHANGED <<session, jobs, made, stopped, dialog>>
    BY <1>3 DEF Work, appVars
  <2>2. Live' = Live
    BY <2>1 DEF Live
  <2>3. SentRun
    <3>1. \A t \in Sessions : cmds'[t] = cmds[t] \/ cmds'[t] = <<>> \/ (cmds[t] # <<>> /\ cmds'[t] = Tail(cmds[t]))
      <4>1. CASE Take(s)
        BY <4>1 DEF Take, Typed, ChannelsOK
      <4>2. CASE EndCommand(s)
        BY <4>2 DEF EndCommand, QueryFails, QueryExecutes, ReadEnds, ReadKept, ReadStops, ReadOn, ExportEnds,
           ExportFetchedEnds, AutocommitEnds, SchemaEnds, ConnectEnds, Ends
      <4>3. CASE Die(s)
        BY <4>3 DEF Die, Typed, ChannelsOK
      <4> QED
        BY <1>3, <4>1, <4>2, <4>3 DEF Work
    <3>2. \A t \in Sessions : DOMAIN cmds'[t] \subseteq DOMAIN cmds[t]
      <4>1. ASSUME NEW q \in Seq(CommandSet), q # <<>> PROVE DOMAIN Tail(q) \subseteq DOMAIN q
        BY <4>1
      <4>2. \A t \in Sessions : cmds[t] \in Seq(CommandSet)
        BY DEF Typed, ChannelsOK
      <4>3. ASSUME NEW t \in Sessions PROVE DOMAIN cmds'[t] \subseteq DOMAIN cmds[t]
        <5>1. CASE cmds'[t] = <<>>
          BY <5>1
        <5> QED
          BY <3>1, <4>1, <4>2, <5>1
      <4> QED
        BY <4>3
    <3> QED
      BY <3>2 DEF SentRun
  <2> QED
    BY <1>0, <2>1, <2>2, <2>3, SameWork DEF Agreed
<1>4. CASE Quit
  BY <1>2, <1>4 DEF Quit
<1>5. CASE CancelArrives
  BY <1>2, <1>5 DEF CancelArrives, CancelFires, appVars
<1> QED
  BY <1>1, <1>3, <1>4, <1>5

\* They agree when the app starts, and after every step.
LEMMA InitAgreed == Init => Agreed
<1> SUFFICES ASSUME Init PROVE Agreed
  OBVIOUS
<1>1. \A s \in Sessions : /\ session[s].queue = <<>> /\ session[s].inFlight = NoItem
                          /\ QueuedOf(jobs, s) = {} /\ RunningOf(jobs, s) = {}
  BY DEF Init, Fresh, NoJobs, QueuedOf, RunningOf, Queued, Running
<1>2. RegistryOK(jobs, made) /\ made \in Nat
  BY DEF Init, NoJobs, RegistryOK
<1>3. \A s \in Sessions : Coherent(s, session[s], jobs, stopped, made)
  BY <1>1, <1>2, IdleCoheres
<1>4. dialog.who = {}
  BY DEF Init, NoDialog
<1> QED
  BY <1>1, <1>3, <1>4 DEF Agreed, SessionsAgree, Settled

\* The step, which sends only what runs.
LEMMA NextAgreed == Typed /\ Agreed /\ [Next]_vars => Agreed' /\ (SentRun \/ UNCHANGED vars)
<1> SUFFICES ASSUME Typed, Agreed, [Next]_vars PROVE Agreed' /\ (SentRun \/ UNCHANGED vars)
  OBVIOUS
<1>1. CASE UNCHANGED vars
  <2>1. UNCHANGED <<session, jobs, made, stopped, dialog>>
    BY <1>1 DEF vars, appVars
  <2>2. Live' = Live
    BY <2>1 DEF Live
  <2> QED
    BY <1>1, <2>1, <2>2, SameWork DEF Agreed
<1> QED
  BY <1>1, UserActsAgree, HearAgrees, WorkerLostAgrees, WorkAgrees, QuitAgrees DEF Next

\* The jobs drawer agrees with the sessions: a queued job waits in its session's
\* queue, in the order the queue will send, behind what is in flight; a running
\* one is in flight; and a session that closed or was lost has no open job.
THEOREM DrawerIsRight == Spec => []DrawerAgrees
<1>1. Typed /\ Agreed => DrawerAgrees
  <2> SUFFICES ASSUME Typed, Agreed, NEW s \in Sessions
               PROVE  /\ Queued(jobs) \cap JobsOf(jobs, s) = QueuedIds(session[s])
                      /\ Running(jobs) \cap JobsOf(jobs, s) = {session[s].inFlight.job} \ (stopped \cup {NoJob})
                      /\ Ascending(<<session[s].inFlight>> \o session[s].queue)
    BY DEF DrawerAgrees
  <2> DEFINE q == session[s].queue
             first == session[s].inFlight
             line == <<first>> \o q
  <2>1. Coherent(s, session[s], jobs, stopped, made)
    BY DEF Agreed, SessionsAgree
  <2>2. q \in Seq(Item \cup {NoItem}) /\ first \in Item \cup {NoItem}
    BY DEF Typed, TypeOK, SessionState
  <2>3. /\ \A i \in DOMAIN q : first.job < q[i].job
        /\ \A i, j \in DOMAIN q : i < j => q[i].job < q[j].job
    BY <2>1 DEF Coherent, Ordered, Ascending
  <2> HIDE DEF q, first
  <2>4. /\ DOMAIN line = 1..(Len(q) + 1) /\ DOMAIN q = 1..Len(q) /\ Len(q) \in Nat
        /\ line[1] = first /\ \A i \in 2..(Len(q) + 1) : line[i] = q[i - 1]
    BY <2>2
  <2>5. Ascending(line)
    <3>1. ASSUME NEW i \in 1..(Len(q) + 1), NEW j \in 1..(Len(q) + 1), i < j PROVE line[i].job < line[j].job
      <4>1. j \in 2..(Len(q) + 1) /\ j - 1 \in DOMAIN q /\ line[j] = q[j - 1]
        BY <2>4, <3>1
      <4>2. CASE i = 1
        BY <2>3, <2>4, <4>1, <4>2
      <4>3. CASE i # 1
        <5>1. i \in 2..(Len(q) + 1) /\ i - 1 \in DOMAIN q /\ line[i] = q[i - 1] /\ i - 1 < j - 1
          BY <2>4, <3>1, <4>3
        <5> QED
          BY <2>3, <4>1, <5>1
      <4> QED
        BY <4>2, <4>3
    <3> QED
      BY <2>4, <3>1 DEF Ascending
  <2> QED
    BY <2>1, <2>5 DEF Coherent, QueuedOf, RunningOf, q, first
<1> QED
  BY <1>1, InitTyped, NextTyped, InitAgreed, NextAgreed, PTL DEF Spec

\* What the worker is given is running in the drawer: a statement dropped while
\* it waited, by the user, by a cancel or by a failure, is never sent.
THEOREM OnlyRunningIsSent == Spec => SentAreRunning
<1>1. Typed /\ Agreed /\ [Next]_vars => [SentRun]_vars
  BY NextAgreed
<1>2. [SentRun]_vars => [\A s \in Sessions :
        \A i \in (DOMAIN cmds'[s]) \ (DOMAIN cmds[s]) :
          cmds'[s][i].type \in StatementTypes => cmds'[s][i].job \in Running(jobs')]_vars
  BY DEF SentRun
<1> QED
  BY <1>1, <1>2, InitTyped, NextTyped, InitAgreed, NextAgreed, PTL DEF Spec, SentAreRunning
=============================================================================
