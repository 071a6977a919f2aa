--------------------------- MODULE StatementLine ---------------------------
(***************************************************************************)
(* What running SQL promises, without workers, channels or a registry:     *)
(* each session has one line of statements.  The first of the line is the  *)
(* one the server may be running; only it can be answered, and only an     *)
(* answer shows a result, as the newest tab.                               *)
(*                                                                         *)
(* QueryRun implements this: see MCQueryRun!ImplementsLine.                *)
(***************************************************************************)
EXTENDS Naturals, Sequences

CONSTANT Sessions

VARIABLES
  asked,     \* the newest statement
  line,      \* per session: the statements not answered, oldest first
  tabs,      \* per session: the statements whose results are shown
  cancelled  \* the statements cancelled while first of their line

lineVars == <<asked, line, tabs, cancelled>>

Elements(seq) == {seq[i] : i \in DOMAIN seq}
Rising(seq) == \A i, j \in DOMAIN seq : i < j => seq[i] < seq[j]
Longer(before, after) ==
  Len(before) <= Len(after) /\ SubSeq(after, 1, Len(before)) = before

LineInit ==
  /\ asked = 0
  /\ line = [s \in Sessions |-> <<>>]
  /\ tabs = [s \in Sessions |-> <<>>]
  /\ cancelled = {}

\* New statements join the ends of some lines, each newer than all before it.
Ask ==
  /\ asked' \in Nat /\ asked' > asked
  /\ line' \in [Sessions -> Seq(1..asked')]
  /\ \A s \in Sessions :
       /\ Longer(line[s], line'[s])
       /\ Rising(line'[s])
       /\ \A i \in (Len(line[s]) + 1)..Len(line'[s]) : line'[s][i] \in (asked + 1)..asked'
  /\ \A id \in (asked + 1)..asked' : \E s \in Sessions : id \in Elements(line'[s])
  /\ \A s, t \in Sessions : s # t => Elements(line'[s]) \cap Elements(line'[t]) = {}
  /\ UNCHANGED <<tabs, cancelled>>

\* A tab for the newest result; the oldest may go for it.
Shows(before, after, job) ==
  after \in {Append(before, job), Tail(Append(before, job))}

\* The first of the line is answered.  It is shown unless it was cancelled,
\* and if it failed the line behind it may be dropped with it.
AnswerFirst(s) ==
  /\ line[s] # <<>>
  /\ \E rest \in {Tail(line[s]), <<>>} : line' = [line EXCEPT ![s] = rest]
  /\ \/ UNCHANGED tabs
     \/ /\ Head(line[s]) \notin cancelled
        /\ Shows(tabs[s], tabs'[s], Head(line[s]))
        /\ tabs' = [tabs EXCEPT ![s] = tabs'[s]]
  /\ UNCHANGED <<asked, cancelled>>

\* The first is cancelled: it stays until it is answered, the rest goes.
CancelFirst(s) ==
  /\ line[s] # <<>>
  /\ line' = [line EXCEPT ![s] = <<Head(line[s])>>]
  /\ cancelled' = cancelled \cup {Head(line[s])}
  /\ UNCHANGED <<asked, tabs>>

\* One that waits behind the first is dropped; what stood after it moves up.
Without(seq, i) == [k \in 1..(Len(seq) - 1) |-> IF k < i THEN seq[k] ELSE seq[k + 1]]

DropWaiting(s) ==
  /\ \E i \in 2..Len(line[s]) : line' = [line EXCEPT ![s] = Without(@, i)]
  /\ UNCHANGED <<asked, tabs, cancelled>>

\* The session is closed with all it had.
Forget(s) ==
  /\ line' = [line EXCEPT ![s] = <<>>]
  /\ tabs' = [tabs EXCEPT ![s] = <<>>]
  /\ UNCHANGED <<asked, cancelled>>

LineNext ==
  \/ Ask
  \/ \E s \in Sessions : AnswerFirst(s) \/ CancelFirst(s) \/ DropWaiting(s) \/ Forget(s)

LineSpec == LineInit /\ [][LineNext]_lineVars

\* Results are shown in the order their statements were run, each at most
\* once, and all before what the line still holds.
ShownInOrder ==
  \A s \in Sessions : Rising(tabs[s] \o line[s])
=============================================================================
