----------------------------- MODULE PartsProofs -----------------------------
(***************************************************************************)
(* Proofs about four parts that stand by themselves.                       *)
(*                                                                         *)
(* Timers: whatever waits for time to pass has a timer that will end the   *)
(* wait, and a timer left behind ends no later wait, for any keys and      *)
(* bindings, any notices and any order in which the timers run out.  That  *)
(* every wait has its timer is not inductive by itself.  A timer is told   *)
(* by its number, so no other may have that number: the numbers of the     *)
(* timers that run are none to come, and the timer of the keys that wait   *)
(* was started with the last of them.                                      *)
(*                                                                         *)
(* Snippets: no two of the list have a name in common, the one an editor   *)
(* holds is in the list, and the list is on file.                          *)
(*                                                                         *)
(* The connection dialog: the record it builds comes back from being       *)
(* edited as it was, because what is chosen from a list is always on the   *)
(* list of the engine the form is on.                                      *)
(*                                                                         *)
(* The rows of a statement: the answers hold each row once and in order,   *)
(* because whatever the cursor carries over goes on after the last answer, *)
(* and what is on its way flows on from there: the batches end one after   *)
(* the other, the last at the statement's last row unless it fails.        *)
(***************************************************************************)
EXTENDS Timers, Snippets, ConnForm, RowStream, TLAPS, WellFoundedInduction

-----------------------------------------------------------------------------
(* Timers *)

Notices == Levels \cup {"info"}
TimerSet == [of : {"keys", "toast", "spinner"}, n : Nat, at : Nat]
StateSet ==
  [pending : Seq(KeyNames), keyTimer : Nat, overlay : {"none", "field", "buttons", "pending"},
   toasts : Seq(Notices), generation : Nat, spinnerTimer : Nat, timers : SUBSET TimerSet,
   pressed : Nat, came : Nat]

\* The n-th timer of a kind runs in s.
Has(s, of, n) == \E t \in s.timers : t.of = of /\ t.n = n

ToastTimed(s) == s.toasts # <<>> => Has(s, "toast", s.generation)
SpinnerTimed(s) == s.overlay = "pending" => Has(s, "spinner", s.spinnerTimer)

\* No timer of a sequence has a number that is still to be given out.
NumbersGrow(s) == \A t \in s.timers : t.of = "keys" => t.n <= s.keyTimer

\* What holds of every wait but that for keys, also while a key is looked up.
Sound(s) == s \in StateSet /\ ToastTimed(s) /\ SpinnerTimed(s) /\ NumbersGrow(s)

\* The keys that wait have a timer, started with the last of them.
KeysTimed(s) ==
  s.pending # <<>> =>
    /\ Has(s, "keys", s.keyTimer)
    /\ \A t \in s.timers : t.of = "keys" /\ t.n = s.keyTimer => t.at = s.pressed

\* The inductive invariant.
WaitsTimed == Sound(State) /\ KeysTimed(State)

-----------------------------------------------------------------------------
(* Timers and toasts *)

\* A timer more, of the state's own kind and number.
LEMMA ScheduleAdds ==
  ASSUME NEW s \in StateSet, NEW of \in {"keys", "toast", "spinner"}, NEW n \in Nat
  PROVE  LET r == Schedule(s, of, n)
         IN  /\ r \in StateSet /\ r = [s EXCEPT !.timers = r.timers]
             /\ s.timers \subseteq r.timers /\ Has(r, of, n)
             /\ \A t \in r.timers : t \in s.timers \/ t = [of |-> of, n |-> n, at |-> s.pressed]
<1> DEFINE new == [of |-> of, n |-> n, at |-> s.pressed]
           ts == s.timers \cup {new}
           r == [s EXCEPT !.timers = ts]
<1>1. new \in TimerSet /\ ts \in SUBSET TimerSet /\ new.of = of /\ new.n = n
  BY DEF StateSet, TimerSet
<1>2. Schedule(s, of, n) = r
  BY DEF Schedule
<1>3. s.timers \subseteq ts /\ new \in ts /\ \A t \in ts : t \in s.timers \/ t = new
  OBVIOUS
<1> HIDE DEF ts, new
<1>4. r \in StateSet /\ r.timers = ts
  BY <1>1 DEF StateSet
<1> QED
  BY <1>1, <1>2, <1>3, <1>4 DEF Has, new

\* Nothing that the wait for keys depends on has changed.
KeysAlike(s, r) ==
  /\ r.pending = s.pending /\ r.keyTimer = s.keyTimer /\ r.pressed = s.pressed
  /\ \A t \in TimerSet : t.of = "keys" => (t \in r.timers <=> t \in s.timers)

\* A wait for keys that nothing has changed has its timer still.
LEMMA AlikeStaysTimed ==
  ASSUME NEW s \in StateSet, NEW r \in StateSet, KeysAlike(s, r), KeysTimed(s)
  PROVE  KeysTimed(r)
BY DEF KeysAlike, KeysTimed, Has, StateSet

\* What changes nothing twice changes nothing.
LEMMA AlikeTwice ==
  ASSUME NEW s, NEW r, NEW q, KeysAlike(s, r), KeysAlike(r, q)
  PROVE  KeysAlike(s, q)
BY DEF KeysAlike

\* A toast that comes up has a timer of its own.
LEMMA RestartedSound ==
  ASSUME NEW s \in StateSet, SpinnerTimed(s), NumbersGrow(s)
  PROVE  Sound(Restarted(s)) /\ KeysAlike(s, Restarted(s))
<1> DEFINE g == s.generation + 1
           a == [s EXCEPT !.generation = g]
           r == Schedule(a, "toast", g)
<1>1. g \in Nat /\ a \in StateSet /\ a.generation = g /\ a.timers = s.timers
      /\ a.overlay = s.overlay /\ a.spinnerTimer = s.spinnerTimer
      /\ a.pending = s.pending /\ a.keyTimer = s.keyTimer /\ a.pressed = s.pressed
  <2>1. g \in Nat
    BY DEF StateSet
  <2> HIDE DEF g
  <2> QED
    BY <2>1 DEF StateSet
<1>2. Restarted(s) = r
  BY DEF Restarted
<1> HIDE DEF a, g
<1>3. /\ r \in StateSet /\ r = [a EXCEPT !.timers = r.timers] /\ a.timers \subseteq r.timers
      /\ Has(r, "toast", g)
      /\ \A t \in r.timers : t \in a.timers \/ t = [of |-> "toast", n |-> g, at |-> a.pressed]
  BY <1>1, ScheduleAdds
<1> HIDE DEF r
<1>4. /\ r.generation = g /\ r.overlay = s.overlay /\ r.spinnerTimer = s.spinnerTimer
      /\ r.pending = s.pending /\ r.keyTimer = s.keyTimer /\ r.pressed = s.pressed
  <2> DEFINE ts == r.timers
  <2>1. r = [a EXCEPT !.timers = ts]
    BY <1>3
  <2> HIDE DEF ts
  <2> QED
    BY <1>1, <2>1 DEF StateSet
<1>5. ToastTimed(r) /\ SpinnerTimed(r)
  BY <1>1, <1>3, <1>4 DEF ToastTimed, SpinnerTimed, Has
<1>6. NumbersGrow(r) /\ KeysAlike(s, r)
  BY <1>1, <1>3, <1>4 DEF NumbersGrow, KeysAlike
<1> QED
  BY <1>2, <1>3, <1>5, <1>6 DEF Sound

\* So has the spinner that starts.
LEMMA StartSpinnerSound ==
  ASSUME NEW s \in StateSet, ToastTimed(s), NumbersGrow(s)
  PROVE  Sound(StartSpinner(s)) /\ KeysAlike(s, StartSpinner(s))
<1> DEFINE g == s.spinnerTimer + 1
           a == [s EXCEPT !.spinnerTimer = g]
           r == Schedule(a, "spinner", g)
<1>1. g \in Nat /\ a \in StateSet /\ a.spinnerTimer = g /\ a.timers = s.timers
      /\ a.toasts = s.toasts /\ a.generation = s.generation
      /\ a.pending = s.pending /\ a.keyTimer = s.keyTimer /\ a.pressed = s.pressed
  <2>1. g \in Nat
    BY DEF StateSet
  <2> HIDE DEF g
  <2> QED
    BY <2>1 DEF StateSet
<1>2. StartSpinner(s) = r
  BY DEF StartSpinner
<1> HIDE DEF a, g
<1>3. /\ r \in StateSet /\ r = [a EXCEPT !.timers = r.timers] /\ a.timers \subseteq r.timers
      /\ Has(r, "spinner", g)
      /\ \A t \in r.timers : t \in a.timers \/ t = [of |-> "spinner", n |-> g, at |-> a.pressed]
  BY <1>1, ScheduleAdds
<1> HIDE DEF r
<1>4. /\ r.spinnerTimer = g /\ r.toasts = s.toasts /\ r.generation = s.generation
      /\ r.pending = s.pending /\ r.keyTimer = s.keyTimer /\ r.pressed = s.pressed
  <2> DEFINE ts == r.timers
  <2>1. r = [a EXCEPT !.timers = ts]
    BY <1>3
  <2> HIDE DEF ts
  <2> QED
    BY <1>1, <2>1 DEF StateSet
<1>5. ToastTimed(r) /\ SpinnerTimed(r)
  BY <1>1, <1>3, <1>4 DEF ToastTimed, SpinnerTimed, Has
<1>6. NumbersGrow(r) /\ KeysAlike(s, r)
  BY <1>1, <1>3, <1>4 DEF NumbersGrow, KeysAlike
<1> QED
  BY <1>2, <1>3, <1>5, <1>6 DEF Sound

\* ... and the one that goes on after its timer ran out.
LEMMA SpinSound ==
  ASSUME NEW s \in StateSet, ToastTimed(s), NumbersGrow(s), NEW n \in Nat,
         n # s.spinnerTimer => SpinnerTimed(s)
  PROVE  Sound(Spin(s, n)) /\ KeysAlike(s, Spin(s, n))
<1> DEFINE r == Schedule(s, "spinner", n)
<1>1. CASE n # s.spinnerTimer \/ s.overlay # "pending"
  BY <1>1 DEF Spin, Sound, KeysAlike, SpinnerTimed
<1>2. CASE ~(n # s.spinnerTimer \/ s.overlay # "pending")
  <2>1. /\ r \in StateSet /\ r = [s EXCEPT !.timers = r.timers] /\ s.timers \subseteq r.timers
        /\ Has(r, "spinner", n)
        /\ \A t \in r.timers : t \in s.timers \/ t = [of |-> "spinner", n |-> n, at |-> s.pressed]
    BY ScheduleAdds
  <2>2. Spin(s, n) = r
    BY <1>2 DEF Spin
  <2> HIDE DEF r
  <2>3. /\ r.spinnerTimer = n /\ r.toasts = s.toasts /\ r.generation = s.generation
        /\ r.pending = s.pending /\ r.keyTimer = s.keyTimer /\ r.pressed = s.pressed
    <3> DEFINE ts == r.timers
    <3>1. r = [s EXCEPT !.timers = ts]
      BY <2>1
    <3> HIDE DEF ts
    <3> QED
      BY <1>2, <3>1 DEF StateSet
  <2>4. ToastTimed(r) /\ SpinnerTimed(r)
    BY <2>1, <2>3 DEF ToastTimed, SpinnerTimed, Has
  <2>5. NumbersGrow(r) /\ KeysAlike(s, r)
    BY <2>1, <2>3 DEF NumbersGrow, KeysAlike
  <2> QED
    BY <2>1, <2>2, <2>4, <2>5 DEF Sound
<1> QED
  BY <1>1, <1>2

\* When the visible toast goes, the next has its timer.
LEMMA ExpireSound ==
  ASSUME NEW s \in StateSet, SpinnerTimed(s), NumbersGrow(s), NEW n,
         n # s.generation => ToastTimed(s)
  PROVE  Sound(Expire(s, n)) /\ KeysAlike(s, Expire(s, n))
<1> DEFINE ts == Tail(s.toasts)
           a == [s EXCEPT !.toasts = ts]
<1>1. CASE n # s.generation \/ s.toasts = <<>>
  BY <1>1 DEF Expire, Sound, KeysAlike, ToastTimed
<1>2. CASE ~(n # s.generation \/ s.toasts = <<>>)
  <2>1. ts \in Seq(Notices)
    BY <1>2 DEF StateSet
  <2>2. Expire(s, n) = IF a.toasts = <<>> THEN a ELSE Restarted(a)
    BY <1>2 DEF Expire
  <2> HIDE DEF ts
  <2>3. a \in StateSet /\ SpinnerTimed(a) /\ NumbersGrow(a) /\ KeysAlike(s, a)
    BY <2>1 DEF StateSet, SpinnerTimed, NumbersGrow, KeysAlike, Has
  <2> HIDE DEF a
  <2>4. CASE a.toasts = <<>>
    BY <2>2, <2>3, <2>4 DEF Sound, ToastTimed
  <2>5. CASE a.toasts # <<>>
    BY <2>2, <2>3, <2>5, RestartedSound, AlikeTwice
  <2> QED
    BY <2>4, <2>5
<1> QED
  BY <1>1, <1>2

-----------------------------------------------------------------------------
(* Notices *)

\* A set of numbers has a least.
LEMMA Least ==
  ASSUME NEW is \in SUBSET Nat, is # {}
  PROVE  \E i \in is : \A j \in is : i <= j
<1>1. \E i \in is : \A j \in is : ~(<<j, i>> \in OpToRel(<, Nat))
  BY NatLessThanWellFounded, WFMin
<1>2. PICK i \in is : \A j \in is : ~(<<j, i>> \in OpToRel(<, Nat))
  BY <1>1
<1>3. ASSUME NEW j \in is PROVE i <= j
  <2>1. i \in Nat /\ j \in Nat
    OBVIOUS
  <2>2. j < i => <<j, i>> \in OpToRel(<, Nat)
    BY <2>1 DEF OpToRel
  <2>3. ~(j < i)
    BY <1>2, <2>2, Zenon
  <2> QED
    BY <2>1, <2>3
<1> QED
  BY <1>3

\* A sequence without one of its elements.
LEMMA Removed ==
  ASSUME NEW S, NEW q \in Seq(S), NEW i \in 1..Len(q)
  PROVE  RemoveAt(q, i) \in Seq(S) /\ Len(RemoveAt(q, i)) = Len(q) - 1
<1> DEFINE a == SubSeq(q, 1, i - 1)
           b == SubSeq(q, i + 1, Len(q))
<1>1. a \in Seq(S) /\ Len(a) = i - 1
  OBVIOUS
<1>2. b \in Seq(S) /\ Len(b) = Len(q) - i
  OBVIOUS
<1>3. Len(q) \in Nat /\ i \in Nat /\ RemoveAt(q, i) = a \o b
  BY DEF RemoveAt
<1> HIDE DEF a, b
<1>4. a \o b \in Seq(S) /\ Len(a \o b) = Len(a) + Len(b)
  <2>1. a \in Seq(S) /\ b \in Seq(S)
    BY <1>1, <1>2
  <2> QED
    BY <2>1
<1> QED
  BY <1>1, <1>2, <1>3, <1>4

\* Dropping one toast drops one that waits, if any does.
LEMMA DropOneTyped ==
  ASSUME NEW S, NEW queue \in Seq(S)
  PROVE  /\ DropOne(queue) \in Seq(S)
         /\ Len(DropOne(queue)) = IF Len(queue) > 1 THEN Len(queue) - 1 ELSE Len(queue)
<1> DEFINE waiting == 2..Len(queue)
           mild == {i \in waiting : queue[i] # "error"}
           from == IF mild = {} THEN waiting ELSE mild
           i == CHOOSE i \in from : \A j \in from : i <= j
<1>1. Len(queue) \in Nat /\ (waiting = {} <=> ~(Len(queue) > 1))
  <2>1. Len(queue) \in Nat
    OBVIOUS
  <2>2. Len(queue) > 1 => 2 \in waiting
    BY <2>1
  <2>3. ~(Len(queue) > 1) => waiting = {}
    BY <2>1
  <2> QED
    BY <2>1, <2>2, <2>3
<1>2. CASE waiting = {}
  BY <1>1, <1>2 DEF DropOne
<1>3. CASE waiting # {}
  <2>1. DropOne(queue) = RemoveAt(queue, i)
    BY <1>3 DEF DropOne
  <2>2. from \in SUBSET Nat /\ from # {} /\ from \subseteq 1..Len(queue)
    BY <1>1, <1>3
  <2> HIDE DEF from
  <2>3. i \in 1..Len(queue)
    BY <2>2, Least
  <2> HIDE DEF i
  <2> QED
    BY <1>1, <1>3, <2>1, <2>3, Removed
<1> QED
  BY <1>2, <1>3

\* A notice that becomes the visible toast has a timer.
LEMMA NotifySound ==
  ASSUME NEW s, Sound(s), NEW notice \in Notices
  PROVE  Sound(Notify(s, notice)) /\ KeysAlike(s, Notify(s, notice))
<1> DEFINE longer == Append(s.toasts, notice)
           queue == IF Len(longer) > QueueCapacity THEN DropOne(longer) ELSE longer
           queued == [s EXCEPT !.toasts = queue]
<1>1. s \in StateSet /\ ToastTimed(s) /\ SpinnerTimed(s) /\ NumbersGrow(s) /\ s.toasts \in Seq(Notices)
  BY DEF Sound, StateSet
<1>2. KeysAlike(s, s)
  BY DEF KeysAlike
<1>3. CASE s.toasts # <<>> /\ Last(s.toasts) = notice
  <2>1. Notify(s, notice) = IF Len(s.toasts) = 1 THEN Restarted(s) ELSE s
    BY <1>3 DEF Notify
  <2> QED
    BY <1>1, <1>2, <2>1, RestartedSound
<1>4. CASE ~(s.toasts # <<>> /\ Last(s.toasts) = notice)
  <2>1. Notify(s, notice) = IF Len(queue) = 1 THEN Restarted(queued) ELSE queued
    BY <1>4 DEF Notify
  <2>2. longer \in Seq(Notices) /\ Len(longer) = Len(s.toasts) + 1 /\ Len(s.toasts) \in Nat
    BY <1>1
  <2> HIDE DEF longer
  <2>3. queue \in Seq(Notices) /\ (Len(s.toasts) = 0 => Len(queue) = 1)
    <3>1. /\ DropOne(longer) \in Seq(Notices)
          /\ Len(DropOne(longer)) = IF Len(longer) > 1 THEN Len(longer) - 1 ELSE Len(longer)
      BY <2>2, DropOneTyped
    <3>2. Len(s.toasts) = 0 => Len(longer) = 1 /\ Len(DropOne(longer)) = 1
      BY <2>2, <3>1
    <3> QED
      BY <2>2, <3>1, <3>2
  <2> HIDE DEF queue
  <2>4. /\ queued \in StateSet /\ SpinnerTimed(queued) /\ NumbersGrow(queued) /\ KeysAlike(s, queued)
        /\ queued.generation = s.generation /\ queued.timers = s.timers
    BY <1>1, <2>3 DEF StateSet, SpinnerTimed, NumbersGrow, KeysAlike, Has
  <2> HIDE DEF queued
  <2>5. CASE Len(queue) = 1
    BY <2>1, <2>4, <2>5, RestartedSound, AlikeTwice
  <2>6. CASE Len(queue) # 1
    <3>1. s.toasts # <<>>
      BY <1>1, <2>3, <2>6
    <3>2. ToastTimed(queued)
      BY <1>1, <2>4, <3>1 DEF ToastTimed, Has
    <3> QED
      BY <2>1, <2>4, <2>6, <3>2 DEF Sound
  <2> QED
    BY <2>5, <2>6
<1> QED
  BY <1>3, <1>4

-----------------------------------------------------------------------------
(* Keys *)

\* An action starts the timers of what it makes wait.
LEMMA ActSound ==
  ASSUME NEW s, Sound(s), NEW action
  PROVE  Sound(Act(s, action)) /\ KeysAlike(s, Act(s, action))
<1>1. s \in StateSet /\ ToastTimed(s) /\ SpinnerTimed(s) /\ NumbersGrow(s)
  BY DEF Sound
<1>2. KeysAlike(s, s)
  BY DEF KeysAlike
<1>3. ASSUME NEW o \in {"none", "field", "buttons", "pending"}
      PROVE  LET a == [s EXCEPT !.overlay = o]
             IN  /\ a \in StateSet /\ ToastTimed(a) /\ NumbersGrow(a) /\ KeysAlike(s, a)
                 /\ o # "pending" => SpinnerTimed(a)
  BY <1>1 DEF StateSet, ToastTimed, NumbersGrow, KeysAlike, SpinnerTimed, Has
<1>4. CASE action = "open" \/ action = "cancel" \/ (action = "next field" /\ s.overlay = "field")
  <2>1. \E o \in {"none", "field", "buttons"} : Act(s, action) = [s EXCEPT !.overlay = o]
    BY <1>4 DEF Act
  <2> QED
    BY <1>3, <2>1 DEF Sound
<1>5. CASE action = "next field" /\ s.overlay # "field"
  <2>1. Act(s, action) = [s EXCEPT !.overlay = s.overlay]
    BY <1>5 DEF Act
  <2>2. Act(s, action) = s
    BY <1>1, <2>1 DEF StateSet
  <2> QED
    BY <1>2, <2>2
<1>6. CASE action = "submit" /\ s.overlay # "pending"
  <2> DEFINE a == [s EXCEPT !.overlay = "pending"]
  <2>1. Act(s, action) = StartSpinner(a)
    BY <1>6 DEF Act
  <2>2. a \in StateSet /\ ToastTimed(a) /\ NumbersGrow(a) /\ KeysAlike(s, a)
    BY <1>3
  <2> HIDE DEF a
  <2> QED
    BY <2>1, <2>2, StartSpinnerSound, AlikeTwice
<1>7. CASE action = "dismiss"
  <2>1. Act(s, action) = Expire(s, s.generation)
    BY <1>7 DEF Act
  <2> QED
    BY <1>1, <2>1, ExpireSound
<1>8. CASE action = "say"
  <2>1. Act(s, action) = Notify(s, "info") /\ "info" \in Notices
    BY <1>8 DEF Act, Notices
  <2> QED
    BY <2>1, NotifySound
<1>9. CASE /\ action \notin {"open", "cancel", "next field", "dismiss", "say"}
           /\ ~(action = "submit" /\ s.overlay # "pending")
  <2>1. Act(s, action) = s
    BY <1>9 DEF Act
  <2> QED
    BY <1>2, <2>1
<1> QED
  BY <1>4, <1>5, <1>6, <1>7, <1>8, <1>9

\* Other keys wait.
LEMMA PendingSound ==
  ASSUME NEW s, Sound(s), NEW keys \in Seq(KeyNames)
  PROVE  LET a == [s EXCEPT !.pending = keys]
         IN  Sound(a) /\ a.pending = keys /\ a.pressed = s.pressed /\ a.timers = s.timers
                      /\ a.keyTimer = s.keyTimer
BY DEF Sound, StateSet, ToastTimed, SpinnerTimed, NumbersGrow, Has

\* Nor on how many were pressed.
LEMMA PressedSound ==
  ASSUME NEW s, Sound(s), NEW n \in Nat
  PROVE  LET a == [s EXCEPT !.pressed = n]
         IN  Sound(a) /\ a.pending = s.pending /\ a.pressed = n
BY DEF Sound, StateSet, ToastTimed, SpinnerTimed, NumbersGrow, Has

\* A sequence that is finished leaves no keys waiting.
LEMMA FinishSound ==
  ASSUME NEW s, Sound(s)
  PROVE  LET r == FinishSequence(s)
         IN  Sound(r) /\ r.pending = <<>> /\ r.pressed = s.pressed
                      /\ (s.pending = <<>> => r = s)
                      /\ \A t \in s.timers : t.of = "keys" => t \in r.timers
<1> DEFINE taken == [s EXCEPT !.pending = <<>>]
           action == Exact(Contexts(s), s.pending)
<1>1. CASE s.pending = <<>>
  BY <1>1 DEF FinishSequence
<1>2. CASE s.pending # <<>>
  <2>1. FinishSequence(s) = Act(taken, action)
    BY <1>2 DEF FinishSequence
  <2>2. Sound(taken) /\ taken.pending = <<>> /\ taken.pressed = s.pressed
    <3>1. <<>> \in Seq(KeyNames) /\ 0 \in Nat
      OBVIOUS
    <3> DEFINE none == <<>>
    <3> HIDE DEF none
    <3>2. LET a == [s EXCEPT !.pending = none]
          IN  Sound(a) /\ a.pending = none /\ a.pressed = s.pressed
      BY <3>1, PendingSound DEF none
    <3> QED
      BY <3>2 DEF none
  <2>4. taken.timers = s.timers /\ s.timers \in SUBSET TimerSet
    BY DEF Sound, StateSet
  <2> HIDE DEF taken, action
  <2>3. Sound(Act(taken, action)) /\ KeysAlike(taken, Act(taken, action))
    BY <2>2, ActSound
  <2> QED
    BY <1>2, <2>1, <2>2, <2>3, <2>4 DEF KeysAlike
<1> QED
  BY <1>1, <1>2

\* Keys that go on waiting have a new timer.
LEMMA WaitsSound ==
  ASSUME NEW s, Sound(s)
  PROVE  Sound(Waits(s)) /\ KeysTimed(Waits(s)) /\ Waits(s).pressed = s.pressed
<1> DEFINE g == s.keyTimer + 1
           a == [s EXCEPT !.keyTimer = g]
           r == Schedule(a, "keys", g)
<1>1. s \in StateSet /\ ToastTimed(s) /\ SpinnerTimed(s) /\ NumbersGrow(s) /\ s.keyTimer \in Nat
  BY DEF Sound, StateSet
<1>2. g \in Nat /\ a \in StateSet /\ a.keyTimer = g /\ a.timers = s.timers /\ a.pressed = s.pressed
      /\ a.toasts = s.toasts /\ a.generation = s.generation
      /\ a.overlay = s.overlay /\ a.spinnerTimer = s.spinnerTimer
  <2>1. g \in Nat
    BY <1>1
  <2> HIDE DEF g
  <2> QED
    BY <1>1, <2>1 DEF StateSet
<1>3. Waits(s) = r
  BY DEF Waits
<1>4. g > s.keyTimer
  BY <1>1
<1> HIDE DEF a, g
<1>5. /\ r \in StateSet /\ r = [a EXCEPT !.timers = r.timers] /\ a.timers \subseteq r.timers
      /\ Has(r, "keys", g)
      /\ \A t \in r.timers : t \in a.timers \/ t = [of |-> "keys", n |-> g, at |-> a.pressed]
  BY <1>2, ScheduleAdds
<1> HIDE DEF r
<1>6. /\ r.keyTimer = g /\ r.pressed = s.pressed /\ r.toasts = s.toasts /\ r.generation = s.generation
      /\ r.overlay = s.overlay /\ r.spinnerTimer = s.spinnerTimer
  <2> DEFINE ts == r.timers
  <2>1. r = [a EXCEPT !.timers = ts]
    BY <1>5
  <2> HIDE DEF ts
  <2> QED
    BY <1>2, <2>1 DEF StateSet
<1>7. ToastTimed(r) /\ SpinnerTimed(r)
  BY <1>1, <1>2, <1>5, <1>6 DEF ToastTimed, SpinnerTimed, Has
<1>8. \A t \in s.timers : t.n \in Nat
  BY <1>1 DEF StateSet, TimerSet
<1>9. NumbersGrow(r) /\ KeysTimed(r)
  <2>1. ASSUME NEW t \in r.timers, t.of = "keys" PROVE t.n <= g /\ (t.n = g => t.at = s.pressed)
    <3>1. CASE t \in s.timers
      <4>1. t.n <= s.keyTimer /\ t.n \in Nat
        BY <1>1, <1>8, <2>1, <3>1 DEF NumbersGrow
      <4> QED
        BY <1>1, <1>2, <1>4, <4>1
    <3>2. CASE t = [of |-> "keys", n |-> g, at |-> a.pressed]
      BY <1>2, <3>2
    <3> QED
      BY <1>2, <1>5, <3>1, <3>2
  <2> QED
    BY <1>5, <1>6, <2>1 DEF NumbersGrow, KeysTimed
<1> QED
  BY <1>3, <1>5, <1>6, <1>7, <1>9 DEF Sound

\* Looking keys up runs what they are bound to, or waits, or forgets them.
LEMMA LookUpSound ==
  ASSUME NEW s, Sound(s)
  PROVE  Sound(LookUp(s)) /\ KeysTimed(LookUp(s)) /\ LookUp(s).pressed = s.pressed
<1> DEFINE taken == [s EXCEPT !.pending = <<>>]
           found == Resolve(Contexts(s), s.pending)
<1>1. Sound(taken) /\ taken.pending = <<>> /\ taken.pressed = s.pressed
  <2>1. <<>> \in Seq(KeyNames) /\ 0 \in Nat
    OBVIOUS
  <2> DEFINE none == <<>>
  <2> HIDE DEF none
  <2>2. LET a == [s EXCEPT !.pending = none]
        IN  Sound(a) /\ a.pending = none /\ a.pressed = s.pressed
    BY <2>1, PendingSound DEF none
  <2> QED
    BY <2>2 DEF none
<1>2. \/ LookUp(s) = Act(taken, found[2])
      \/ LookUp(s) = Waits(s)
      \/ LookUp(s) = taken
  BY DEF LookUp
<1> HIDE DEF taken, found
<1>3. CASE LookUp(s) = Act(taken, found[2])
  <2>1. Sound(LookUp(s)) /\ KeysAlike(taken, LookUp(s))
    BY <1>1, <1>3, ActSound
  <2> QED
    BY <1>1, <2>1 DEF KeysAlike, KeysTimed
<1>4. CASE LookUp(s) = Waits(s)
  BY <1>4, WaitsSound
<1>5. CASE LookUp(s) = taken
  BY <1>1, <1>5 DEF KeysTimed
<1> QED
  BY <1>2, <1>3, <1>4, <1>5

\* A key is typed, or counted as pressed and looked up.
LEMMA KeyPressedSound ==
  ASSUME NEW s, Sound(s), KeysTimed(s), NEW key \in KeyNames
  PROVE  LET r == KeyPressed(s, key)
         IN  Sound(r) /\ KeysTimed(r) /\ (r = s \/ r.pressed = s.pressed + 1)
<1> DEFINE n == s.pressed + 1
           keys == Append(s.pending, key)
           longer == [s EXCEPT !.pending = keys, !.pressed = n]
           counted == [s EXCEPT !.pressed = n]
           afresh == FinishSequence(counted)
           alone == [afresh EXCEPT !.pending = <<key>>]
<1>1. n \in Nat /\ keys \in Seq(KeyNames)
  BY DEF Sound, StateSet
<1>2. \/ KeyPressed(s, key) = s
      \/ KeyPressed(s, key) = LookUp(longer)
      \/ KeyPressed(s, key) = afresh
      \/ KeyPressed(s, key) = LookUp(alone)
  BY DEF KeyPressed
<1> HIDE DEF n, keys
<1>3. Sound(longer) /\ longer.pressed = n /\ Sound(counted) /\ counted.pressed = n
  <2>1. Sound(longer) /\ longer.pressed = n
    BY <1>1 DEF Sound, StateSet, ToastTimed, SpinnerTimed, NumbersGrow, Has
  <2>2. Sound(counted) /\ counted.pressed = n
    BY <1>1, PressedSound
  <2> QED
    BY <2>1, <2>2
<1> HIDE DEF longer, counted
<1>4. Sound(afresh) /\ afresh.pending = <<>> /\ afresh.pressed = n
  BY <1>3, FinishSound
<1> HIDE DEF afresh
<1>5. Sound(alone) /\ alone.pressed = n
  <2>1. <<key>> \in Seq(KeyNames)
    OBVIOUS
  <2> DEFINE one == <<key>>
  <2> HIDE DEF one
  <2>2. LET a == [afresh EXCEPT !.pending = one] IN Sound(a) /\ a.pressed = afresh.pressed
    BY <1>1, <1>4, <2>1, PendingSound DEF one
  <2> QED
    BY <1>4, <2>2 DEF one
<1> HIDE DEF alone
<1>6. CASE KeyPressed(s, key) = s
  BY <1>6
<1>7. CASE KeyPressed(s, key) = LookUp(longer)
  BY <1>3, <1>7, LookUpSound DEF n
<1>8. CASE KeyPressed(s, key) = afresh
  BY <1>4, <1>8 DEF KeysTimed, n
<1>9. CASE KeyPressed(s, key) = LookUp(alone)
  BY <1>5, <1>9, LookUpSound DEF n
<1> QED
  BY <1>2, <1>6, <1>7, <1>8, <1>9

-----------------------------------------------------------------------------
(* The steps *)

\* A step to a state that has every wait timed.
LEMMA BecomesTimed ==
  ASSUME NEW r, Becomes(r), r \in StateSet
  PROVE  State' = r
BY DEF Becomes, State, StateSet

\* A timer that has run out is missed by what it was not the timer of.
LEMMA RunsOutSound ==
  ASSUME WaitsTimed, NEW t \in timers, RunsOut(t)
  PROVE  /\ WaitsTimed'
         /\ pendingKeys # <<>> /\ pendingKeys' = <<>> => t.of = "keys" /\ t.n = keyTimer
         /\ \A v \in timers \ {t} : v.of = "keys" => v \in timers'
<1> DEFINE s == State
           ts == s.timers \ {t}
           a == [s EXCEPT !.timers = ts]
<1>1. /\ s \in StateSet /\ ToastTimed(s) /\ SpinnerTimed(s) /\ NumbersGrow(s) /\ KeysTimed(s)
      /\ s.timers = timers /\ s.pending = pendingKeys /\ s.keyTimer = keyTimer
  BY DEF WaitsTimed, Sound, State
<1>2. t \in TimerSet /\ ts \in SUBSET TimerSet
  BY <1>1 DEF StateSet
<1>3. /\ a \in StateSet /\ a.timers = ts /\ a.pending = s.pending /\ a.keyTimer = s.keyTimer
      /\ a.overlay = s.overlay /\ a.toasts = s.toasts /\ a.generation = s.generation
      /\ a.spinnerTimer = s.spinnerTimer /\ a.pressed = s.pressed
  <2> HIDE DEF ts, s
  <2> QED
    BY <1>1, <1>2 DEF StateSet
<1>4. Becomes(CASE t.of = "toast" -> Expire(a, t.n)
                [] t.of = "spinner" -> Spin(a, t.n)
                [] t.of = "keys" -> TimedOut(a, t.n))
  BY DEF RunsOut
<1>5. s.timers = ts \cup {t} /\ t.n \in Nat /\ t.of \in {"keys", "toast", "spinner"}
  BY <1>1, <1>2 DEF TimerSet
<1> HIDE DEF s, ts, a
<1>6. NumbersGrow(a)
  BY <1>1, <1>3, <1>5 DEF NumbersGrow
<1>7. /\ ~(t.of = "toast" /\ t.n = s.generation) => ToastTimed(a)
      /\ ~(t.of = "spinner" /\ t.n = s.spinnerTimer) => SpinnerTimed(a)
      /\ ~(t.of = "keys" /\ t.n = s.keyTimer) => KeysTimed(a)
  BY <1>1, <1>3, <1>5 DEF ToastTimed, SpinnerTimed, KeysTimed, Has
<1>8. ASSUME NEW r, Becomes(r), Sound(r), KeysTimed(r),
             s.pending # <<>> /\ r.pending = <<>> => t.of = "keys" /\ t.n = s.keyTimer,
             \A v \in ts : v.of = "keys" => v \in r.timers
      PROVE  /\ WaitsTimed'
             /\ pendingKeys # <<>> /\ pendingKeys' = <<>> => t.of = "keys" /\ t.n = keyTimer
             /\ \A v \in timers \ {t} : v.of = "keys" => v \in timers'
  <2>1. State' = r /\ pendingKeys' = r.pending /\ timers' = r.timers
    BY <1>8, BecomesTimed DEF Sound, Becomes
  <2>2. timers \ {t} = ts
    BY <1>1 DEF ts
  <2> QED
    BY <1>1, <1>8, <2>1, <2>2 DEF WaitsTimed
<1>9. CASE t.of = "toast"
  <2> DEFINE r == Expire(a, t.n)
  <2>1. Becomes(r)
    BY <1>4, <1>9
  <2>2. Sound(r) /\ KeysAlike(a, r)
    BY <1>3, <1>6, <1>7, <1>9, ExpireSound
  <2> HIDE DEF r
  <2>3. KeysTimed(r) /\ r.pending = s.pending
    BY <1>3, <1>7, <1>9, <2>2, AlikeStaysTimed DEF Sound, KeysAlike
  <2>4. \A v \in ts : v.of = "keys" => v \in r.timers
    BY <1>2, <1>3, <2>2 DEF KeysAlike
  <2> QED
    BY <1>8, <2>1, <2>2, <2>3, <2>4
<1>10. CASE t.of = "spinner"
  <2> DEFINE r == Spin(a, t.n)
  <2>1. Becomes(r)
    BY <1>4, <1>10
  <2>2. Sound(r) /\ KeysAlike(a, r)
    BY <1>3, <1>5, <1>6, <1>7, <1>10, SpinSound
  <2> HIDE DEF r
  <2>3. KeysTimed(r) /\ r.pending = s.pending
    BY <1>3, <1>7, <1>10, <2>2, AlikeStaysTimed DEF Sound, KeysAlike
  <2>4. \A v \in ts : v.of = "keys" => v \in r.timers
    BY <1>2, <1>3, <2>2 DEF KeysAlike
  <2> QED
    BY <1>8, <2>1, <2>2, <2>3, <2>4
<1>11. CASE t.of = "keys"
  <2> DEFINE r == TimedOut(a, t.n)
  <2>1. Becomes(r)
    BY <1>4, <1>11
  <2>2. Sound(a)
    BY <1>3, <1>6, <1>7, <1>11 DEF Sound
  <2>3. CASE t.n = s.keyTimer
    <3>1. r = FinishSequence(a)
      BY <1>3, <2>3 DEF TimedOut
    <3>2. Sound(r) /\ r.pending = <<>> /\ \A v \in ts : v.of = "keys" => v \in r.timers
      BY <1>3, <2>2, <3>1, FinishSound
    <3> HIDE DEF r
    <3>3. KeysTimed(r)
      BY <3>2 DEF KeysTimed
    <3> QED
      BY <1>8, <1>11, <2>1, <2>3, <3>2, <3>3
  <2>4. CASE t.n # s.keyTimer
    <3>1. r = a
      BY <1>3, <2>4 DEF TimedOut
    <3> HIDE DEF r
    <3> QED
      BY <1>3, <1>7, <1>8, <2>1, <2>2, <2>4, <3>1
  <2> QED
    BY <2>3, <2>4
<1> QED
  BY <1>5, <1>9, <1>10, <1>11

\* At first nothing waits.
LEMMA InitTimed == TimersInit => WaitsTimed
<1> SUFFICES ASSUME TimersInit PROVE WaitsTimed
  OBVIOUS
<1>1. <<>> \in Seq(KeyNames) /\ <<>> \in Seq(Notices) /\ {} \in SUBSET TimerSet /\ 0 \in Nat
  OBVIOUS
<1>2. State \in StateSet
  BY <1>1 DEF TimersInit, State, StateSet
<1> QED
  BY <1>2 DEF WaitsTimed, Sound, ToastTimed, SpinnerTimed, NumbersGrow, KeysTimed, TimersInit, State

\* No step leaves a wait without its timer, and keys that wait are looked up, or
\* stay, or are ended by their own timer.
LEMMA NextTimed ==
  ASSUME WaitsTimed, TimersNext
  PROVE  /\ WaitsTimed'
         /\ \/ pendingKeys' = pendingKeys
            \/ pressed' = pressed + 1
            \/ \E t \in timers : RunsOut(t)
<1> DEFINE s == State
<1>1. /\ Sound(s) /\ KeysTimed(s) /\ s \in StateSet /\ s.pending = pendingKeys /\ s.pressed = pressed
      /\ s.overlay = overlay
  BY DEF WaitsTimed, Sound, State
<1>2. ASSUME NEW r, Becomes(r), Sound(r), KeysTimed(r)
      PROVE  WaitsTimed' /\ pendingKeys' = r.pending /\ pressed' = r.pressed
  <2>1. State' = r
    BY <1>2, BecomesTimed DEF Sound
  <2> QED
    BY <1>2, <2>1 DEF WaitsTimed, Becomes
<1> HIDE DEF s
<1>3. CASE Press
  <2>1. PICK key \in KeyNames : Becomes(KeyPressed(s, key))
    BY <1>3 DEF Press, s
  <2> DEFINE r == KeyPressed(s, key)
  <2>2. Sound(r) /\ KeysTimed(r) /\ (r = s \/ r.pressed = s.pressed + 1)
    BY <1>1, KeyPressedSound
  <2> HIDE DEF r
  <2> QED
    BY <1>1, <1>2, <2>1, <2>2 DEF r
<1>4. ASSUME NEW n \in Nat, NEW o \in {"none", "field"}
      PROVE  LET a == [s EXCEPT !.overlay = o]
                 b == [s EXCEPT !.overlay = o, !.came = n]
                 c == [s EXCEPT !.came = n]
             IN  /\ Sound(a) /\ KeysTimed(a) /\ a.pending = s.pending
                 /\ Sound(b) /\ KeysTimed(b) /\ b.pending = s.pending
                 /\ Sound(c) /\ KeysTimed(c) /\ c.pending = s.pending
  BY <1>1 DEF Sound, StateSet, ToastTimed, SpinnerTimed, NumbersGrow, KeysTimed, Has
<1>5. s.came + 1 \in Nat
  BY <1>1 DEF StateSet
<1>6. CASE Say
  <2> DEFINE c == [s EXCEPT !.came = s.came + 1]
  <2>1. PICK notice \in Levels : Becomes(Notify(c, notice))
    BY <1>6 DEF Say, s
  <2>2. Sound(c) /\ KeysTimed(c) /\ c.pending = s.pending
    BY <1>4, <1>5
  <2> HIDE DEF c
  <2> DEFINE r == Notify(c, notice)
  <2>3. Sound(r) /\ KeysAlike(c, r)
    BY <2>2, NotifySound DEF Notices
  <2> HIDE DEF r
  <2>4. KeysTimed(r) /\ r.pending = s.pending
    BY <2>2, <2>3, AlikeStaysTimed DEF Sound, KeysAlike
  <2> QED
    BY <1>1, <1>2, <2>1, <2>3, <2>4 DEF r
<1>7. CASE DialogComes
  <2> DEFINE b == [s EXCEPT !.overlay = "field", !.came = s.came + 1]
  <2>1. Becomes(b)
    BY <1>7 DEF DialogComes, s
  <2>2. Sound(b) /\ KeysTimed(b) /\ b.pending = s.pending
    BY <1>4, <1>5
  <2> HIDE DEF b
  <2> QED
    BY <1>1, <1>2, <2>1, <2>2
<1>8. CASE DialogAnswered
  <2>1. PICK o \in {"none", "field"} : Becomes([s EXCEPT !.overlay = o])
    BY <1>8 DEF DialogAnswered, s
  <2> DEFINE a == [s EXCEPT !.overlay = o]
  <2>2. Sound(a) /\ KeysTimed(a) /\ a.pending = s.pending
    BY <1>4, <1>5
  <2> HIDE DEF a
  <2> QED
    BY <1>1, <1>2, <2>1, <2>2 DEF a
<1>9. ASSUME NEW t \in timers, RunsOut(t) PROVE WaitsTimed'
  BY <1>9, RunsOutSound
<1> QED
  BY <1>3, <1>6, <1>7, <1>8, <1>9 DEF TimersNext

\* Whatever waits for time to pass has a timer that will end the wait, for any
\* keys, bindings and notices.
THEOREM WaitsEnd == TimersSpec => []EveryWaitHasItsTimer
<1>1. WaitsTimed => EveryWaitHasItsTimer
  BY DEF WaitsTimed, Sound, ToastTimed, SpinnerTimed, KeysTimed, Has, State, EveryWaitHasItsTimer, HasTimer
<1>2. WaitsTimed /\ UNCHANGED timerVars => WaitsTimed'
  <2> SUFFICES ASSUME WaitsTimed, UNCHANGED timerVars PROVE WaitsTimed'
    OBVIOUS
  <2>1. State' = State
    BY DEF timerVars, State
  <2> QED
    BY <2>1 DEF WaitsTimed
<1> QED
  BY <1>1, <1>2, InitTimed, NextTimed, PTL DEF TimersSpec

\* A timer ends a half-typed sequence only if no key was looked up since it was
\* started.
THEOREM OldTimersEndNothing == TimersSpec => StaleTimersChangeNothing
<1> DEFINE Fair == \A t \in timers : t.of = "keys" /\ pressed' = pressed /\ pendingKeys # <<>>
                     /\ pendingKeys' = <<>> /\ timers \ timers' = {t} => t.at = pressed
<1>1. WaitsTimed /\ TimersNext => Fair
  <2> SUFFICES ASSUME WaitsTimed, TimersNext, NEW t \in timers, t.of = "keys", pressed' = pressed,
                      pendingKeys # <<>>, pendingKeys' = <<>>, timers \ timers' = {t}
               PROVE  t.at = pressed
    OBVIOUS
  <2>1. pressed \in Nat /\ State.timers = timers /\ State.pressed = pressed
        /\ State.pending = pendingKeys /\ State.keyTimer = keyTimer /\ KeysTimed(State)
    BY DEF WaitsTimed, Sound, State, StateSet
  <2>2. PICK u \in timers : RunsOut(u)
    BY <2>1, NextTimed
  <2>3. u.of = "keys" /\ u.n = keyTimer
    BY <2>2, RunsOutSound
  <2>4. u = t
    BY <2>2, RunsOutSound
  <2> QED
    BY <2>1, <2>3, <2>4 DEF KeysTimed
<1>2. WaitsTimed /\ UNCHANGED timerVars => WaitsTimed' /\ Fair
  <2> SUFFICES ASSUME WaitsTimed, UNCHANGED timerVars PROVE WaitsTimed' /\ Fair
    OBVIOUS
  <2>1. State' = State /\ pendingKeys' = pendingKeys
    BY DEF timerVars, State
  <2> QED
    BY <2>1 DEF WaitsTimed
<1> QED
  BY <1>1, <1>2, InitTimed, NextTimed, PTL DEF TimersSpec, StaleTimersChangeNothing

-----------------------------------------------------------------------------
(* Snippets *)

\* What the variables of Snippets hold.
Conns == Scopes \cup {"global", ""}
SnippetSet == [name : SnipNames, conn : Conns]
EditingSet == [session : Nat, name : SnipNames \cup {""}, conn : Conns]
HereSet == [session : {1, 2}, conn : Scopes]
DiskSet == [file : Seq(SnippetSet), saves : Seq(Seq(SnippetSet))]
ListSet == [list : Seq(SnippetSet), loaded : BOOLEAN]

\* No two of a list have the same name in a scope.
Unique(list) == \A i, j \in DOMAIN list : i # j => ~SameName(list[i], list[j])

\* The snippet an editor holds is in the list.
Holds(list, e) == e # NotEditing => \E i \in DOMAIN list : Key(list[i]) = <<e.name, e.conn>>

\* What holds while no save overlapped another or the load: until the file was read
\* there is nothing but the file; then the list is on file, or being saved.
SnippetsFit ==
  /\ snippets \in ListSet
  /\ snipDisk \in DiskSet
  /\ editing \in EditingSet
  /\ here \in HereSet
  /\ snipDialog.kind \in {"save", "rename"} => snipDialog.conn \in Conns
  /\ Unique(snippets.list) /\ Holds(snippets.list, editing)
  /\ IF ~snippets.loaded
     THEN snippets.list = <<>> /\ snipDisk.saves = <<>> /\ Unique(snipDisk.file)
     ELSE \/ snipDisk.saves = <<>> /\ snipDisk.file = snippets.list
          \/ snipDisk.saves = <<snippets.list>>
SnipInv == snipCalm => SnippetsFit

\* A sequence joined to another keeps both.
LEMMA Joined ==
  ASSUME NEW S, NEW p \in Seq(S), NEW q \in Seq(S)
  PROVE  /\ p \o q \in Seq(S) /\ Len(p \o q) = Len(p) + Len(q)
         /\ DOMAIN (p \o q) = 1..(Len(p) + Len(q))
         /\ \A i \in 1..Len(p) : (p \o q)[i] = p[i]
         /\ \A i \in 1..Len(q) : (p \o q)[Len(p) + i] = q[i]
OBVIOUS

\* Without its i-th element a list is one shorter, the others in order.
LEMMA OneLess ==
  ASSUME NEW S, NEW q \in Seq(S), NEW i \in 1..Len(q)
  PROVE  /\ RemoveAt(q, i) \in Seq(S) /\ DOMAIN RemoveAt(q, i) = 1..(Len(q) - 1)
         /\ \A k \in 1..(Len(q) - 1) : RemoveAt(q, i)[k] = IF k < i THEN q[k] ELSE q[k + 1]
<1> DEFINE a == SubSeq(q, 1, i - 1)
           b == SubSeq(q, i + 1, Len(q))
<1>1. a \in Seq(S) /\ Len(a) = i - 1 /\ \A k \in 1..(i - 1) : a[k] = q[k]
  OBVIOUS
<1>2. b \in Seq(S) /\ Len(b) = Len(q) - i /\ \A k \in 1..(Len(q) - i) : b[k] = q[i + k]
  OBVIOUS
<1>3. Len(q) \in Nat /\ i \in Nat /\ RemoveAt(q, i) = a \o b
  BY DEF RemoveAt
<1> HIDE DEF a, b
<1>4. a \o b \in Seq(S) /\ DOMAIN (a \o b) = 1..(Len(q) - 1)
  <2>0. a \in Seq(S) /\ b \in Seq(S)
    BY <1>1, <1>2
  <2>1. DOMAIN (a \o b) = 1..(Len(a) + Len(b)) /\ a \o b \in Seq(S)
    BY <2>0, Joined
  <2> QED
    BY <1>1, <1>2, <1>3, <2>1
<1>5. ASSUME NEW k \in 1..(Len(q) - 1), k < i
      PROVE  (a \o b)[k] = q[k]
  BY <1>1, <1>2, <1>3, <1>5, Joined
<1>6. ASSUME NEW k \in 1..(Len(q) - 1), ~(k < i)
      PROVE  (a \o b)[k] = q[k + 1]
  <2> DEFINE j == k - (i - 1)
  <2>1. j \in 1..Len(b) /\ k = Len(a) + j /\ i + j = k + 1
    BY <1>1, <1>2, <1>3, <1>6
  <2>2. (a \o b)[Len(a) + j] = b[j] /\ b[j] = q[i + j]
    BY <1>1, <1>2, <2>1, Joined
  <2> QED
    BY <2>1, <2>2
<1> QED
  BY <1>3, <1>4, <1>5, <1>6

\* An element of a sequence is of its set.
LEMMA Nth ==
  ASSUME NEW S, NEW q \in Seq(S), NEW i \in DOMAIN q
  PROVE  q[i] \in S
OBVIOUS

\* Where a snippet is found, and that it is found if it is there.
LEMMA Found ==
  ASSUME NEW list \in Seq(SnippetSet), NEW key
  PROVE  /\ At(list, key) # 0 <=> \E i \in DOMAIN list : Key(list[i]) = key
         /\ At(list, key) # 0 => At(list, key) \in DOMAIN list /\ Key(list[At(list, key)]) = key
<1>1. 0 \notin DOMAIN list
  OBVIOUS
<1>2. CASE \E i \in DOMAIN list : Key(list[i]) = key
  BY <1>1, <1>2 DEF At
<1>3. CASE ~ \E i \in DOMAIN list : Key(list[i]) = key
  BY <1>3 DEF At
<1> QED
  BY <1>2, <1>3

\* To an empty list a file brings itself.
LEMMA FileAlone ==
  ASSUME NEW file
  PROVE  WithFile(file, <<>>) = file
<1> DEFINE step(f, n) == IF n = 0 THEN file
                         ELSE IF At(f[n - 1], Key(<<>>[n])) = 0 THEN Append(f[n - 1], <<>>[n])
                         ELSE f[n - 1]
           empty == <<>>
           is(f) == f = [n \in 0..Len(empty) |-> step(f, n)]
           merged == CHOOSE f : is(f)
           one == [n \in {0} |-> file]
<1>1. WithFile(file, <<>>) = merged[Len(empty)]
  BY DEF WithFile
<1>2. 0..Len(empty) = {0} /\ Len(empty) = 0
  OBVIOUS
<1>3. is(one)
  <2>1. \A n \in {0} : step(one, n) = file
    OBVIOUS
  <2> HIDE DEF step
  <2> QED
    BY <1>2, <2>1
<1>4. is(merged)
  <2> HIDE DEF is, one
  <2> QED
    BY <1>3
<1>5. merged[0] = step(merged, 0)
  <2> HIDE DEF merged, step
  <2> QED
    BY <1>2, <1>4
<1>6. step(merged, 0) = file
  <2> HIDE DEF merged
  <2> QED
    OBVIOUS
<1> QED
  BY <1>1, <1>2, <1>5, <1>6

-----------------------------------------------------------------------------
(* The steps *)

\* Initially there is the file alone.
LEMMA InitSnips ==
  ASSUME \A f \in SnipFiles : Unique(f), SnipInit
  PROVE  SnipInv
<1>1. snippets \in ListSet /\ snippets.list = <<>> /\ ~snippets.loaded
  <2>1. <<>> \in Seq(SnippetSet)
    OBVIOUS
  <2> QED
    BY <2>1 DEF SnipInit, ListSet
<1>2. PICK f \in SnipFiles : snipDisk = [file |-> f, saves |-> <<>>]
  BY DEF SnipInit
<1>3. /\ snipDisk \in DiskSet
      /\ snipDisk.saves = <<>> /\ Unique(snipDisk.file)
  <2> DEFINE OnFile == [name : SnipNames, conn : Scopes \cup {"global"}]
  <2>1. OnFile \subseteq SnippetSet
    BY DEF SnippetSet, Conns
  <2>2. f \in Seq(OnFile)
    BY SnippetsAssumption DEF SnippetsAssumption
  <2> HIDE DEF OnFile
  <2>3. \A i \in 1..Len(f) : f[i] \in SnippetSet
    BY <2>1, <2>2, Nth
  <2>4. f \in Seq(SnippetSet)
    BY <2>2, <2>3
  <2>5. <<>> \in Seq(Seq(SnippetSet))
    OBVIOUS
  <2> QED
    BY <1>2, <2>4, <2>5 DEF DiskSet
<1>4. editing \in EditingSet
  BY DEF SnipInit, NotEditing, EditingSet, Conns
<1>5. here \in HereSet
  BY SnippetsAssumption DEF SnippetsAssumption, SnipInit, HereSet
<1>6. snipDialog.kind \notin {"save", "rename"}
  BY DEF SnipInit, None
<1>7. Unique(<<>>) /\ Holds(snippets.list, editing)
  BY DEF SnipInit, Unique, Holds
<1> QED
  BY <1>1, <1>3, <1>4, <1>5, <1>6, <1>7 DEF SnipInv, SnippetsFit

\* A changed list that fits is being saved, alone.
LEMMA SavedFits ==
  ASSUME SnippetsFit, NEW list \in Seq(SnippetSet), Saved(list), snipCalm', here' = here,
         Unique(list), Holds(list, editing'),
         editing' \in EditingSet,
         snipDialog'.kind \in {"none", "manage"}
  PROVE  SnippetsFit'
<1>1. snippets.loaded /\ snipDisk.saves = <<>>
  BY DEF Saved
<1>2. /\ snippets' \in ListSet
      /\ snippets'.list = list /\ snippets'.loaded
  BY <1>1 DEF Saved, SnippetsFit, ListSet
<1>3. Append(snipDisk.saves, list) = <<list>> /\ <<list>> \in Seq(Seq(SnippetSet))
  BY <1>1
<1>4. snipDisk' \in DiskSet /\ snipDisk'.saves = <<list>>
  BY <1>3 DEF Saved, SnippetsFit, DiskSet
<1> QED
  BY <1>2, <1>4 DEF SnippetsFit

\* With nothing of the list or the file changed, they still fit.
LEMMA StillFits ==
  ASSUME SnippetsFit, snippets' = snippets, snipDisk' = snipDisk,
         editing' \in EditingSet, Holds(snippets.list, editing'),
         here' \in HereSet,
         snipDialog'.kind \in {"save", "rename"} => snipDialog'.conn \in Conns
  PROVE  SnippetsFit'
BY DEF SnippetsFit

\* The Manage list: what is picked to be edited is in the list.
LEMMA ManageFits ==
  ASSUME SnippetsFit, Manage
  PROVE  SnippetsFit'
<1>1. PICK i \in DOMAIN snippets.list : OnSelected(i)
  BY DEF Manage
<1> DEFINE s == snippets.list[i]
           key == Key(s)
<1>2. /\ s \in SnippetSet /\ UNCHANGED <<snippets, here, snipDisk>>
      /\ editing \in EditingSet /\ Holds(snippets.list, editing)
      /\ here \in HereSet
  <2>1. /\ snippets \in ListSet /\ UNCHANGED <<snippets, here, snipDisk>> /\ editing \in EditingSet
        /\ Holds(snippets.list, editing) /\ here \in HereSet
    BY DEF Manage, SnippetsFit
  <2>2. snippets.list \in Seq(SnippetSet)
    BY <2>1 DEF ListSet
  <2> QED
    BY <1>1, <2>1, <2>2, Nth
<1>3. CASE editing' = editing /\ snipDialog' = [kind |-> "rename", key |-> key,
               conn |-> IF s.conn = "global" THEN here.conn ELSE s.conn]
  <2>1. snipDialog'.conn \in Conns
    BY <1>2, <1>3 DEF SnippetSet, HereSet, Conns
  <2> QED
    BY <1>2, <1>3, <2>1, StillFits
<1>4. CASE editing' = editing /\ snipDialog' = [kind |-> "delete", key |-> key]
  BY <1>2, <1>4, StillFits
<1>5. CASE /\ snipDialog' = None
           /\ editing' = [session |-> here.session, name |-> s.name, conn |-> s.conn]
  <2>1. editing' \in EditingSet /\ Key(s) = <<editing'.name, editing'.conn>>
    <3>1. s.name \in SnipNames /\ s.conn \in Conns /\ here.session \in {1, 2}
      BY <1>2 DEF SnippetSet, HereSet
    <3>2. editing' = [session |-> here.session, name |-> s.name, conn |-> s.conn]
      BY <1>5
    <3>3. editing' \in EditingSet /\ editing'.name = s.name /\ editing'.conn = s.conn
      <4>1. here.session \in Nat
        BY <3>1
      <4>2. s.name \in SnipNames \cup {""}
        BY <3>1
      <4> QED
        BY <3>1, <3>2, <4>1, <4>2 DEF EditingSet
    <3> QED
      BY <3>3 DEF Key
  <2>2. Holds(snippets.list, editing')
    BY <2>1 DEF Holds
  <2> QED
    BY <1>2, <1>5, <2>1, <2>2, StillFits DEF None
<1>6. CASE editing' = editing /\ snipDialog' = None
  BY <1>2, <1>6, StillFits DEF None
<1> QED
  BY <1>1, <1>3, <1>4, <1>5, <1>6 DEF OnSelected

\* A form is saved: the snippet is new, or takes the place of the one it was of.
LEMMA SubmittedFits ==
  ASSUME SnippetsFit, Submitted, snipCalm'
  PROVE  SnippetsFit'
<1>0. /\ snippets.list \in Seq(SnippetSet) /\ snipDialog.conn \in Conns
      /\ editing \in EditingSet
      /\ Unique(snippets.list) /\ Holds(snippets.list, editing) /\ here' = here
  BY DEF SnippetsFit, Submitted, ListSet
<1> DEFINE list == snippets.list
           renames == snipDialog.kind = "rename"
           place == At(list, IF renames THEN snipDialog.key ELSE snipDialog.replacing)
           was == IF place = 0 THEN NoSnippet ELSE Key(list[place])
           new(s) == IF place = 0 THEN Append(list, s) ELSE ReplaceAt(list, place, s)
<1>1. PICK name \in SnipNames, conn \in {snipDialog.conn, "global"} :
        LET s == Snippet(name, conn)
        IN  /\ Validates(list, s, place) /\ editing' = Follows(was, s) /\ Saved(new(s))
            /\ snipDialog' = IF renames THEN [kind |-> "manage"] ELSE None
  BY DEF Submitted
<1> DEFINE s == Snippet(name, conn)
<1>2. s \in SnippetSet /\ s.name = name /\ s.conn = conn /\ Key(s) = <<name, conn>>
  BY <1>0, <1>1 DEF Snippet, SnippetSet, Key, Conns
<1>3. Validates(list, s, place) /\ editing' = Follows(was, s) /\ Saved(new(s))
  BY <1>1
<1>4. snipDialog'.kind \in {"none", "manage"}
  BY <1>1 DEF None
<1>5. place # 0 => place \in DOMAIN list /\ was = Key(list[place])
  BY <1>0, Found
<1>6. editing' \in EditingSet
  BY <1>0, <1>2, <1>3 DEF Follows, SnippetSet, EditingSet
<1> HIDE DEF place, s, was
<1>7. CASE place = 0
  <2>1. new(s) = Append(list, s) /\ new(s) \in Seq(SnippetSet) /\ DOMAIN new(s) = 1..(Len(list) + 1)
        /\ (\A k \in DOMAIN list : new(s)[k] = list[k]) /\ new(s)[Len(list) + 1] = s
    BY <1>0, <1>2, <1>7
  <2>2. Len(list) \in Nat /\ DOMAIN list = 1..Len(list)
    BY <1>0
  <2> DEFINE l == new(s)
  <2> HIDE DEF new
  <2>3. \A k \in DOMAIN list : ~SameName(list[k], s) /\ ~SameName(s, list[k])
    BY <1>3, <1>7, <2>2 DEF Validates, SameName
  <2>4. Unique(l)
    BY <1>0, <2>1, <2>2, <2>3 DEF Unique
  <2>5. editing' = editing
    BY <1>3, <1>7 DEF Follows, was
  <2>6. Holds(l, editing')
    BY <1>0, <2>1, <2>2, <2>5 DEF Holds
  <2> QED
    BY <1>0, <1>3, <1>4, <1>6, <2>1, <2>4, <2>6, SavedFits
<1>8. CASE place # 0
  <2>1. new(s) = [list EXCEPT ![place] = s]
    BY <1>8 DEF ReplaceAt
  <2>2. /\ new(s) \in Seq(SnippetSet) /\ DOMAIN new(s) = DOMAIN list /\ new(s)[place] = s
        /\ \A k \in DOMAIN list : k # place => new(s)[k] = list[k]
    BY <1>0, <1>2, <1>5, <1>8, <2>1
  <2> DEFINE l == new(s)
  <2> HIDE DEF new
  <2>3. \A k \in DOMAIN list : k # place => ~SameName(list[k], s) /\ ~SameName(s, list[k])
    BY <1>3 DEF Validates, SameName
  <2>4. Unique(l)
    BY <1>0, <2>2, <2>3 DEF Unique
  <2>5. list[place].name # "" /\ was # NoSnippet
    <3>1. list[place] \in SnippetSet
      BY <1>0, <1>5, <1>8, Nth
    <3>2. list[place].name # ""
      BY <3>1, SnippetsAssumption DEF SnippetsAssumption, SnippetSet
    <3> QED
      <4>1. was = <<list[place].name, list[place].conn>>
        BY <1>5, <1>8 DEF Key
      <4> QED
        BY <3>2, <4>1 DEF NoSnippet
  <2>6. ASSUME was = <<editing.name, editing.conn>> PROVE Holds(l, editing')
    <3>1. editing'.name = s.name /\ editing'.conn = s.conn
      BY <1>0, <1>3, <2>5, <2>6 DEF Follows, EditingSet
    <3>2. place \in DOMAIN l /\ l[place] = s
      BY <1>5, <1>8, <2>2
    <3>3. Key(l[place]) = <<editing'.name, editing'.conn>>
      BY <3>1, <3>2 DEF Key
    <3> HIDE DEF l
    <3> QED
      BY <3>2, <3>3 DEF Holds
  <2>7. ASSUME was # <<editing.name, editing.conn>> PROVE Holds(l, editing')
    <3>1. editing' = editing
      BY <1>3, <2>7 DEF Follows
    <3>2. ASSUME editing # NotEditing, NEW k \in DOMAIN list, Key(list[k]) = <<editing.name, editing.conn>>
          PROVE  k \in DOMAIN l /\ Key(l[k]) = <<editing.name, editing.conn>>
      BY <1>5, <1>8, <2>2, <2>7, <3>2
    <3> HIDE DEF l
    <3> QED
      BY <1>0, <3>1, <3>2 DEF Holds
  <2>8. Holds(l, editing')
    BY <2>6, <2>7
  <2> QED
    BY <1>0, <1>3, <1>4, <1>6, <2>2, <2>4, <2>8, SavedFits
<1> QED
  BY <1>7, <1>8

\* A snippet is deleted, and no longer edited.
LEMMA DeleteFits ==
  ASSUME SnippetsFit, DeleteSnippet, snipCalm'
  PROVE  SnippetsFit'
<1> DEFINE list == snippets.list
           place == At(list, snipDialog.key)
<1>0. /\ list \in Seq(SnippetSet) /\ editing \in EditingSet
      /\ Unique(list) /\ Holds(list, editing) /\ here' = here
      /\ here \in HereSet /\ snipDialog'.kind = "manage"
  BY DEF SnippetsFit, DeleteSnippet, ListSet
<1>1. CASE UNCHANGED <<snippets, snipDisk, editing>>
  BY <1>0, <1>1, StillFits
<1>2. CASE /\ place # 0 /\ Saved(RemoveAt(list, place))
           /\ editing' = IF snipDialog.key = <<editing.name, editing.conn>> THEN NotEditing ELSE editing
  <2>1. place \in 1..Len(list) /\ Key(list[place]) = snipDialog.key
    BY <1>0, <1>2, Found
  <2> DEFINE l == RemoveAt(list, place)
  <2> HIDE DEF place
  <2>2. /\ l \in Seq(SnippetSet) /\ DOMAIN l = 1..(Len(list) - 1)
        /\ \A k \in 1..(Len(list) - 1) : l[k] = IF k < place THEN list[k] ELSE list[k + 1]
    BY <1>0, <2>1, OneLess
  <2>3. Len(list) \in Nat /\ DOMAIN list = 1..Len(list) /\ place \in Nat
    BY <1>0, <2>1
  <2>4. Saved(l)
    BY <1>2
  <2> HIDE DEF l
  <2>5. Unique(l)
    <3> SUFFICES ASSUME NEW i \in DOMAIN l, NEW j \in DOMAIN l, i # j PROVE ~SameName(l[i], l[j])
      BY DEF Unique
    <3> DEFINE from(k) == IF k < place THEN k ELSE k + 1
    <3>1. from(i) \in DOMAIN list /\ from(j) \in DOMAIN list /\ from(i) # from(j)
      BY <2>1, <2>2, <2>3
    <3>2. l[i] = list[from(i)] /\ l[j] = list[from(j)]
      BY <2>2
    <3> QED
      BY <1>0, <3>1, <3>2 DEF Unique
  <2>6. editing' \in EditingSet
    BY <1>0, <1>2 DEF NotEditing, EditingSet, Conns
  <2>7. ASSUME snipDialog.key = <<editing.name, editing.conn>> PROVE Holds(l, editing')
    BY <1>2, <2>7 DEF Holds
  <2>8. ASSUME snipDialog.key # <<editing.name, editing.conn>>, editing # NotEditing
        PROVE  Holds(l, editing')
    <3>1. PICK i \in DOMAIN list : Key(list[i]) = <<editing.name, editing.conn>>
      BY <1>0, <2>8 DEF Holds
    <3>2. i # place
      BY <2>1, <2>8, <3>1
    <3> DEFINE k == IF i < place THEN i ELSE i - 1
    <3>3. k \in DOMAIN l /\ i = IF k < place THEN k ELSE k + 1
      BY <2>1, <2>2, <2>3, <3>2
    <3>4. l[k] = list[i]
      BY <2>2, <3>3
    <3> HIDE DEF k
    <3> QED
      BY <1>2, <2>8, <3>1, <3>3, <3>4 DEF Holds
  <2>9. Holds(l, editing')
    BY <1>2, <2>7, <2>8 DEF Holds
  <2> QED
    BY <1>0, <2>2, <2>4, <2>5, <2>6, <2>9, SavedFits
<1> QED
  BY <1>1, <1>2 DEF DeleteSnippet

\* The file comes, and is the list.
LEMMA LoadedFits ==
  ASSUME SnippetsFit, SnippetsLoaded, snipCalm'
  PROVE  SnippetsFit'
<1>1. snippets.list = <<>> /\ ~snippets.loaded
  BY DEF SnippetsLoaded
<1>2. snippets' = [list |-> snipDisk.file, loaded |-> TRUE]
  BY <1>1, FileAlone DEF SnippetsLoaded
<1>3. snipDisk.file \in Seq(SnippetSet) /\ Unique(snipDisk.file) /\ snipDisk.saves = <<>>
  BY <1>1 DEF SnippetsFit, DiskSet
<1>4. editing = NotEditing
  BY <1>1 DEF SnippetsFit, Holds
<1>5. Holds(snipDisk.file, editing)
  BY <1>4 DEF Holds
<1>6. snippets' \in ListSet /\ snippets'.list = snipDisk.file /\ snippets'.loaded
  BY <1>2, <1>3 DEF ListSet
<1> QED
  BY <1>3, <1>5, <1>6 DEF SnippetsFit, SnippetsLoaded

\* A save ends, as the only one: the list is on file.
LEMMA LandsFit ==
  ASSUME SnippetsFit, SaveLands, snipCalm'
  PROVE  SnippetsFit'
<1>1. PICK i \in DOMAIN snipDisk.saves :
        snipDisk' = [file |-> snipDisk.saves[i], saves |-> RemoveAt(snipDisk.saves, i)]
  BY DEF SaveLands
<1>2. snippets.loaded /\ snipDisk.saves = <<snippets.list>>
  BY <1>1 DEF SnippetsFit
<1>3. i = 1 /\ snipDisk.saves[i] = snippets.list /\ snippets.list \in Seq(SnippetSet)
  BY <1>1, <1>2 DEF SnippetsFit, ListSet
<1>4. RemoveAt(snipDisk.saves, i) = <<>>
  BY <1>2, <1>3 DEF RemoveAt
<1>5. snipDisk'.file = snippets.list /\ snipDisk'.saves = <<>>
      /\ snipDisk' \in DiskSet
  <2>1. snipDisk' = [file |-> snippets.list, saves |-> <<>>] /\ <<>> \in Seq(Seq(SnippetSet))
    BY <1>1, <1>3, <1>4
  <2> QED
    BY <1>3, <2>1 DEF DiskSet
<1> QED
  BY <1>2, <1>5 DEF SnippetsFit, SaveLands

\* Every step keeps it.
LEMMA NextSnips ==
  ASSUME SnipInv, [SnipNext]_snipVars
  PROVE  SnipInv'
<1> SUFFICES ASSUME snipCalm' PROVE SnippetsFit'
  BY DEF SnipInv
<1>1. snipCalm
  BY DEF SnipNext, OpenSave, OpenManage, Manage, Submitted, DeleteSnippet, CancelSnippet, SwitchTo,
     SnippetsLoaded, SaveLands, Saved, snipVars
<1>2. /\ SnippetsFit /\ Holds(snippets.list, editing)
      /\ editing \in EditingSet
      /\ here \in HereSet
  BY <1>1 DEF SnipInv, SnippetsFit
<1>3. CASE OpenSave
  <2>1. UNCHANGED <<snippets, editing, here, snipDisk>> /\ snipDialog'.conn \in Conns
    BY <1>2, <1>3 DEF OpenSave, EditingSet, HereSet, Conns
  <2> QED
    BY <1>2, <2>1, StillFits
<1>4. CASE OpenManage \/ CancelSnippet
  <2>1. UNCHANGED <<snippets, editing, here, snipDisk>>
    BY <1>4 DEF OpenManage, CancelSnippet
  <2>2. snipDialog' = [kind |-> "manage"] \/ snipDialog' = [kind |-> "none"]
    BY <1>4 DEF OpenManage, CancelSnippet, None
  <2>3. snipDialog'.kind \in {"none", "manage"}
    BY <2>2
  <2> QED
    BY <1>2, <2>1, <2>3, StillFits
<1>5. CASE SwitchTo
  <2>1. UNCHANGED <<snippets, editing, snipDisk, snipDialog>> /\ snipDialog = None
    BY <1>5 DEF SwitchTo
  <2>2. here' \in HereSet
    <3>1. (CHOOSE c \in Scopes : c # here.conn) \in Scopes
      <4>1. here.conn \in Scopes
        BY <1>2 DEF HereSet
      <4>2. PICK c \in Scopes : c # here.conn
        BY <4>1, SnippetsAssumption DEF SnippetsAssumption
      <4> QED
        BY <4>2
    <3>2. 3 - here.session \in {1, 2}
      BY <1>2 DEF HereSet
    <3> QED
      BY <1>5, <3>1, <3>2 DEF SwitchTo, HereSet
  <2> QED
    BY <1>2, <2>1, <2>2, StillFits DEF None
<1>6. CASE UNCHANGED snipVars
  BY <1>2, <1>6 DEF snipVars, SnippetsFit
<1> QED
  BY <1>2, <1>3, <1>4, <1>5, <1>6, ManageFits, SubmittedFits, DeleteFits, LoadedFits, LandsFit DEF SnipNext

\* If the file at the start has no two snippets of the same name in a scope, no list
\* ever has, what an editor holds is in the list, and the list is on file once it is
\* saved, until two saves overlap or one fails (reducer/snippets.rs, `submitted`,
\* `delete`, `loaded`).
THEOREM SnippetsAlwaysStay ==
  ASSUME \A f \in SnipFiles : Unique(f)
  PROVE  SnipSpec => []SnippetsStayThemselves
<1>1. SnipInit => SnipInv
  BY InitSnips
<1>2. SnipInv /\ [SnipNext]_snipVars => SnipInv'
  BY NextSnips
<1>3. SnipInv => SnippetsStayThemselves
  <2> SUFFICES ASSUME SnippetsFit PROVE
        /\ \A i, j \in DOMAIN snippets.list : i # j => ~SameName(snippets.list[i], snippets.list[j])
        /\ editing # NotEditing => At(snippets.list, <<editing.name, editing.conn>>) # 0
        /\ snippets.loaded /\ snipDisk.saves = <<>> => snipDisk.file = snippets.list
    BY DEF SnipInv, SnippetsStayThemselves
  <2>1. \A i, j \in DOMAIN snippets.list : i # j => ~SameName(snippets.list[i], snippets.list[j])
    BY DEF SnippetsFit, Unique
  <2>2. editing # NotEditing => At(snippets.list, <<editing.name, editing.conn>>) # 0
    <3>1. snippets.list \in Seq(SnippetSet) /\ Holds(snippets.list, editing)
      BY DEF SnippetsFit, ListSet
    <3> QED
      BY <3>1, Found DEF Holds
  <2>3. snippets.loaded /\ snipDisk.saves = <<>> => snipDisk.file = snippets.list
    BY DEF SnippetsFit
  <2> QED
    BY <2>1, <2>2, <2>3
<1> QED
  BY <1>1, <1>2, <1>3, PTL DEF SnipSpec

-----------------------------------------------------------------------------
(* The connection dialog *)

\* What a form and a record hold.
TextSet == {"", "x", "9", "70000", "5432", "3306", "1521", "disable", "allow", "prefer",
  "require", "verify-ca", "verify-full", "rw", "ro", "rwc"}
FormNames == {"", "n", "m"}
Vars == {NoVar, BadVar} \cup {DefaultVar(n) : n \in FormNames}
Stores == {"keychain", "ask", "environment"}
Secrets == {<<"none">>, <<"prompt">>, <<"keyring">>} \cup {<<"env", v>> : v \in Vars}
FormSet ==
  [engine : Engines, name : FormNames, lastName : FormNames, useDsn : BOOLEAN, dsn : {"", "d"},
   values : [Kinds -> TextSet], store : Stores, envVar : Vars, password : {"", "x"},
   purpose : {"new", "edit", "duplicate"}, was : Secrets]
RecordSet ==
  [engine : Engines, name : FormNames, dsn : {"", "d"}, texts : [Kinds \ {"password"} -> TextSet],
   secret : Secrets]

\* What is chosen from a list is on the list.
Offered(engine, values) ==
  /\ engine # "sqlite" => values["ssl"] \in SslModes(engine)
  /\ engine = "sqlite" => values["mode"] \in Modes

\* The inductive invariant.
Fits(f) == f \in FormSet /\ Offered(f.engine, f.values)

\* The kinds of fields.
LEMMA KindsAre ==
  Kinds = {"host", "port", "user", "password", "database", "schema", "ssl", "path", "mode", "service", "wallet"}
<1>1. Kinds = Fields("postgres") \cup Fields("mysql") \cup Fields("sqlite") \cup Fields("oracle")
  BY DEF Kinds, Engines
<1> QED
  BY <1>1 DEF Fields

\* Each engine's fields are of these kinds.
LEMMA FieldsAreKinds == \A e \in Engines : Fields(e) \subseteq Kinds
BY DEF Kinds

\* The default of each field is a text, and a choice on offer.
LEMMA DefaultsAre ==
  ASSUME NEW e \in Engines
  PROVE  /\ \A k : Default(e, k) \in TextSet
         /\ DefaultPort(e) \in TextSet
         /\ e # "sqlite" => Default(e, "ssl") \in SslModes(e)
         /\ Default(e, "mode") \in Modes
<1>1. DefaultPort(e) \in {"5432", "3306", "1521", ""}
  BY DEF DefaultPort, Engines
<1>2. \A k : Default(e, k) \in {"5432", "3306", "1521", "", "prefer", "rw"}
  BY <1>1 DEF Default
<1>3. Default(e, "ssl") = "prefer" /\ Default(e, "mode") = "rw"
  BY DEF Default
<1> QED
  BY <1>1, <1>2, <1>3 DEF TextSet, SslModes, AllSslModes, Modes, Engines

\* On another engine the form offers what that one does.
LEMMA SwitchFits ==
  ASSUME NEW f, Fits(f), NEW to \in Engines
  PROVE  Fits(Switch(f, to))
<1> DEFINE untouched == f.values["port"] \in {"", DefaultPort(f.engine)}
           offered(k) == CASE k = "ssl" -> f.values[k] \in SslModes(to)
                           [] k = "mode" -> f.values[k] \in Modes
                           [] OTHER -> f.values[k] # ""
           text(k) == IF k = "port" /\ untouched THEN DefaultPort(to)
                      ELSE IF offered(k) THEN f.values[k] ELSE Default(to, k)
           v == Texts(to, text)
           g == [f EXCEPT !.engine = to, !.values = v]
<1>1. f \in FormSet /\ f.values \in [Kinds -> TextSet]
  BY DEF Fits, FormSet
<1>2. \A k \in Fields(to) : text(k) \in TextSet
  BY <1>1, FieldsAreKinds, DefaultsAre
<1>3. to # "sqlite" => text("ssl") \in SslModes(to) /\ "ssl" \in Fields(to)
  BY DefaultsAre DEF Fields, Engines
<1>4. text("mode") \in Modes /\ "mode" \in Fields("sqlite")
  BY DefaultsAre DEF Fields
<1>5. Switch(f, to) = g
  BY DEF Switch
<1> HIDE DEF text
<1>6. v \in [Kinds -> TextSet] /\ \A k \in Fields(to) : v[k] = text(k)
  <2>1. "" \in TextSet
    BY DEF TextSet
  <2> QED
    BY <1>2, <2>1, FieldsAreKinds DEF Texts
<1>7. Offered(to, v)
  BY <1>3, <1>4, <1>6 DEF Offered
<1> HIDE DEF v
<1>8. g \in FormSet /\ g.engine = to /\ g.values = v
  BY <1>1, <1>6 DEF FormSet
<1> QED
  BY <1>5, <1>7, <1>8 DEF Fits

\* The variable that follows the name is one.
LEMMA RelaidFits ==
  ASSUME NEW f, Fits(f)
  PROVE  Fits(Relaid(f))
<1> DEFINE g == Relaid(f)
<1>1. f \in FormSet
  BY DEF Fits
<1>2. DefaultVar(f.name) \in Vars
  BY <1>1 DEF Vars, FormSet
<1>3. g \in FormSet /\ g.engine = f.engine /\ g.values = f.values
  BY <1>1, <1>2 DEF Relaid, FormSet
<1> QED
  BY <1>3 DEF Fits

\* What is built is a record.
LEMMA BuildIs ==
  ASSUME NEW f, Fits(f)
  PROVE  Build(f) \in RecordSet
<1>1. f \in FormSet /\ f.values \in [Kinds -> TextSet] /\ "" \in TextSet
  BY DEF Fits, FormSet, TextSet
<1>2. Secret(f) \in Secrets
  <2>1. f.envVar \in Vars /\ f.was \in Secrets
    BY <1>1 DEF FormSet
  <2> QED
    BY <2>1 DEF Secret, Secrets
<1>3. Build(f).texts \in [Kinds \ {"password"} -> TextSet]
  BY <1>1 DEF Build
<1> QED
  BY <1>1, <1>2, <1>3 DEF Build, RecordSet, FormSet

\* A form on a record offers what its engine does.
LEMMA EditingFits ==
  ASSUME NEW r \in RecordSet
  PROVE  Fits(Editing(r))
<1> DEFINE e == r.engine
           text(k) ==
             CASE k = "password" -> ""
               [] k = "port" -> IF r.texts[k] = "" THEN DefaultPort(e) ELSE r.texts[k]
               [] k = "ssl" -> IF r.texts[k] \in SslModes(e) THEN r.texts[k] ELSE "prefer"
               [] k = "mode" -> IF r.texts[k] \in Modes THEN r.texts[k] ELSE "rw"
               [] OTHER -> r.texts[k]
           v == Texts(e, text)
<1>1. e \in Engines /\ r.texts \in [Kinds \ {"password"} -> TextSet]
  BY DEF RecordSet
<1>2. \A k \in Fields(e) : text(k) \in TextSet
  <2>1. {"", "prefer", "rw"} \subseteq TextSet
    BY DEF TextSet
  <2> QED
    BY <1>1, <2>1, FieldsAreKinds, DefaultsAre
<1>3. e # "sqlite" => text("ssl") \in SslModes(e) /\ "ssl" \in Fields(e)
  BY <1>1 DEF Fields, Engines, SslModes, AllSslModes
<1>4. text("mode") \in Modes /\ "mode" \in Fields("sqlite")
  BY DEF Fields, Modes
<1> HIDE DEF text
<1>5. v \in [Kinds -> TextSet] /\ \A k \in Fields(e) : v[k] = text(k)
  <2>1. "" \in TextSet
    BY DEF TextSet
  <2> QED
    BY <1>1, <1>2, <2>1, FieldsAreKinds DEF Texts
<1>6. Offered(e, v)
  BY <1>3, <1>4, <1>5 DEF Offered
<1> HIDE DEF v
<1>7. Editing(r).values = v /\ Editing(r).engine = e
  BY DEF Editing, v, text
<1>8. Editing(r) \in FormSet
  <2> DEFINE store == CASE r.secret[1] = "keyring" -> "keychain" [] r.secret[1] = "env" -> "environment"
                        [] OTHER -> "ask"
             var == IF r.secret[1] = "env" THEN r.secret[2] ELSE NoVar
  <2>1. store \in Stores
    BY DEF Stores
  <2>2. r.secret \in Secrets /\ r.name \in FormNames /\ r.dsn \in {"", "d"}
    BY DEF RecordSet
  <2>3. var \in Vars
    <3>1. NoVar \in Vars
      BY DEF Vars
    <3>2. CASE r.secret \in {<<"none">>, <<"prompt">>, <<"keyring">>}
      BY <3>1, <3>2
    <3>3. CASE \E x \in Vars : r.secret = <<"env", x>>
      BY <3>3
    <3> QED
      BY <2>2, <3>2, <3>3 DEF Secrets
  <2>4. Editing(r) = [engine |-> e, name |-> r.name, lastName |-> r.name, useDsn |-> r.dsn # "", dsn |-> r.dsn,
          values |-> v, store |-> store, envVar |-> var, password |-> "", purpose |-> "edit", was |-> r.secret]
    BY DEF Editing, v, text
  <2> HIDE DEF store, var
  <2> QED
    <3>1. (r.dsn # "") \in BOOLEAN /\ "" \in {"", "x"} /\ "edit" \in {"new", "edit", "duplicate"}
      OBVIOUS
    <3> DEFINE d == r.dsn # ""
    <3> HIDE DEF d
    <3>2. d \in BOOLEAN
      BY <3>1 DEF d
    <3>3. [engine |-> e, name |-> r.name, lastName |-> r.name, useDsn |-> d, dsn |-> r.dsn,
           values |-> v, store |-> store, envVar |-> var, password |-> "", purpose |-> "edit", was |-> r.secret]
          \in FormSet
      BY <1>1, <1>5, <2>1, <2>2, <2>3, <3>1, <3>2 DEF FormSet
    <3> QED
      BY <2>4, <3>3 DEF d
<1> QED
  BY <1>6, <1>7, <1>8 DEF Fits

\* A copy fits too.
LEMMA DuplicateFits ==
  ASSUME NEW r \in RecordSet
  PROVE  Fits(Duplicate(r))
<1> DEFINE q == [r EXCEPT !.secret = IF r.secret = <<"keyring">> THEN <<"prompt">> ELSE r.secret]
           g == Editing(q)
           h == [g EXCEPT !.purpose = "duplicate", !.was = <<"none">>]
<1>1. q \in RecordSet
  BY DEF RecordSet, Secrets
<1>2. Duplicate(r) = h
  BY DEF Duplicate
<1> HIDE DEF q
<1>3. g \in FormSet /\ Offered(g.engine, g.values)
  BY <1>1, EditingFits DEF Fits
<1> HIDE DEF g
<1>4. <<"none">> \in Secrets
  BY DEF Secrets
<1>5. h \in FormSet /\ h.engine = g.engine /\ h.values = g.values
  BY <1>3, <1>4 DEF FormSet
<1> QED
  BY <1>2, <1>3, <1>5 DEF Fits

\* A text typed into a row leaves the choices as they were.
LEMMA TypedFits ==
  ASSUME NEW f, Fits(f), NEW v \in [Kinds -> TextSet], v["ssl"] = f.values["ssl"], v["mode"] = f.values["mode"]
  PROVE  Fits([f EXCEPT !.values = v])
<1> DEFINE g == [f EXCEPT !.values = v]
<1>1. g \in FormSet /\ g.engine = f.engine /\ g.values = v
  BY DEF Fits, FormSet
<1> QED
  BY <1>1 DEF Fits, Offered

\* Every change keeps the form's choices on offer.
LEMMA NextFits ==
  ASSUME Fits(form), [FormNext]_formVars
  PROVE  Fits(form')
<1>0. /\ form \in FormSet /\ form.values \in [Kinds -> TextSet] /\ form.engine \in Engines
      /\ Offered(form.engine, form.values)
  BY DEF Fits, FormSet
<1>1. ASSUME NEW f, Fits(f), Changed(f) PROVE Fits(form')
  BY <1>1, RelaidFits DEF Changed
<1>2. CASE PickEngine
  BY <1>1, <1>2, SwitchFits DEF PickEngine
<1>3. CASE TypeText
  <2>1. PICK k \in Fields(form.engine) \ {"port", "ssl", "mode", "password"} :
          Changed([form EXCEPT !.values[k] = "x"])
    BY <1>3 DEF TypeText
  <2> DEFINE v == [form.values EXCEPT ![k] = "x"]
  <2>2. v \in [Kinds -> TextSet] /\ v["ssl"] = form.values["ssl"] /\ v["mode"] = form.values["mode"]
    BY <1>0, <2>1, KindsAre DEF TextSet
  <2>3. [form EXCEPT !.values[k] = "x"] = [form EXCEPT !.values = v]
    BY <1>0 DEF FormSet
  <2> QED
    BY <1>1, <2>1, <2>2, <2>3, TypedFits
<1>4. CASE TypeAll
  <2> DEFINE typed(k) == k \notin {"port", "ssl", "mode", "password"} /\ Shows(form, k)
             v == [k \in Kinds |-> IF typed(k) THEN "x" ELSE form.values[k]]
             g == [form EXCEPT !.name = "n"]
  <2>1. v \in [Kinds -> TextSet] /\ v["ssl"] = form.values["ssl"] /\ v["mode"] = form.values["mode"]
    BY <1>0, KindsAre DEF TextSet
  <2>2. Changed([form EXCEPT !.name = "n", !.values = v])
    BY <1>4 DEF TypeAll
  <2> HIDE DEF v
  <2>3. g \in FormSet /\ g.engine = form.engine /\ g.values = form.values
    BY <1>0 DEF FormSet, FormNames
  <2>4. [form EXCEPT !.name = "n", !.values = v] = [g EXCEPT !.values = v]
    BY <1>0 DEF FormSet
  <2> HIDE DEF g
  <2>5. Fits([g EXCEPT !.values = v])
    BY <1>0, <2>1, <2>3, TypedFits DEF Fits
  <2> QED
    BY <1>1, <2>2, <2>4, <2>5
<1>5. CASE TypePort
  <2>1. PICK p \in {"", "9", "70000"} : Changed([form EXCEPT !.values["port"] = p])
    BY <1>5 DEF TypePort
  <2> DEFINE v == [form.values EXCEPT !["port"] = p]
  <2>2. v \in [Kinds -> TextSet] /\ v["ssl"] = form.values["ssl"] /\ v["mode"] = form.values["mode"]
    BY <1>0, <2>1, KindsAre DEF TextSet
  <2>3. [form EXCEPT !.values["port"] = p] = [form EXCEPT !.values = v]
    BY <1>0 DEF FormSet
  <2> QED
    BY <1>1, <2>1, <2>2, <2>3, TypedFits
<1>6. ASSUME NEW g, g \in FormSet, g.engine = form.engine, g.values = form.values, Changed(g) PROVE Fits(form')
  BY <1>0, <1>1, <1>6 DEF Fits
<1>7. CASE TypeName \/ TypePassword \/ TypeVar
  <2>1. CASE TypeName
    <3>1. PICK n \in {"", "m"} : Changed([form EXCEPT !.name = n])
      BY <2>1 DEF TypeName
    <3>2. [form EXCEPT !.name = n] \in FormSet
      BY <1>0 DEF FormSet, FormNames
    <3>3. [form EXCEPT !.name = n].engine = form.engine /\ [form EXCEPT !.name = n].values = form.values
      BY <1>0 DEF FormSet
    <3> QED
      BY <1>6, <3>1, <3>2, <3>3
  <2>2. CASE TypePassword
    <3> DEFINE g == [form EXCEPT !.password = "x"]
    <3>1. g \in FormSet /\ g.engine = form.engine /\ g.values = form.values /\ Changed(g)
      BY <1>0, <2>2 DEF FormSet, TypePassword
    <3> QED
      BY <1>6, <3>1
  <2>3. CASE TypeVar
    <3> DEFINE g == [form EXCEPT !.envVar = BadVar]
    <3>1. g \in FormSet /\ g.engine = form.engine /\ g.values = form.values /\ Changed(g)
      BY <1>0, <2>3 DEF FormSet, TypeVar, Vars
    <3> QED
      BY <1>6, <3>1
  <2> QED
    BY <1>7, <2>1, <2>2, <2>3
<1>8. CASE ToggleDsn
  <2> DEFINE d == ~form.useDsn
             g == [form EXCEPT !.useDsn = d, !.dsn = "d"]
  <2>1. Changed(g) /\ d \in BOOLEAN
    BY <1>8 DEF ToggleDsn
  <2> HIDE DEF d
  <2>2. g \in FormSet /\ g.engine = form.engine /\ g.values = form.values
    BY <1>0, <2>1 DEF FormSet
  <2> QED
    BY <1>6, <2>1, <2>2
<1>9. CASE PickStore
  <2>1. PICK s \in {"keychain", "ask", "environment"} : Changed([form EXCEPT !.store = s])
    BY <1>9 DEF PickStore
  <2> DEFINE g == [form EXCEPT !.store = s]
  <2>2. g \in FormSet /\ g.engine = form.engine /\ g.values = form.values
    BY <1>0, <2>1 DEF FormSet, Stores
  <2> QED
    BY <1>6, <2>1, <2>2
<1>10. ASSUME NEW k \in {"ssl", "mode"}, NEW m, k = "ssl" => m \in SslModes(form.engine), k = "mode" => m \in Modes,
              Changed([form EXCEPT !.values[k] = m])
       PROVE  Fits(form')
  <2> DEFINE v == [form.values EXCEPT ![k] = m]
             g == [form EXCEPT !.values = v]
  <2>1. m \in TextSet
    BY <1>0, <1>10 DEF SslModes, AllSslModes, Tls, Modes, TextSet
  <2>2. v \in [Kinds -> TextSet] /\ v[k] = m /\ \A j \in {"ssl", "mode"} \ {k} : v[j] = form.values[j]
    BY <1>0, <2>1, KindsAre
  <2>3. [form EXCEPT !.values[k] = m] = g
    BY <1>0 DEF FormSet
  <2>4. Offered(form.engine, v)
    BY <1>0, <1>10, <2>2 DEF Offered
  <2> HIDE DEF v
  <2>5. g \in FormSet /\ g.engine = form.engine /\ g.values = v
    BY <1>0, <2>2 DEF FormSet
  <2> QED
    BY <1>1, <1>10, <2>3, <2>4, <2>5 DEF Fits
<1>11. CASE PickSsl
  BY <1>10, <1>11 DEF PickSsl
<1>12. CASE PickMode
  BY <1>10, <1>12 DEF PickMode
<1>13. CASE Reopen
  <2>1. Build(form) \in RecordSet
    BY BuildIs
  <2> QED
    BY <1>1, <1>13, <2>1, EditingFits, DuplicateFits DEF Reopen
<1>14. CASE UNCHANGED formVars
  BY <1>14 DEF formVars
<1> QED
  BY <1>2, <1>3, <1>4, <1>5, <1>7, <1>8, <1>9, <1>11, <1>12, <1>13, <1>14 DEF FormNext

\* Initially too.
LEMMA InitFits == FormInit => Fits(form)
<1> SUFFICES ASSUME FormInit PROVE Fits(form)
  OBVIOUS
<1> DEFINE v == Texts("postgres", LAMBDA k : Default("postgres", k))
<1>1. "postgres" \in Engines /\ "" \in TextSet /\ "ssl" \in Fields("postgres")
  BY DEF Engines, TextSet, Fields
<1>2. v \in [Kinds -> TextSet] /\ v["ssl"] \in SslModes("postgres")
  BY <1>1, FieldsAreKinds, DefaultsAre DEF Texts
<1>3. form = [engine |-> "postgres", name |-> "", lastName |-> "", useDsn |-> FALSE, dsn |-> "", values |-> v,
              store |-> "keychain", envVar |-> NoVar, password |-> "", purpose |-> "new", was |-> <<"none">>]
  BY DEF FormInit, BlankForm
<1> HIDE DEF v
<1>4. form \in FormSet /\ form.engine = "postgres" /\ form.values = v
  BY <1>1, <1>2, <1>3 DEF FormSet, FormNames, Vars, Stores, Secrets
<1> QED
  BY <1>2, <1>4 DEF Fits, Offered

\* Which rows are shown, of those that a record keeps.
LEMMA ShownRows ==
  ASSUME NEW f, Fits(f), ~f.useDsn, NEW k \in Kinds \ {"password"}
  PROVE  Shows(f, k) <=> k \in Fields(f.engine) /\ (k = "wallet" => f.values["ssl"] # "disable")
<1>1. k # "envVar"
  BY KindsAre
<1> QED
  BY <1>1 DEF Shows, Visible, PasswordRow

\* The record as it is kept, text by text.
LEMMA BuiltTexts ==
  ASSUME NEW f, Fits(f), NEW k \in Kinds \ {"password"}
  PROVE  LET shown == ~f.useDsn /\ k \in Fields(f.engine) /\ (k = "wallet" => f.values["ssl"] # "disable")
             v == f.values[k]
             kept == /\ k = "port" => IsPort(v) /\ v # DefaultPort(f.engine)
                     /\ k = "mode" => v # "rw"
         IN  Build(f).texts[k] = IF shown /\ kept THEN v ELSE ""
<1>1. CASE f.useDsn
  BY <1>1 DEF Build, IsPort
<1>2. CASE ~f.useDsn
  BY <1>2, ShownRows DEF Build, IsPort
<1> QED
  BY <1>1, <1>2

\* The password is kept where it was by a form on the record.
LEMMA SecretKept ==
  ASSUME NEW f, Fits(f)
  PROVE  Secret(Editing(Build(f))) = Secret(f)
<1> DEFINE r == Build(f)
           g == Editing(r)
           s == Secret(f)
<1>1. r.secret = s /\ r.engine = f.engine
  BY DEF Build
<1>2. CASE f.engine = "sqlite"
  <2>1. g.engine = "sqlite"
    BY <1>1, <1>2 DEF Editing
  <2> QED
    BY <1>2, <2>1 DEF Secret, NeedsPassword
<1>3. CASE f.engine # "sqlite"
  <2>1. s = <<"env", f.envVar>> \/ s = <<"prompt">> \/ s = <<"keyring">>
    BY <1>3 DEF Secret, NeedsPassword
  <2> HIDE DEF s, r
  <2>2. /\ g.engine # "sqlite" /\ g.password = "" /\ g.purpose = "edit" /\ g.was = s
        /\ g.store = CASE s[1] = "keyring" -> "keychain" [] s[1] = "env" -> "environment" [] OTHER -> "ask"
        /\ g.envVar = IF s[1] = "env" THEN s[2] ELSE NoVar
    BY <1>1, <1>3 DEF Editing
  <2> HIDE DEF g
  <2>3. CASE s = <<"env", f.envVar>>
    <3>1. s[1] = "env" /\ s[2] = f.envVar
      BY <2>3
    <3>2. g.store = "environment" /\ g.envVar = f.envVar
      BY <2>2, <3>1
    <3> QED
      <4>1. Secret(g) = <<"env", f.envVar>>
        BY <2>2, <3>2 DEF Secret, NeedsPassword
      <4> QED
        BY <2>3, <4>1 DEF s, g, r
  <2>4. CASE s = <<"prompt">>
    <3>1. s[1] = "prompt"
      BY <2>4
    <3>2. g.store = "ask"
      BY <2>2, <3>1
    <3>3. Secret(g) = <<"prompt">>
      BY <2>2, <3>2 DEF Secret, NeedsPassword
    <3> QED
      BY <2>4, <3>3 DEF s, g, r
  <2>5. CASE s = <<"keyring">>
    <3>1. s[1] = "keyring"
      BY <2>5
    <3>2. g.store = "keychain"
      BY <2>2, <3>1
    <3>3. Secret(g) = <<"keyring">>
      BY <2>2, <2>5, <3>2 DEF Secret, NeedsPassword
    <3> QED
      BY <2>5, <3>3 DEF s, g, r
  <2> QED
    BY <2>1, <2>3, <2>4, <2>5
<1> QED
  BY <1>2, <1>3

\* A valid form that connects by a DSN has one, and one on its record has it too.
LEMMA DsnKept ==
  ASSUME NEW f, Fits(f), Valid(f)
  PROVE  LET r == Build(f)
             g == Editing(r)
         IN  g.engine = f.engine /\ g.name = f.name /\ g.useDsn = f.useDsn /\ g.dsn = r.dsn
<1> DEFINE r == Build(f)
           g == Editing(r)
<1>1. r.engine = f.engine /\ r.name = f.name /\ r.dsn = IF f.useDsn THEN f.dsn ELSE ""
  BY DEF Build
<1>2. f.useDsn => Shows(f, "dsn")
  BY DEF Shows, Visible
<1>3. ~Wrong(f, "dsn")
  BY DEF Valid
<1>4. f.useDsn => f.dsn # ""
  BY <1>2, <1>3 DEF Wrong
<1>5. f.useDsn \in BOOLEAN
  BY DEF Fits, FormSet
<1> HIDE DEF r
<1>6. g.engine = r.engine /\ g.name = r.name /\ g.useDsn = (r.dsn # "") /\ g.dsn = r.dsn
  BY DEF Editing
<1> HIDE DEF g
<1>7. g.useDsn = f.useDsn
  BY <1>1, <1>4, <1>5, <1>6
<1> QED
  BY <1>1, <1>6, <1>7 DEF g, r

\* What the form on a record shows of a text.
LEMMA EditedTexts ==
  ASSUME NEW r \in RecordSet, NEW k \in Fields(r.engine) \ {"password"}
  PROVE  Editing(r).values[k] =
           CASE k = "port" -> (IF r.texts[k] = "" THEN DefaultPort(r.engine) ELSE r.texts[k])
             [] k = "ssl" -> (IF r.texts[k] \in SslModes(r.engine) THEN r.texts[k] ELSE "prefer")
             [] k = "mode" -> (IF r.texts[k] \in Modes THEN r.texts[k] ELSE "rw")
             [] OTHER -> r.texts[k]
<1>1. r.engine \in Engines
  BY DEF RecordSet
<1>2. k \in Kinds
  BY <1>1, FieldsAreKinds
<1> QED
  BY <1>2 DEF Editing, Texts

\* Every text survives being edited.
LEMMA TextKept ==
  ASSUME NEW f, Fits(f), Valid(f), NEW k \in Kinds \ {"password"}
  PROVE  Build(Editing(Build(f))).texts[k] = Build(f).texts[k]
<1> DEFINE r == Build(f)
           g == Editing(r)
           shownF == ~f.useDsn /\ k \in Fields(f.engine) /\ (k = "wallet" => f.values["ssl"] # "disable")
           keptF == /\ k = "port" => IsPort(f.values[k]) /\ f.values[k] # DefaultPort(f.engine)
                    /\ k = "mode" => f.values[k] # "rw"
           shownG == ~g.useDsn /\ k \in Fields(g.engine) /\ (k = "wallet" => g.values["ssl"] # "disable")
           keptG == /\ k = "port" => IsPort(g.values[k]) /\ g.values[k] # DefaultPort(g.engine)
                    /\ k = "mode" => g.values[k] # "rw"
<1>1. r \in RecordSet /\ r.engine = f.engine
  BY BuildIs DEF Build
<1>2. Fits(g) /\ g.engine = f.engine /\ g.useDsn = f.useDsn
  BY <1>1, EditingFits, DsnKept
<1>3. r.texts[k] = IF shownF /\ keptF THEN f.values[k] ELSE ""
  BY BuiltTexts
<1>4. Build(g).texts[k] = IF shownG /\ keptG THEN g.values[k] ELSE ""
  BY <1>2, BuiltTexts
<1>5. f.engine \in Engines
  BY DEF Fits, FormSet
<1>6. ASSUME ~f.useDsn, "ssl" \in Fields(f.engine)
      PROVE  g.values["ssl"] = f.values["ssl"] /\ r.texts["ssl"] = f.values["ssl"]
  <2>1. f.values["ssl"] \in SslModes(f.engine)
    BY <1>5, <1>6 DEF Fits, Offered, Fields, Engines
  <2>2. "ssl" \in Kinds \ {"password"}
    BY KindsAre
  <2>3. r.texts["ssl"] = f.values["ssl"]
    BY <1>6, <2>2, BuiltTexts
  <2>4. g.values["ssl"] = r.texts["ssl"]
    BY <1>1, <1>6, <2>1, <2>3, EditedTexts
  <2> QED
    BY <2>3, <2>4
<1>7. "wallet" \in Fields(f.engine) => "ssl" \in Fields(f.engine)
  BY <1>5 DEF Fields, Engines
<1> HIDE DEF r, g
<1>8. shownF = shownG
  BY <1>2, <1>6, <1>7
<1>9. CASE ~shownF
  BY <1>3, <1>4, <1>8, <1>9 DEF r, g
<1>10. CASE shownF
  <2>1. k \in Fields(r.engine) \ {"password"} /\ ~f.useDsn
    BY <1>1, <1>10
  <2>2. CASE k = "port"
    <3>1. g.values[k] = IF r.texts[k] = "" THEN DefaultPort(r.engine) ELSE r.texts[k]
      BY <1>1, <2>1, <2>2, EditedTexts DEF g
    <3> QED
      BY <1>1, <1>2, <1>3, <1>4, <1>8, <1>10, <2>2, <3>1 DEF r, g
  <2>3. CASE k = "mode"
    <3>1. g.values[k] = IF r.texts[k] \in Modes THEN r.texts[k] ELSE "rw"
      BY <1>1, <2>1, <2>3, EditedTexts DEF g
    <3>2. f.engine = "sqlite"
      BY <1>5, <1>10, <2>3 DEF Fields, Engines
    <3>3. f.values[k] \in Modes
      BY <2>3, <3>2 DEF Fits, Offered
    <3> QED
      BY <1>2, <1>3, <1>4, <1>8, <1>10, <2>3, <3>1, <3>3 DEF r, g
  <2>4. CASE k = "ssl"
    BY <1>3, <1>4, <1>6, <1>8, <1>10, <2>4 DEF r, g
  <2>5. CASE k \notin {"port", "mode", "ssl"}
    <3>1. g.values[k] = r.texts[k]
      BY <1>1, <2>1, <2>5, EditedTexts DEF g
    <3> QED
      BY <1>3, <1>4, <1>8, <1>10, <2>5, <3>1 DEF r, g
  <2> QED
    BY <2>2, <2>3, <2>4, <2>5
<1> QED
  BY <1>9, <1>10

\* So the whole record does.
LEMMA EditingKept ==
  ASSUME NEW f, Fits(f), Valid(f)
  PROVE  Build(Editing(Build(f))) = Build(f)
<1> DEFINE r == Build(f)
           g == Editing(r)
           q == Build(g)
<1>1. r \in RecordSet /\ Fits(g)
  BY BuildIs, EditingFits
<1>2. q \in RecordSet
  BY <1>1, BuildIs
<1>3. q.engine = g.engine /\ q.name = g.name /\ q.dsn = (IF g.useDsn THEN g.dsn ELSE "") /\ q.secret = Secret(g)
  BY DEF Build
<1>4. r.engine = f.engine /\ r.name = f.name /\ r.dsn = (IF f.useDsn THEN f.dsn ELSE "") /\ r.secret = Secret(f)
  BY DEF Build
<1>5. g.engine = f.engine /\ g.name = f.name /\ g.useDsn = f.useDsn /\ g.dsn = r.dsn /\ Secret(g) = Secret(f)
  BY DsnKept, SecretKept
<1>6. \A k \in Kinds \ {"password"} : q.texts[k] = r.texts[k]
  BY TextKept
<1> HIDE DEF q, g, r
<1>7. q.texts = r.texts
  <2>1. q.texts \in [Kinds \ {"password"} -> TextSet] /\ r.texts \in [Kinds \ {"password"} -> TextSet]
    BY <1>1, <1>2 DEF RecordSet
  <2> DEFINE a == q.texts
             b == r.texts
             K == Kinds \ {"password"}
  <2>2. a \in [K -> TextSet] /\ b \in [K -> TextSet] /\ \A k \in K : a[k] = b[k]
    BY <1>6, <2>1
  <2> HIDE DEF a, b, K
  <2>3. a = [k \in K |-> a[k]] /\ b = [k \in K |-> b[k]]
    BY <2>2
  <2>4. [k \in K |-> a[k]] = [k \in K |-> b[k]]
    BY <2>2
  <2> QED
    BY <2>3, <2>4 DEF a, b
<1>8. q.engine = r.engine /\ q.name = r.name /\ q.dsn = r.dsn /\ q.secret = r.secret
  BY <1>3, <1>4, <1>5
<1>9. /\ q = [engine |-> q.engine, name |-> q.name, dsn |-> q.dsn, texts |-> q.texts, secret |-> q.secret]
      /\ r = [engine |-> r.engine, name |-> r.name, dsn |-> r.dsn, texts |-> r.texts, secret |-> r.secret]
  <2>1. ASSUME NEW t \in RecordSet
        PROVE  t = [engine |-> t.engine, name |-> t.name, dsn |-> t.dsn, texts |-> t.texts, secret |-> t.secret]
    BY <2>1 DEF RecordSet
  <2> QED
    BY <1>1, <1>2, <2>1
<1>10. q = r
  BY <1>7, <1>8, <1>9
<1> QED
  BY <1>10 DEF q, g, r

\* A form that connects by its fields builds the mode it shows, which is on offer.
LEMMA SslBuilt ==
  ASSUME NEW f, Fits(f), ~f.useDsn, f.engine # "sqlite"
  PROVE  /\ Build(f).texts["ssl"] = f.values["ssl"] /\ Shows(f, "ssl")
         /\ f.values["ssl"] \in SslModes(f.engine)
<1>1. "ssl" \in Fields(f.engine) /\ "ssl" \in Kinds \ {"password"}
  BY KindsAre DEF Fields, Engines, Fits, FormSet
<1>2. Build(f).texts["ssl"] = f.values["ssl"] /\ Shows(f, "ssl")
  BY <1>1, BuiltTexts, ShownRows
<1> QED
  BY <1>2 DEF Fits, Offered

\* A valid form that connects by its fields makes a configuration.
LEMMA ValidConfigures ==
  ASSUME NEW f, Fits(f), Valid(f), ~f.useDsn
  PROVE  /\ Configures(Build(f))
         /\ f.engine # "sqlite" => Build(f).texts["ssl"] \in SslModes(f.engine)
<1> DEFINE r == Build(f)
<1>1. r.engine = f.engine /\ r.dsn = "" /\ f.engine \in Engines
  BY DEF Build, Fits, FormSet
<1>2. ASSUME NEW k \in {"path", "host", "user", "service", "database"}, k \in Fields(f.engine),
             k = "database" => f.engine = "postgres"
      PROVE  r.texts[k] # ""
  <2>1. k \in Kinds \ {"password"}
    BY KindsAre
  <2>2. Shows(f, k)
    BY <1>2, <2>1, ShownRows
  <2>3. ~Wrong(f, k)
    BY <2>1 DEF Valid
  <2>4. f.values[k] # ""
    BY <1>2, <2>2, <2>3 DEF Wrong
  <2> QED
    BY <1>2, <2>1, <2>4, BuiltTexts
<1>3. f.engine # "sqlite" => r.texts["ssl"] \in SslModes(f.engine)
  BY SslBuilt
<1>8. f.engine \in {"postgres", "mysql"} => r.texts["ssl"] \in AllSslModes
  BY <1>3 DEF SslModes
<1> HIDE DEF r
<1>4. CASE f.engine = "sqlite"
  <2>1. r.texts["path"] # ""
    BY <1>2, <1>4 DEF Fields
  <2> QED
    BY <1>1, <1>4, <2>1 DEF Configures, r
<1>5. CASE f.engine = "postgres"
  <2>1. r.texts["host"] # "" /\ r.texts["user"] # "" /\ r.texts["database"] # ""
    BY <1>2, <1>5 DEF Fields
  <2> QED
    BY <1>1, <1>3, <1>8, <1>5, <2>1 DEF Configures, r
<1>6. CASE f.engine = "oracle"
  <2>1. r.texts["host"] # "" /\ r.texts["user"] # "" /\ r.texts["service"] # ""
    BY <1>2, <1>6 DEF Fields
  <2> QED
    BY <1>1, <1>3, <1>8, <1>6, <2>1 DEF Configures, r
<1>7. CASE f.engine = "mysql"
  <2>1. r.texts["host"] # "" /\ r.texts["user"] # ""
    BY <1>2, <1>7 DEF Fields
  <2> QED
    BY <1>1, <1>3, <1>8, <1>7, <2>1 DEF Configures, r
<1> QED
  BY <1>1, <1>3, <1>4, <1>5, <1>6, <1>7 DEF Engines, r

\* What a driver refuses of it shows.
LEMMA RefusedShows ==
  ASSUME NEW f, Fits(f), ~f.useDsn
  PROVE  Refused(Build(f)) <=> AsksForRefusal(f)
<1> DEFINE r == Build(f)
           ssl == f.values["ssl"]
<1>1. r.engine = f.engine /\ f.engine \in Engines
  BY DEF Build, Fits, FormSet
<1>2. CASE f.engine = "sqlite"
  <2>1. "ssl" \notin Fields(f.engine) /\ "ssl" \in Kinds \ {"password"}
    BY <1>2, KindsAre DEF Fields
  <2>2. ~Shows(f, "ssl") /\ r.texts["ssl"] = ""
    BY <2>1, ShownRows, BuiltTexts
  <2> QED
    BY <1>1, <1>2, <2>2 DEF Refused, AsksForRefusal, Tls
<1>3. CASE f.engine \in {"postgres", "mysql"}
  <2>1. r.texts["ssl"] = ssl /\ Shows(f, "ssl")
    BY <1>3, SslBuilt
  <2> HIDE DEF r
  <2> QED
    BY <1>1, <1>3, <2>1 DEF Refused, AsksForRefusal, r
<1>4. CASE f.engine = "oracle"
  <2>1. r.texts["ssl"] = ssl /\ Shows(f, "ssl")
    BY <1>4, SslBuilt
  <2>2. "wallet" \in Fields(f.engine) /\ "wallet" \in Kinds \ {"password"}
    BY <1>4, KindsAre DEF Fields
  <2>3. /\ Shows(f, "wallet") <=> ssl # "disable"
        /\ r.texts["wallet"] = IF ssl # "disable" THEN f.values["wallet"] ELSE ""
    BY <2>2, ShownRows, BuiltTexts
  <2> HIDE DEF r
  <2> QED
    BY <1>1, <1>4, <2>1, <2>3 DEF Refused, AsksForRefusal, r
<1> QED
  BY <1>1, <1>2, <1>3, <1>4 DEF Engines

\* Whatever is changed in the connection dialog, and however often: what it builds
\* comes back from being edited as it was, its password where it is kept; what it
\* lets through makes a configuration, and what a driver refuses of that before the
\* network is what its rows show.
THEOREM FormsAlwaysBuild == FormSpec => []FormsBuildRecords
<1>1. FormInit => Fits(form)
  BY InitFits
<1>2. Fits(form) /\ [FormNext]_formVars => Fits(form)'
  BY NextFits
<1>3. Fits(form) => FormsBuildRecords
  BY EditingKept, ValidConfigures, RefusedShows
     DEF FormsBuildRecords, EditingKeepsTheRecord, ValidFormsConfigure, RefusalsShow
<1> QED
  BY <1>1, <1>2, <1>3, PTL DEF FormSpec

-----------------------------------------------------------------------------
(* The rows of a statement *)

\* What can be asked for, what is sent and what is answered.
SourceSet ==
  [backend : Backends, rows : 0..MostRows, fails : BOOLEAN, size : FetchSizes, limit : Limits]
Items == {Columns} \cup {Batch(r) : r \in Seq(Nat)}
CursorSet ==
  [phase : {"reads", "looks", "kept", "ended", "closed"}, carry : Seq(Nat), rows : Seq(Nat),
   columns : BOOLEAN]
AnswerSet == [rows : Seq(Nat), more : BOOLEAN, error : BOOLEAN]

\* The rows that come right after row `a`.
GoesOn(rows, a) == rows \in Seq(Nat) /\ \A i \in 1..Len(rows) : rows[i] = a + i

\* Where each of the m batches of `q` ends: `ends`, which starts at row `p`.
Batched(s, q, c, m, ends) ==
  /\ ends \in [0..m -> Nat]
  /\ Len(q) = c + m
  /\ \A i \in 1..m :
       /\ ends[i - 1] < ends[i] /\ ends[i] <= s.rows
       /\ \E r \in Seq(Nat) : q[c + i] = Batch(r) /\ GoesOn(r, ends[i - 1]) /\ Len(r) = ends[i] - ends[i - 1]
  /\ ~s.fails => ends[m] = s.rows

\* What is to come when row `p` was the last: the columns perhaps, then batches that
\* go on from there, to the last row unless the statement fails.
Flows(s, q, p) ==
  /\ q \in Seq(Items) /\ p \in 0..s.rows
  /\ \E c \in {0, 1}, m \in Nat : \E ends \in [0..m -> Nat] :
       /\ Batched(s, q, c, m, ends)
       /\ c = 1 => q[1] = Columns
       /\ ends[0] = p

\* Nothing more to come: that was the last row.
LEMMA FlowEnded ==
  ASSUME NEW s, NEW p, Flows(s, <<>>, p), ~s.fails
  PROVE  p = s.rows
<1>1. PICK c \in {0, 1}, m \in Nat : \E ends \in [0..m -> Nat] :
        Batched(s, <<>>, c, m, ends) /\ ends[0] = p
  BY DEF Flows
<1>2. PICK ends \in [0..m -> Nat] : Batched(s, <<>>, c, m, ends) /\ ends[0] = p
  BY <1>1
<1>3. Len(<<>>) = c + m /\ (~s.fails => ends[m] = s.rows)
  BY <1>2 DEF Batched
<1>4. m = 0
  BY <1>3
<1> QED
  BY <1>2, <1>3, <1>4

\* What comes next: the columns, or a batch that goes on from the last row.
LEMMA FlowNext ==
  ASSUME NEW s, NEW q, NEW p, Flows(s, q, p), q # <<>>
  PROVE  \/ q[1] = Columns /\ Flows(s, Tail(q), p)
         \/ \E r \in Seq(Nat) : /\ q[1] = Batch(r) /\ GoesOn(r, p) /\ r # <<>>
                                /\ Flows(s, Tail(q), p + Len(r))
<1>1. q \in Seq(Items) /\ p \in 0..s.rows
  BY DEF Flows
<1>2. PICK c \in {0, 1}, m \in Nat : \E ends \in [0..m -> Nat] :
        Batched(s, q, c, m, ends) /\ (c = 1 => q[1] = Columns) /\ ends[0] = p
  BY DEF Flows
<1>3. PICK ends \in [0..m -> Nat] : Batched(s, q, c, m, ends) /\ (c = 1 => q[1] = Columns) /\ ends[0] = p
  BY <1>2
<1>4. /\ Tail(q) \in Seq(Items) /\ Len(Tail(q)) = Len(q) - 1 /\ Len(q) \in Nat \ {0}
      /\ \A i \in 1..(Len(q) - 1) : Tail(q)[i] = q[i + 1]
  BY <1>1
<1>5. CASE c = 1
  <2>1. Len(q) = 1 + m
    BY <1>3, <1>5 DEF Batched
  <2>2. Batched(s, Tail(q), 0, m, ends)
    <3>1. \A i \in 1..m : Tail(q)[0 + i] = q[1 + i]
      BY <1>4, <2>1
    <3>2. Len(Tail(q)) = 0 + m
      BY <1>4, <2>1
    <3> QED
      BY <1>3, <1>5, <3>1, <3>2 DEF Batched
  <2>3. Flows(s, Tail(q), p)
    <3>1. /\ Batched(s, Tail(q), 0, m, ends) /\ (0 = 1 => Tail(q)[1] = Columns) /\ ends[0] = p
          /\ m \in Nat /\ ends \in [0..m -> Nat] /\ 0 \in {0, 1}
      BY <1>3, <2>2
    <3>2. \E c2 \in {0, 1}, m2 \in Nat : \E ends2 \in [0..m2 -> Nat] :
            Batched(s, Tail(q), c2, m2, ends2) /\ (c2 = 1 => Tail(q)[1] = Columns) /\ ends2[0] = p
      BY <3>1
    <3> QED
      BY <1>1, <1>4, <3>2 DEF Flows
  <2> QED
    BY <1>3, <1>5, <2>3
<1>6. CASE c = 0
  <2>1. Len(q) = m /\ m > 0
    BY <1>3, <1>4, <1>6 DEF Batched
  <2>2. PICK r \in Seq(Nat) : q[0 + 1] = Batch(r) /\ GoesOn(r, ends[1 - 1]) /\ Len(r) = ends[1] - ends[1 - 1]
    BY <1>3, <1>6, <2>1 DEF Batched
  <2>3. ends[0] < ends[1] /\ ends[1] <= s.rows /\ ends[1] \in Nat /\ ends[0] = p
    BY <1>3, <2>1 DEF Batched
  <2>4. q[1] = Batch(r) /\ GoesOn(r, p) /\ p + Len(r) = ends[1] /\ r # <<>>
    BY <1>1, <2>2, <2>3
  <2> DEFINE rest == [i \in 0..(m - 1) |-> ends[i + 1]]
  <2>5. m - 1 \in Nat /\ rest \in [0..(m - 1) -> Nat] /\ \A i \in 0..(m - 1) : rest[i] = ends[i + 1]
    BY <2>1
  <2> HIDE DEF rest
  <2>6. ASSUME NEW i \in 1..(m - 1)
        PROVE  /\ rest[i - 1] < rest[i] /\ rest[i] <= s.rows
               /\ \E t \in Seq(Nat) : /\ Tail(q)[0 + i] = Batch(t) /\ GoesOn(t, rest[i - 1])
                                      /\ Len(t) = rest[i] - rest[i - 1]
    <3>1. i + 1 \in 1..m /\ rest[i - 1] = ends[i] /\ rest[i] = ends[i + 1] /\ (i + 1) - 1 = i
      BY <2>5
    <3>2. ends[i] < ends[i + 1] /\ ends[i + 1] <= s.rows
      BY <1>3, <3>1 DEF Batched
    <3>3. \E t \in Seq(Nat) : q[0 + (i + 1)] = Batch(t) /\ GoesOn(t, ends[i]) /\ Len(t) = ends[i + 1] - ends[i]
      BY <1>3, <1>6, <3>1 DEF Batched
    <3>4. Tail(q)[0 + i] = q[0 + (i + 1)]
      BY <1>4, <2>1
    <3> QED
      BY <3>1, <3>2, <3>3, <3>4
  <2>7. Len(Tail(q)) = 0 + (m - 1) /\ (~s.fails => rest[m - 1] = s.rows)
    BY <1>3, <1>4, <2>1, <2>5 DEF Batched
  <2>8. Batched(s, Tail(q), 0, m - 1, rest)
    BY <2>5, <2>6, <2>7 DEF Batched
  <2>9. rest[0] = ends[1] /\ p + Len(r) \in 0..s.rows
    BY <1>1, <2>1, <2>3, <2>4, <2>5
  <2>10. Flows(s, Tail(q), p + Len(r))
    <3>1. /\ Batched(s, Tail(q), 0, m - 1, rest) /\ (0 = 1 => Tail(q)[1] = Columns) /\ rest[0] = p + Len(r)
          /\ m - 1 \in Nat /\ rest \in [0..(m - 1) -> Nat] /\ 0 \in {0, 1}
      BY <2>4, <2>5, <2>8, <2>9
    <3>2. \E c2 \in {0, 1}, m2 \in Nat : \E ends2 \in [0..m2 -> Nat] :
            Batched(s, Tail(q), c2, m2, ends2) /\ (c2 = 1 => Tail(q)[1] = Columns) /\ ends2[0] = p + Len(r)
      BY <3>1
    <3> QED
      BY <1>4, <2>9, <3>2 DEF Flows
  <2> QED
    BY <2>4, <2>10
<1> QED
  BY <1>5, <1>6

\* How many batches fill, and what is left.
LEMMA Division ==
  ASSUME NEW n \in Nat, NEW size \in Nat \ {0}
  PROVE  /\ n \div size \in Nat /\ n % size \in 0..(size - 1) /\ n = (n \div size) * size + (n % size)
         /\ \A i \in 1..(n \div size) : (i - 1) * size \in Nat /\ i * size = (i - 1) * size + size /\ i * size <= n
<1> DEFINE k == n \div size
<1>1. k \in Nat /\ n % size \in 0..(size - 1) /\ n = k * size + (n % size)
  <2>1. n \div size \in Nat
    OBVIOUS
  <2>2. n % size \in 0..(size - 1)
    OBVIOUS
  <2>3. n = (n \div size) * size + (n % size)
    OBVIOUS
  <2> QED
    BY <2>1, <2>2, <2>3
<1> HIDE DEF k
<1>2. ASSUME NEW i \in 1..k
      PROVE  (i - 1) * size \in Nat /\ i * size = (i - 1) * size + size /\ i * size <= n
  <2>1. i * size = (i - 1) * size + size
    OBVIOUS
  <2>2. (i - 1) * size \in Nat
    OBVIOUS
  <2>3. k * size = i * size + (k - i) * size
    BY <1>1
  <2>4. (k - i) * size \in Nat
    BY <1>1
  <2>5. k * size \in Nat /\ i * size \in Nat
    BY <1>1
  <2>6. k * size <= n
    BY <1>1, <2>5
  <2> QED
    BY <2>1, <2>2, <2>3, <2>4, <2>5, <2>6
<1> QED
  BY <1>1, <1>2 DEF k

\* Rows by their numbers.
LEMMA RowsGoOn ==
  ASSUME NEW a \in Nat, NEW b \in Nat, a <= b
  PROVE  Rows(a + 1, b) \in Seq(Nat) /\ Len(Rows(a + 1, b)) = b - a /\ GoesOn(Rows(a + 1, b), a)
<1> DEFINE l == b - a
<1>1. Rows(a + 1, b) = [i \in 1..l |-> a + i]
  BY DEF Rows
<1>2. l \in Nat /\ [i \in 1..l |-> a + i] \in Seq(Nat)
  OBVIOUS
<1> HIDE DEF l
<1>3. Len([i \in 1..l |-> a + i]) = l
  BY <1>2
<1> QED
  BY <1>1, <1>2, <1>3 DEF GoesOn, l

\* So rows that go on are told by the first and how many.
LEMMA GoingOnIsRows ==
  ASSUME NEW a \in Nat, NEW rows, GoesOn(rows, a)
  PROVE  rows = Rows(a + 1, a + Len(rows))
<1> DEFINE l == Len(rows)
<1>1. rows \in Seq(Nat) /\ l \in Nat /\ DOMAIN rows = 1..l /\ \A i \in 1..l : rows[i] = a + i
  BY DEF GoesOn
<1>2. Rows(a + 1, a + l) = [i \in 1..l |-> a + i]
  <2>1. l \in Nat
    BY <1>1
  <2> HIDE DEF l
  <2>2. (a + l) + 1 - (a + 1) = l
    BY <2>1
  <2>3. \A i \in 1..l : (a + 1) + i - 1 = a + i
    BY <2>1
  <2> QED
    BY <2>2, <2>3 DEF Rows
<1>3. rows = [i \in 1..l |-> rows[i]]
  BY <1>1
<1> HIDE DEF l
<1>4. [i \in 1..l |-> rows[i]] = [i \in 1..l |-> a + i]
  BY <1>1
<1> QED
  BY <1>2, <1>3, <1>4 DEF l

\* Rows joined to those that they go on from.
LEMMA JoinedGoOn ==
  ASSUME NEW a \in Nat, NEW r, NEW t, GoesOn(r, a), GoesOn(t, a + Len(r))
  PROVE  GoesOn(r \o t, a) /\ Len(r \o t) = Len(r) + Len(t)
BY DEF GoesOn

\* Rows cut at the limit: both parts go on.
LEMMA CutGoesOn ==
  ASSUME NEW a \in Nat, NEW r, GoesOn(r, a), NEW l \in 1..Len(r)
  PROVE  /\ GoesOn(SubSeq(r, 1, l), a) /\ Len(SubSeq(r, 1, l)) = l
         /\ GoesOn(SubSeq(r, l + 1, Len(r)), a + l) /\ Len(SubSeq(r, l + 1, Len(r))) = Len(r) - l
BY DEF GoesOn

\* The full batches, one by one.
LEMMA FullIs ==
  ASSUME NEW n \in Nat, NEW size \in Nat \ {0}
  PROVE  /\ Full(n, size) \in Seq(Items) /\ Len(Full(n, size)) = n \div size
         /\ \A i \in 1..(n \div size) :
              \E r \in Seq(Nat) : Full(n, size)[i] = Batch(r) /\ GoesOn(r, (i - 1) * size) /\ Len(r) = size
<1> DEFINE k == n \div size
           batch(i) == Batch(Rows((i - 1) * size + 1, i * size))
           q == [i \in 1..k |-> batch(i)]
<1>1. k \in Nat
  BY Division
<1>2. ASSUME NEW i \in 1..k
      PROVE  \E r \in Seq(Nat) : batch(i) = Batch(r) /\ GoesOn(r, (i - 1) * size) /\ Len(r) = size
  <2> DEFINE a == (i - 1) * size
             b == i * size
  <2>1. a \in Nat /\ b = a + size
    BY Division
  <2> HIDE DEF a, b
  <2>2. Rows(a + 1, b) \in Seq(Nat) /\ Len(Rows(a + 1, b)) = size /\ GoesOn(Rows(a + 1, b), a)
    BY <2>1, RowsGoOn
  <2> QED
    BY <2>2 DEF a, b
<1>3. Full(n, size) = q
  BY DEF Full
<1>4. \A i \in 1..k : batch(i) \in Items
  BY <1>2 DEF Items
<1> HIDE DEF batch, k
<1>5. q \in Seq(Items) /\ Len(q) = k /\ \A i \in 1..k : q[i] = batch(i)
  BY <1>1, <1>4
<1> QED
  BY <1>2, <1>3, <1>5 DEF batch, k

\* Three sequences, one after the other.
Three(x, y, z) == x \o y \o z

\* All three have their place in q.
Placed(q, x, y, z) ==
  /\ Len(q) = Len(x) + (Len(y) + Len(z))
  /\ \A i \in 1..Len(x) : q[i] = x[i]
  /\ \A i \in 1..Len(y) : q[Len(x) + i] = y[i]
  /\ \A i \in 1..Len(z) : q[Len(x) + (Len(y) + i)] = z[i]

\* Three joined keep all three.
LEMMA ThreeJoined ==
  ASSUME NEW S, NEW x \in Seq(S), NEW y \in Seq(S), NEW z \in Seq(S)
  PROVE  Three(x, y, z) \in Seq(S) /\ Placed(Three(x, y, z), x, y, z)
<1> DEFINE p == x \o y
           q == p \o z
<1>1. /\ p \in Seq(S) /\ Len(p) = Len(x) + Len(y)
      /\ \A i \in 1..Len(x) : p[i] = x[i]
      /\ \A i \in 1..Len(y) : p[Len(x) + i] = y[i]
  BY Joined
<1> HIDE DEF p
<1>2. /\ q \in Seq(S) /\ Len(q) = Len(p) + Len(z)
      /\ \A i \in 1..Len(p) : q[i] = p[i]
      /\ \A i \in 1..Len(z) : q[Len(p) + i] = z[i]
  <2>1. ASSUME NEW u \in Seq(S)
        PROVE  /\ u \o z \in Seq(S) /\ Len(u \o z) = Len(u) + Len(z)
               /\ \A i \in 1..Len(u) : (u \o z)[i] = u[i]
               /\ \A i \in 1..Len(z) : (u \o z)[Len(u) + i] = z[i]
    BY <2>1
  <2> QED
    BY <1>1, <2>1
<1> HIDE DEF q
<1>3. Len(x) \in Nat /\ Len(y) \in Nat /\ Len(z) \in Nat
  OBVIOUS
<1>4. /\ q \in Seq(S) /\ Len(q) = Len(x) + (Len(y) + Len(z))
      /\ \A i \in 1..Len(x) : q[i] = x[i]
      /\ \A i \in 1..Len(y) : q[Len(x) + i] = y[i]
  BY <1>1, <1>2, <1>3
<1>5. ASSUME NEW i \in 1..Len(z) PROVE q[Len(x) + (Len(y) + i)] = z[i]
  <2>1. Len(x) + (Len(y) + i) = Len(p) + i
    BY <1>1, <1>3
  <2> QED
    BY <1>2, <2>1
<1>6. Three(x, y, z) = q
  BY DEF Three, p, q
<1>7. Placed(q, x, y, z)
  BY <1>4, <1>5 DEF Placed
<1> QED
  BY <1>4, <1>6, <1>7

\* Columns or not, k batches of which the i-th ends at row at[i], and perhaps one more.
Pieces(s, head, k, at, full, rest) ==
  /\ s.rows \in Nat /\ s.fails \in BOOLEAN
  /\ head \in Seq(Items) /\ Len(head) \in {0, 1} /\ (Len(head) = 1 => head[1] = Columns)
  /\ k \in Nat /\ at \in [0..k -> Nat] /\ at[0] = 0
  /\ full \in Seq(Items) /\ Len(full) = k
  /\ \A i \in 1..k :
       /\ at[i - 1] < at[i] /\ at[i] <= s.rows
       /\ \E r \in Seq(Nat) : full[i] = Batch(r) /\ GoesOn(r, at[i - 1]) /\ Len(r) = at[i] - at[i - 1]
  /\ rest \in Seq(Items) /\ Len(rest) \in {0, 1}
  /\ Len(rest) = 0 /\ ~s.fails => at[k] = s.rows
  /\ Len(rest) = 1 =>
       /\ at[k] < s.rows
       /\ \E r \in Seq(Nat) : rest[1] = Batch(r) /\ GoesOn(r, at[k]) /\ Len(r) = s.rows - at[k]

\* They flow from the first row.
LEMMA PiecesFlow ==
  ASSUME NEW s, NEW head, NEW k, NEW at, NEW full, NEW rest, Pieces(s, head, k, at, full, rest)
  PROVE  Flows(s, Three(head, full, rest), 0)
<1> DEFINE n == s.rows
           q == Three(head, full, rest)
           c == Len(head)
           l == Len(rest)
           m == k + l
           ends == [i \in 0..m |-> IF i <= k THEN at[i] ELSE n]
<1>0. /\ n \in Nat /\ k \in Nat /\ at \in [0..k -> Nat] /\ at[0] = 0
      /\ \A i \in 1..k :
           /\ at[i - 1] < at[i] /\ at[i] <= n
           /\ \E r \in Seq(Nat) : full[i] = Batch(r) /\ GoesOn(r, at[i - 1]) /\ Len(r) = at[i] - at[i - 1]
  BY DEF Pieces
<1> HIDE DEF n
<1>1. /\ q \in Seq(Items) /\ Len(q) = c + (k + l)
      /\ \A i \in 1..c : q[i] = head[i]
      /\ \A i \in 1..k : q[c + i] = full[i]
      /\ \A i \in 1..l : q[c + (k + i)] = rest[i]
  <2>1. /\ q \in Seq(Items) /\ Len(q) = Len(head) + (Len(full) + Len(rest))
        /\ \A i \in 1..Len(head) : q[i] = head[i]
        /\ \A i \in 1..Len(full) : q[Len(head) + i] = full[i]
        /\ \A i \in 1..Len(rest) : q[Len(head) + (Len(full) + i)] = rest[i]
    <3>1. head \in Seq(Items) /\ full \in Seq(Items) /\ rest \in Seq(Items)
      BY DEF Pieces
    <3>2. q \in Seq(Items) /\ Placed(q, head, full, rest)
      BY <3>1, ThreeJoined
    <3> QED
      BY <3>2 DEF Placed
  <2>2. Len(full) = k
    BY DEF Pieces
  <2> HIDE DEF q, m
  <2> QED
    BY <2>1, <2>2
<1> HIDE DEF q, c
<1>2. c \in {0, 1} /\ (c = 1 => q[1] = Columns)
  <2>1. c \in {0, 1} /\ (c = 1 => head[1] = Columns)
    BY DEF c, Pieces
  <2> QED
    BY <1>1, <2>1
<1>3. l \in {0, 1} /\ (l = 1 => q[c + (k + 1)] = rest[1])
  <2>1. l \in {0, 1}
    BY DEF Pieces
  <2> HIDE DEF l
  <2> QED
    BY <1>1, <2>1
<1>4. /\ l = 0 /\ ~s.fails => at[k] = n
      /\ l = 1 => /\ at[k] < n
                  /\ \E r \in Seq(Nat) : rest[1] = Batch(r) /\ GoesOn(r, at[k]) /\ Len(r) = n - at[k]
  BY DEF Pieces, n
<1> HIDE DEF l
<1>5. m \in Nat /\ ((m = k /\ l = 0) \/ (m = k + 1 /\ l = 1))
  BY <1>0, <1>3
<1> HIDE DEF m
<1>6. \A i \in 0..m : (i <= k => ends[i] = at[i]) /\ (i > k => ends[i] = n)
  BY <1>0, <1>5
<1>7. ends \in [0..m -> Nat]
  BY <1>0, <1>5
<1> HIDE DEF ends
<1>8. ends[0] = 0 /\ (l = 1 => ends[k + 1] = n) /\ ends[k] = at[k]
  BY <1>0, <1>5, <1>6
<1>9. ASSUME NEW i \in 1..m
       PROVE  /\ ends[i - 1] < ends[i] /\ ends[i] <= n
              /\ \E r \in Seq(Nat) : q[c + i] = Batch(r) /\ GoesOn(r, ends[i - 1]) /\ Len(r) = ends[i] - ends[i - 1]
  <2>1. CASE i <= k
    <3>1. i \in 1..k /\ ends[i - 1] = at[i - 1] /\ ends[i] = at[i]
      BY <1>0, <1>5, <1>6, <2>1
    <3>2. q[c + i] = full[i]
      BY <1>1, <3>1
    <3> QED
      BY <1>0, <3>1, <3>2
  <2>2. CASE i = k + 1 /\ l = 1
    <3>1. PICK r \in Seq(Nat) : rest[1] = Batch(r) /\ GoesOn(r, at[k]) /\ Len(r) = n - at[k]
      BY <1>4, <2>2
    <3>2. i - 1 = k /\ at[k] < n /\ q[c + i] = rest[1]
      BY <1>0, <1>3, <1>4, <2>2
    <3>3. ends[i - 1] = at[k] /\ ends[i] = n
      BY <1>8, <2>2, <3>2
    <3>4. q[c + i] = Batch(r) /\ GoesOn(r, ends[i - 1]) /\ Len(r) = ends[i] - ends[i - 1]
      BY <3>1, <3>2, <3>3
    <3>5. ends[i - 1] < ends[i] /\ ends[i] <= n
      BY <1>0, <3>2, <3>3
    <3> QED
      BY <3>4, <3>5
  <2> QED
    BY <1>0, <1>5, <2>1, <2>2
<1>10. ~s.fails => ends[m] = n
  BY <1>4, <1>5, <1>8
<1>11. Batched(s, q, c, m, ends)
  BY <1>1, <1>5, <1>7, <1>9, <1>10 DEF Batched, m, n
<1>12. \E d \in {0, 1}, j \in Nat : \E e \in [0..j -> Nat] :
         Batched(s, q, d, j, e) /\ (d = 1 => q[1] = Columns) /\ e[0] = 0
  BY <1>2, <1>5, <1>7, <1>8, <1>11
<1>13. 0 \in 0..s.rows
  BY <1>0 DEF n
<1>14. Flows(s, q, 0)
  BY <1>1, <1>12, <1>13 DEF Flows
<1> QED
  BY <1>14 DEF q

\* What a backend streams flows from the first row, with or without the columns before.
LEMMA BatchesFlow ==
  ASSUME NEW s, s.rows \in Nat, s.fails \in BOOLEAN, NEW size \in Nat \ {0},
         NEW head \in Seq(Items), Len(head) \in {0, 1}, Len(head) = 1 => head[1] = Columns
  PROVE  Flows(s, Three(head, Full(s.rows, size), IF s.fails THEN <<>> ELSE Rest(s.rows, size)), 0)
<1> DEFINE n == s.rows
           k == n \div size
           left == n % size
           full == Full(n, size)
           rest == IF s.fails THEN <<>> ELSE Rest(n, size)
           at == [i \in 0..k |-> i * size]
<1>1. /\ n \in Nat /\ k \in Nat /\ left \in 0..(size - 1) /\ n = k * size + left
      /\ \A i \in 1..k : (i - 1) * size \in Nat /\ i * size = (i - 1) * size + size /\ i * size <= n
  BY Division
<1>2. full \in Seq(Items) /\ Len(full) = k
      /\ \A i \in 1..k : \E r \in Seq(Nat) : full[i] = Batch(r) /\ GoesOn(r, (i - 1) * size) /\ Len(r) = size
  BY FullIs
<1>3. rest = IF s.fails \/ left = 0 THEN <<>> ELSE <<Batch(Rows(k * size + 1, n))>>
  BY DEF Rest
<1> HIDE DEF k, left, full, rest, n
<1>4. /\ at \in [0..k -> Nat] /\ at[0] = 0
      /\ \A i \in 1..k : at[i - 1] = (i - 1) * size /\ at[i] = i * size
      /\ at[k] = k * size
  <2>1. \A i \in 0..k : i * size \in Nat
    BY <1>1
  <2>2. 0 * size = 0
    OBVIOUS
  <2> QED
    BY <1>1, <2>1, <2>2
<1> HIDE DEF at
<1>5. n = at[k] + left /\ at[k] \in Nat /\ left \in Nat
  BY <1>1, <1>4
<1>6. ASSUME NEW i \in 1..k
      PROVE  /\ at[i - 1] < at[i] /\ at[i] <= n
             /\ \E r \in Seq(Nat) : full[i] = Batch(r) /\ GoesOn(r, at[i - 1]) /\ Len(r) = at[i] - at[i - 1]
  <2>1. at[i - 1] \in Nat /\ at[i] \in Nat /\ at[i] = at[i - 1] + size /\ at[i] <= n
    BY <1>1, <1>4
  <2>2. at[i - 1] < at[i] /\ at[i] - at[i - 1] = size
    BY <2>1
  <2>3. \E r \in Seq(Nat) : full[i] = Batch(r) /\ GoesOn(r, at[i - 1]) /\ Len(r) = size
    BY <1>2, <1>4
  <2> QED
    BY <2>1, <2>2, <2>3
<1>7. CASE s.fails \/ left = 0
  <2>1. rest = <<>> /\ rest \in Seq(Items) /\ Len(rest) = 0
    BY <1>3, <1>7
  <2>2. ~s.fails => at[k] = n
    BY <1>5, <1>7
  <2> QED
    <3>1. Pieces(s, head, k, at, full, rest)
      BY <1>1, <1>2, <1>4, <1>6, <2>1, <2>2 DEF n, Pieces
    <3> QED
      BY <3>1, PiecesFlow DEF n, full, rest
<1>8. CASE ~s.fails /\ left # 0
  <2> DEFINE r == Rows(at[k] + 1, n)
  <2>1. at[k] < n
    BY <1>5, <1>8
  <2>2. r \in Seq(Nat) /\ Len(r) = n - at[k] /\ GoesOn(r, at[k])
    <3> DEFINE a == at[k]
    <3>1. a \in Nat /\ n \in Nat /\ a <= n
      BY <1>1, <1>5, <2>1
    <3> HIDE DEF a
    <3>2. LET t == Rows(a + 1, n) IN t \in Seq(Nat) /\ Len(t) = n - a /\ GoesOn(t, a)
      BY <3>1, RowsGoOn
    <3> QED
      BY <3>2 DEF a
  <2>3. rest = <<Batch(r)>>
    BY <1>3, <1>4, <1>8
  <2> HIDE DEF r
  <2>4. rest \in Seq(Items) /\ Len(rest) = 1 /\ rest[1] = Batch(r)
    BY <2>2, <2>3 DEF Items
  <2> QED
    <3>1. Pieces(s, head, k, at, full, rest)
      BY <1>1, <1>2, <1>4, <1>6, <2>1, <2>2, <2>4 DEF n, Pieces
    <3> QED
      BY <3>1, PiecesFlow DEF n, full, rest
<1> QED
  BY <1>7, <1>8

\* So every backend's stream flows, and begins with the columns if the statement does not fail.
LEMMA StreamedFlows ==
  ASSUME NEW s \in SourceSet
  PROVE  /\ Flows(s, Streamed(s), 0)
         /\ ~s.fails => Streamed(s) # <<>> /\ Streamed(s)[1] = Columns
<1> DEFINE n == s.rows
           size == IF s.size = 0 THEN 1 ELSE s.size
           tail == Full(n, size) \o (IF s.fails THEN <<>> ELSE Rest(n, size))
<1>1. n \in Nat /\ s.fails \in BOOLEAN /\ size \in Nat \ {0}
  <2>1. s.rows \in 0..MostRows /\ s.fails \in BOOLEAN /\ s.size \in FetchSizes
    BY DEF SourceSet
  <2>2. MostRows \in Nat /\ FetchSizes \subseteq Nat
    BY RowStreamAssumption DEF RowStreamAssumption
  <2>3. s.rows \in Nat
    BY <2>1, <2>2
  <2>4. size \in Nat \ {0}
    <3>1. s.size \in Nat
      BY <2>1, <2>2
    <3> QED
      BY <3>1
  <2> QED
    BY <2>1, <2>3, <2>4
<1>2. s.backend \in {"postgres", "mysql", "sqlite", "oracle"}
  BY RowStreamAssumption DEF SourceSet, RowStreamAssumption
<1>3. PICK head \in {<<>>, <<Columns>>} :
        /\ Streamed(s) = Three(head, Full(n, size), IF s.fails THEN <<>> ELSE Rest(n, size))
        /\ ~s.fails => head = <<Columns>>
  BY <1>2 DEF Streamed, StreamPostgres, StreamMysql, StreamSqlite, StreamOracle, Three
<1> HIDE DEF size
<1>4. head \in Seq(Items) /\ Len(head) \in {0, 1} /\ (Len(head) = 1 => head[1] = Columns)
  <2>1. Columns \in Items
    BY DEF Items
  <2>2. <<Columns>> \in Seq(Items) /\ Len(<<Columns>>) = 1 /\ <<Columns>>[1] = Columns
    BY <2>1
  <2>3. <<>> \in Seq(Items) /\ Len(<<>>) = 0
    OBVIOUS
  <2>4. CASE head = <<>>
    BY <2>3, <2>4
  <2>5. CASE head = <<Columns>>
    BY <2>2, <2>5
  <2> QED
    BY <1>3, <2>4, <2>5
<1>5. Flows(s, Streamed(s), 0)
  BY <1>1, <1>3, <1>4, BatchesFlow
<1>6. ASSUME ~s.fails PROVE Streamed(s) # <<>> /\ Streamed(s)[1] = Columns
  <2>1. head = <<Columns>> /\ Streamed(s) = Three(<<Columns>>, Full(n, size), Rest(n, size))
    BY <1>3, <1>6
  <2>2. Rest(n, size) \in Seq(Items) /\ Full(n, size) \in Seq(Items)
    <3>1. Full(n, size) \in Seq(Items)
      BY <1>1, FullIs
    <3>2. Rest(n, size) \in Seq(Items)
      <4> DEFINE a == (n \div size) * size
      <4>1. a \in Nat /\ a <= n
        <5>1. n \div size \in Nat /\ n % size \in 0..(size - 1) /\ n = (n \div size) * size + (n % size)
          BY <1>1, Division
        <5> DEFINE left == n % size
        <5>2. left \in Nat
          BY <1>1, <5>1
        <5>3. a \in Nat
          <6> DEFINE k == n \div size
          <6>1. k \in Nat /\ size \in Nat
            BY <1>1, <5>1
          <6> HIDE DEF k
          <6>2. k * size \in Nat
            BY <6>1
          <6> QED
            BY <6>2 DEF k
        <5>4. n = a + left
          BY <5>1
        <5> HIDE DEF a, left, n
        <5> QED
          BY <5>2, <5>3, <5>4
      <4>2. Rest(n, size) = IF n % size = 0 THEN <<>> ELSE <<Batch(Rows(a + 1, n))>>
        BY DEF Rest
      <4> HIDE DEF a, n
      <4>3. Batch(Rows(a + 1, n)) \in Items
        <5>1. Rows(a + 1, n) \in Seq(Nat)
          BY <1>1, <4>1, RowsGoOn
        <5> QED
          BY <5>1 DEF Items
      <4> QED
        BY <4>2, <4>3
    <3> QED
      BY <3>1, <3>2
  <2>3. <<Columns>> \in Seq(Items) /\ Len(<<Columns>>) = 1 /\ <<Columns>>[1] = Columns
    BY DEF Items
  <2> DEFINE x == <<Columns>>
             y == Full(n, size)
             z == Rest(n, size)
  <2> HIDE DEF x, y, z
  <2>4. Three(x, y, z) \in Seq(Items) /\ Len(Three(x, y, z)) = 1 + (Len(y) + Len(z)) /\ Three(x, y, z)[1] = Columns
        /\ Len(y) \in Nat /\ Len(z) \in Nat
    <3>1. x \in Seq(Items) /\ y \in Seq(Items) /\ z \in Seq(Items) /\ Len(x) = 1 /\ x[1] = Columns
      BY <2>2, <2>3 DEF x, y, z
    <3>2. Len(y) \in Nat /\ Len(z) \in Nat /\ 1 \in 1..Len(x)
      BY <3>1
    <3>3. Three(x, y, z) \in Seq(Items) /\ Placed(Three(x, y, z), x, y, z)
      BY <3>1, ThreeJoined
    <3> QED
      BY <3>1, <3>2, <3>3 DEF Placed
  <2> QED
    BY <2>1, <2>4 DEF x, y, z
<1> QED
  BY <1>5, <1>6

\* What is on its way: in the channel, then still to be sent.
Way(c, q) == c \o q

\* The first answer is the statement read at once.
FirstFits(s, a) ==
  ~s.fails => IF a.more THEN s.limit > 0 /\ Len(a.rows) = s.limit /\ s.rows > s.limit
              ELSE Len(a.rows) = s.rows /\ (s.limit = 0 \/ s.rows <= s.limit)

\* Each answer goes on after the one before, and is full unless it is the last.
AnswerFits(s, given, i) ==
  /\ GoesOn(given[i].rows, Before(given, i)) /\ Before(given, i) \in Nat
  /\ given[i].more => s.limit > 0 /\ Len(given[i].rows) = s.limit
  /\ i < Len(given) => given[i].more
  /\ i > 1 => given[i - 1].more /\ given[i].rows # <<>>
AnswersFit(s, given) ==
  /\ given \in Seq(AnswerSet)
  /\ \A i \in 1..Len(given) : AnswerFits(s, given, i)
  /\ given # <<>> => FirstFits(s, given[1])
Unfinished(given) == given # <<>> => given[Len(given)].more

\* A read goes on after the last answer: so do what it has and what it carries, and
\* what is on its way flows on behind them.
Reading(s, given, c, w) ==
  /\ Unfinished(given)
  /\ LET b == Before(given, Len(given) + 1)
     IN  /\ b \in Nat /\ GoesOn(c.rows, b) /\ GoesOn(c.carry, b)
         /\ Flows(s, w, b + Len(c.rows) + Len(c.carry))
  /\ ~s.fails => c.columns \/ (w # <<>> /\ w[1] = Columns)

\* The inductive invariant.
StreamFits(s, given, c, w) ==
  /\ s \in SourceSet /\ c \in CursorSet /\ AnswersFit(s, given)
  /\ c.phase \in {"reads", "looks", "kept"} => Reading(s, given, c, w)
  /\ c.phase = "reads" => c.carry = <<>> /\ (given # <<>> => c.rows # <<>>)
  /\ c.phase = "looks" => c.carry = <<>> /\ s.limit > 0 /\ Len(c.rows) = s.limit
  /\ c.phase = "kept" => c.rows = <<>> /\ c.carry # <<>> /\ given # <<>>
  /\ c.phase = "ended" =>
       /\ given # <<>> /\ ~given[Len(given)].more /\ (c.columns \/ s.fails)
       /\ ~given[Len(given)].error =>
            Before(given, Len(given)) + Len(given[Len(given)].rows) = s.rows
  /\ c.phase = "closed" => given # <<>> /\ given[Len(given)].more
StreamInv ==
  /\ stream \in Seq(Items) /\ (channel = <<>> \/ \E x \in Items : channel = <<x>>)
  /\ StreamFits(source, answers, cursor, Way(channel, stream))

\* The channel and the stream behind it are one way.
LEMMA Ways ==
  ASSUME NEW q \in Seq(Items)
  PROVE  /\ Way(<<>>, q) = q
         /\ q # <<>> => /\ Way(<<Head(q)>>, Tail(q)) = q /\ Head(q) \in Items /\ Tail(q) \in Seq(Items)
         /\ \A x \in Items : /\ Way(<<x>>, q) \in Seq(Items) /\ Way(<<x>>, q)[1] = x
                             /\ Tail(Way(<<x>>, q)) = q /\ Way(<<x>>, q) # <<>>
<1>1. Way(<<>>, q) = q
  BY DEF Way
<1>2. ASSUME q # <<>>
      PROVE  Way(<<Head(q)>>, Tail(q)) = q /\ Head(q) \in Items /\ Tail(q) \in Seq(Items)
  BY <1>2 DEF Way
<1>3. ASSUME NEW x \in Items
      PROVE  /\ Way(<<x>>, q) \in Seq(Items) /\ Way(<<x>>, q)[1] = x
             /\ Tail(Way(<<x>>, q)) = q /\ Way(<<x>>, q) # <<>>
  BY DEF Way
<1> QED
  BY <1>1, <1>2, <1>3

\* A further answer.
LEMMA Appended ==
  ASSUME NEW S, NEW q \in Seq(S), NEW x \in S
  PROVE  /\ Append(q, x) \in Seq(S) /\ Len(Append(q, x)) = Len(q) + 1 /\ Append(q, x) # <<>>
         /\ \A i \in 1..Len(q) : Append(q, x)[i] = q[i]
         /\ Append(q, x)[Len(q) + 1] = x
OBVIOUS

\* A further answer that goes on after those given, and the answers with it.
Adds(s, given, a) ==
  /\ AnswersFit(s, given) /\ Unfinished(given) /\ a \in AnswerSet
  /\ Before(given, Len(given) + 1) \in Nat /\ GoesOn(a.rows, Before(given, Len(given) + 1))
  /\ a.more => s.limit > 0 /\ Len(a.rows) = s.limit
  /\ given # <<>> => a.rows # <<>>
  /\ given = <<>> => FirstFits(s, a)
Added(s, given, a, more) ==
  LET b == Before(given, Len(given) + 1)
  IN  /\ AnswersFit(s, more) /\ more # <<>> /\ Len(more) \in Nat /\ Len(more) = Len(given) + 1
      /\ more[Len(more)] = a /\ Before(more, Len(more)) = b
      /\ a.rows # <<>> => Before(more, Len(more) + 1) = b + Len(a.rows)

\* What a further answer changes, and that it fits.
LEMMA AnswerAdded ==
  ASSUME NEW s, NEW given, NEW a, Adds(s, given, a)
  PROVE  Added(s, given, a, Append(given, a))
<1> USE DEF Adds, Added
<1> DEFINE more == Append(given, a)
           b == Before(given, Len(given) + 1)
           l == Len(given)
<1>1. given \in Seq(AnswerSet) /\ l \in Nat
  BY DEF AnswersFit
<1>2. /\ more \in Seq(AnswerSet) /\ Len(more) = l + 1 /\ more # <<>>
      /\ \A i \in 1..l : more[i] = given[i]
      /\ more[l + 1] = a
  BY <1>1, Appended
<1>3. given = <<>> <=> l = 0
  BY <1>1
<1> HIDE DEF more, l
<1>4. \A i \in 1..(l + 1) : Before(more, i) = Before(given, i)
  <2>1. ASSUME NEW i \in 1..(l + 1), i # 1 PROVE i - 1 \in 1..l
    BY <1>1, <2>1
  <2> QED
    BY <1>2, <2>1 DEF Before
<1>5. ASSUME NEW i \in 1..l PROVE AnswerFits(s, more, i)
  <2>1. AnswerFits(s, given, i)
    BY DEF AnswersFit, l
  <2>2. more[i] = given[i] /\ Before(more, i) = Before(given, i) /\ (i > 1 => more[i - 1] = given[i - 1])
    BY <1>1, <1>2, <1>4
  <2>3. more[i].more
    <3>1. CASE i < l
      BY <2>1, <2>2, <3>1 DEF AnswerFits, l
    <3>2. CASE i = l
      BY <1>3, <2>2, <3>2 DEF Unfinished, l
    <3> QED
      BY <1>1, <3>1, <3>2
  <2> QED
    BY <2>1, <2>2, <2>3 DEF AnswerFits
<1>6. AnswerFits(s, more, l + 1)
  <2>1. Before(more, l + 1) = b /\ more[l + 1] = a
    BY <1>1, <1>2, <1>4 DEF l
  <2>2. ASSUME l + 1 > 1 PROVE more[l].more /\ a.rows # <<>>
    <3>1. l \in 1..l /\ given # <<>>
      BY <1>1, <1>3, <2>2
    <3> QED
      BY <1>2, <3>1 DEF Unfinished, l
  <2>3. (l + 1) - 1 = l /\ ~(l + 1 < Len(more))
    BY <1>1, <1>2
  <2> QED
    BY <2>1, <2>2, <2>3 DEF AnswerFits, l
<1>7. FirstFits(s, more[1])
  <2>1. CASE given = <<>>
    BY <1>2, <1>3, <2>1
  <2>2. CASE given # <<>>
    BY <1>1, <1>2, <1>3, <2>2 DEF AnswersFit
  <2> QED
    BY <2>1, <2>2
<1>8. AnswersFit(s, more)
  <2>1. \A i \in 1..(l + 1) : AnswerFits(s, more, i)
    BY <1>1, <1>5, <1>6
  <2> QED
    BY <1>2, <1>7, <2>1 DEF AnswersFit
<1>9. Len(more) = l + 1 /\ Len(more) \in Nat /\ more[Len(more)] = a /\ Before(more, Len(more)) = b
  BY <1>1, <1>2, <1>4 DEF l
<1>10. ASSUME a.rows # <<>> PROVE Before(more, Len(more) + 1) = b + Len(a.rows)
  <2>1. Before(more, Len(more) + 1) = Last(a.rows)
    <3>1. Len(more) + 1 # 1 /\ (Len(more) + 1) - 1 = Len(more)
      BY <1>1, <1>9
    <3> QED
      BY <1>9, <3>1 DEF Before
  <2>2. Last(a.rows) = b + Len(a.rows)
    <3>1. a.rows \in Seq(Nat) /\ Len(a.rows) \in 1..Len(a.rows)
      BY <1>10 DEF AnswerSet
    <3> QED
      BY <3>1 DEF GoesOn, Last
  <2> QED
    BY <2>1, <2>2
<1> QED
  BY <1>2, <1>8, <1>9, <1>10 DEF more, l

\* What a read that is not finished says of what comes next.
LEMMA ReadOn ==
  ASSUME NEW s, NEW given, NEW c \in CursorSet, NEW w, Reading(s, given, c, w), w # <<>>, c.carry = <<>>
  PROVE  LET b == Before(given, Len(given) + 1)
         IN  \/ /\ w[1] = Columns
                /\ Reading(s, given, [c EXCEPT !.columns = TRUE], Tail(w))
             \/ \E r \in Seq(Nat) :
                  /\ w[1] = Batch(r) /\ r # <<>> /\ GoesOn(r, b + Len(c.rows))
                  /\ Flows(s, Tail(w), b + Len(c.rows) + Len(r))
                  /\ ~s.fails => c.columns
<1> DEFINE b == Before(given, Len(given) + 1)
<1>1. /\ b \in Nat /\ GoesOn(c.rows, b) /\ GoesOn(c.carry, b) /\ Flows(s, w, b + Len(c.rows) + Len(c.carry))
      /\ Unfinished(given) /\ (~s.fails => c.columns \/ w[1] = Columns)
  BY DEF Reading
<1>2. c.rows \in Seq(Nat) /\ Len(c.rows) \in Nat /\ Len(c.carry) = 0
  BY DEF CursorSet
<1>3. b + Len(c.rows) + Len(c.carry) = b + Len(c.rows)
  BY <1>1, <1>2
<1>4. \/ w[1] = Columns /\ Flows(s, Tail(w), b + Len(c.rows))
      \/ \E r \in Seq(Nat) : /\ w[1] = Batch(r) /\ GoesOn(r, b + Len(c.rows)) /\ r # <<>>
                             /\ Flows(s, Tail(w), b + Len(c.rows) + Len(r))
  BY <1>1, <1>3, FlowNext
<1>5. CASE w[1] = Columns /\ Flows(s, Tail(w), b + Len(c.rows))
  <2> DEFINE d == [c EXCEPT !.columns = TRUE]
  <2>1. d.rows = c.rows /\ d.carry = c.carry /\ d.columns = TRUE
    BY DEF CursorSet
  <2> HIDE DEF d
  <2>2. Reading(s, given, d, Tail(w))
    BY <1>1, <1>3, <1>5, <2>1 DEF Reading
  <2> QED
    BY <1>5, <2>2 DEF d
<1>6. CASE \E r \in Seq(Nat) : /\ w[1] = Batch(r) /\ GoesOn(r, b + Len(c.rows)) /\ r # <<>>
                               /\ Flows(s, Tail(w), b + Len(c.rows) + Len(r))
  <2>1. PICK r \in Seq(Nat) : /\ w[1] = Batch(r) /\ GoesOn(r, b + Len(c.rows)) /\ r # <<>>
                              /\ Flows(s, Tail(w), b + Len(c.rows) + Len(r))
    BY <1>6
  <2>2. w[1] # Columns
    <3>1. w[1] = <<"rows", r>>
      BY <2>1 DEF Batch
    <3>2. w[1][1] = "rows"
      BY <3>1
    <3> QED
      BY <3>2 DEF Columns
  <2> QED
    BY <1>1, <2>1, <2>2
<1> QED
  BY <1>4, <1>5, <1>6

\* What a read that finds the end says of it.
LEMMA ReadEnds ==
  ASSUME NEW s, NEW given, NEW c \in CursorSet, Reading(s, given, c, <<>>), c.carry = <<>>, ~s.fails
  PROVE  Before(given, Len(given) + 1) + Len(c.rows) = s.rows /\ c.columns
<1> DEFINE b == Before(given, Len(given) + 1)
<1>1. b \in Nat /\ Flows(s, <<>>, b + Len(c.rows) + Len(c.carry)) /\ c.columns
  BY DEF Reading
<1>2. Len(c.rows) \in Nat /\ Len(c.carry) = 0
  BY DEF CursorSet
<1>3. b + Len(c.rows) + Len(c.carry) = s.rows
  BY <1>1, FlowEnded
<1> QED
  BY <1>1, <1>2, <1>3

\* An item came: the read has it.
LEMMA ReceivedFits ==
  ASSUME NEW s, NEW given, NEW c, NEW w, StreamFits(s, given, c, w), c.phase = "reads", w # <<>>
  PROVE  StreamFits(s, given,
                    IF w[1] = Columns THEN [c EXCEPT !.columns = TRUE] ELSE [c EXCEPT !.rows = @ \o w[1][2]],
                    Tail(w))
<1>1. /\ s \in SourceSet /\ c \in CursorSet /\ AnswersFit(s, given) /\ Reading(s, given, c, w)
      /\ c.carry = <<>> /\ (given # <<>> => c.rows # <<>>)
  BY DEF StreamFits
<1> DEFINE b == Before(given, Len(given) + 1)
<1>2. \/ w[1] = Columns /\ Reading(s, given, [c EXCEPT !.columns = TRUE], Tail(w))
      \/ \E r \in Seq(Nat) : /\ w[1] = Batch(r) /\ r # <<>> /\ GoesOn(r, b + Len(c.rows))
                             /\ Flows(s, Tail(w), b + Len(c.rows) + Len(r)) /\ (~s.fails => c.columns)
  BY <1>1, ReadOn
<1>3. CASE w[1] = Columns /\ Reading(s, given, [c EXCEPT !.columns = TRUE], Tail(w))
  <2> DEFINE d == [c EXCEPT !.columns = TRUE]
  <2>1. d \in CursorSet /\ d.phase = "reads" /\ d.carry = <<>> /\ d.rows = c.rows
    BY <1>1 DEF CursorSet
  <2>2. Reading(s, given, d, Tail(w))
    BY <1>3
  <2> HIDE DEF d
  <2>3. StreamFits(s, given, d, Tail(w))
    BY <1>1, <2>1, <2>2 DEF StreamFits
  <2> QED
    BY <1>3, <2>3 DEF d
<1>4. ASSUME NEW r \in Seq(Nat), w[1] = Batch(r), r # <<>>, GoesOn(r, b + Len(c.rows)),
             Flows(s, Tail(w), b + Len(c.rows) + Len(r)), ~s.fails => c.columns
      PROVE  StreamFits(s, given, [c EXCEPT !.rows = @ \o w[1][2]], Tail(w)) /\ w[1] # Columns
  <2> DEFINE rows == c.rows \o r
             d == [c EXCEPT !.rows = rows]
  <2>1. w[1] = <<"rows", r>>
    BY <1>4 DEF Batch
  <2>2. w[1][1] = "rows" /\ w[1][2] = r
    BY <2>1
  <2>3. w[1] # Columns
    BY <2>2 DEF Columns
  <2>4. [c EXCEPT !.rows = @ \o w[1][2]] = d
    BY <1>1, <2>2 DEF CursorSet
  <2>5. c.rows \in Seq(Nat) /\ b \in Nat /\ GoesOn(c.rows, b) /\ Unfinished(given) /\ GoesOn(<<>>, b)
    BY <1>1 DEF CursorSet, Reading
  <2>6. rows \in Seq(Nat) /\ rows # <<>> /\ Len(rows) = Len(c.rows) + Len(r) /\ GoesOn(rows, b)
    <3>1. GoesOn(c.rows \o r, b) /\ Len(c.rows \o r) = Len(c.rows) + Len(r)
      BY <1>4, <2>5, JoinedGoOn
    <3>2. rows \in Seq(Nat) /\ rows # <<>>
      BY <1>4, <2>5
    <3> QED
      BY <3>1, <3>2
  <2>7. Len(c.rows) \in Nat /\ Len(r) \in Nat
    BY <1>4, <2>5
  <2> HIDE DEF rows, b
  <2>8. d \in CursorSet /\ d.phase = "reads" /\ d.carry = <<>> /\ d.rows = rows /\ d.columns = c.columns
    BY <1>1, <2>6 DEF CursorSet
  <2> HIDE DEF d
  <2>9. b + Len(d.rows) + Len(d.carry) = b + Len(c.rows) + Len(r)
    <3>1. Len(d.carry) = 0 /\ Len(d.rows) = Len(c.rows) + Len(r)
      BY <2>6, <2>8
    <3> QED
      BY <2>5, <2>7, <3>1
  <2>10. Reading(s, given, d, Tail(w))
    BY <1>4, <2>5, <2>6, <2>8, <2>9 DEF Reading, b
  <2>11. StreamFits(s, given, d, Tail(w))
    BY <1>1, <2>6, <2>8, <2>10 DEF StreamFits
  <2> QED
    BY <2>3, <2>4, <2>11
<1> QED
  BY <1>2, <1>3, <1>4

\* How far the rows read reach.
LEMMA ReadSoFar ==
  ASSUME NEW s \in SourceSet, NEW given, NEW c \in CursorSet, NEW w, Reading(s, given, c, w)
  PROVE  LET b == Before(given, Len(given) + 1)
         IN  /\ b \in Nat /\ GoesOn(c.rows, b) /\ GoesOn(c.carry, b)
             /\ Flows(s, w, b + Len(c.rows) + Len(c.carry))
             /\ b + Len(c.rows) + Len(c.carry) <= s.rows
             /\ s.rows \in Nat /\ s.limit \in Nat /\ s.fails \in BOOLEAN
             /\ given = <<>> => b = 0
<1>1. s.rows \in Nat /\ s.limit \in Nat /\ s.fails \in BOOLEAN
  <2>1. s.rows \in 0..MostRows /\ s.limit \in Limits /\ s.fails \in BOOLEAN
    BY DEF SourceSet
  <2>2. MostRows \in Nat /\ Limits \subseteq Nat
    BY RowStreamAssumption DEF RowStreamAssumption
  <2>3. s.limit \in Nat
    BY <2>1, <2>2
  <2> DEFINE n == s.rows
  <2>4. n \in Nat
    <3>1. n \in 0..MostRows
      BY <2>1
    <3> HIDE DEF n
    <3> QED
      BY <2>2, <3>1
  <2> QED
    BY <2>1, <2>3, <2>4
<1>2. given = <<>> => Before(given, Len(given) + 1) = 0
  BY DEF Before
<1>3. LET b == Before(given, Len(given) + 1)
      IN  b + Len(c.rows) + Len(c.carry) \in 0..s.rows
  BY DEF Reading, Flows
<1> QED
  BY <1>1, <1>2, <1>3 DEF Reading

\* An answer was given: the invariant of what is left to read.
LEMMA AnsweredFits ==
  ASSUME NEW s, NEW given, NEW c, NEW w, StreamFits(s, given, c, w), Reading(s, given, c, w),
         NEW rows \in Seq(Nat), NEW carry \in Seq(Nat), NEW more \in BOOLEAN, NEW error \in BOOLEAN, NEW next,
         GoesOn(rows, Before(given, Len(given) + 1)),
         given # <<>> => rows # <<>>,
         given = <<>> => FirstFits(s, [rows |-> rows, more |-> more, error |-> error]),
         more => /\ s.limit > 0 /\ Len(rows) = s.limit /\ carry # <<>>
                 /\ GoesOn(carry, Before(given, Len(given) + 1) + Len(rows))
                 /\ Flows(s, next, Before(given, Len(given) + 1) + Len(rows) + Len(carry))
                 /\ ~s.fails => c.columns \/ (next # <<>> /\ next[1] = Columns),
         ~more => /\ c.columns \/ s.fails
                  /\ ~error => Before(given, Len(given) + 1) + Len(rows) = s.rows
  PROVE  StreamFits(s, Append(given, [rows |-> rows, more |-> more, error |-> error]),
                    [c EXCEPT !.phase = IF more THEN "kept" ELSE "ended", !.carry = carry, !.rows = <<>>], next)
<1> DEFINE a == [rows |-> rows, more |-> more, error |-> error]
           b == Before(given, Len(given) + 1)
           phase == IF more THEN "kept" ELSE "ended"
           d == [c EXCEPT !.phase = phase, !.carry = carry, !.rows = <<>>]
           q == Append(given, a)
<1>1. s \in SourceSet /\ c \in CursorSet /\ AnswersFit(s, given) /\ Unfinished(given)
  BY DEF StreamFits, Reading
<1>2. b \in Nat /\ s.limit \in Nat
  BY <1>1, ReadSoFar
<1>3. a \in AnswerSet /\ a.rows = rows /\ a.more = more /\ a.error = error
  BY DEF AnswerSet
<1> HIDE DEF a
<1>4. /\ AnswersFit(s, q) /\ q # <<>> /\ Len(q) \in Nat /\ q[Len(q)] = a /\ Before(q, Len(q)) = b
      /\ a.rows # <<>> => Before(q, Len(q) + 1) = b + Len(a.rows)
  <2>1. /\ AnswersFit(s, given) /\ Unfinished(given) /\ a \in AnswerSet
        /\ Before(given, Len(given) + 1) \in Nat /\ GoesOn(a.rows, Before(given, Len(given) + 1))
        /\ a.more => s.limit > 0 /\ Len(a.rows) = s.limit
        /\ given # <<>> => a.rows # <<>>
        /\ given = <<>> => FirstFits(s, a)
    BY <1>1, <1>2, <1>3 DEF a
  <2>2. Adds(s, given, a)
    BY <2>1 DEF Adds
  <2>3. Added(s, given, a, q)
    BY <2>2, AnswerAdded
  <2> HIDE DEF q
  <2> QED
    BY <2>3 DEF Added
<1> HIDE DEF q
<1>5. /\ d \in CursorSet /\ d.phase = phase /\ d.carry = carry /\ d.rows = <<>> /\ d.columns = c.columns
      /\ phase \in {"kept", "ended"}
  <2>1. phase \in {"reads", "looks", "kept", "ended", "closed"} /\ <<>> \in Seq(Nat) /\ phase \in {"kept", "ended"}
    OBVIOUS
  <2> HIDE DEF phase
  <2> QED
    BY <1>1, <2>1 DEF CursorSet
<1> HIDE DEF d, b
<1>6. CASE more
  <2>1. d.phase = "kept"
    BY <1>5, <1>6
  <2>2. rows # <<>> /\ Len(rows) \in Nat /\ Len(carry) \in Nat
    BY <1>2, <1>6
  <2>3. Before(q, Len(q) + 1) = b + Len(rows)
    BY <1>3, <1>4, <2>2
  <2>4. GoesOn(carry, b + Len(rows)) /\ Flows(s, next, b + Len(rows) + Len(carry))
        /\ (~s.fails => c.columns \/ (next # <<>> /\ next[1] = Columns)) /\ carry # <<>>
    BY <1>6 DEF b
  <2> DEFINE e == b + Len(rows)
  <2>5. e \in Nat /\ e + Len(<<>>) + Len(carry) = e + Len(carry) /\ GoesOn(<<>>, e)
    BY <1>2, <2>2 DEF GoesOn
  <2>6. Unfinished(q)
    BY <1>3, <1>4, <1>6 DEF Unfinished
  <2> HIDE DEF e
  <2>7. Reading(s, q, d, next)
    <3>1. Before(q, Len(q) + 1) = e /\ GoesOn(carry, e) /\ Flows(s, next, e + Len(carry))
      BY <2>3, <2>4 DEF e
    <3>2. Flows(s, next, e + Len(d.rows) + Len(d.carry)) /\ GoesOn(d.rows, e) /\ GoesOn(d.carry, e)
      BY <1>5, <2>5, <3>1
    <3> QED
      BY <1>5, <2>4, <2>5, <2>6, <3>1, <3>2 DEF Reading
  <2> QED
    <3>1. StreamFits(s, q, d, next)
      BY <1>1, <1>4, <1>5, <2>1, <2>4, <2>7 DEF StreamFits
    <3> QED
      BY <3>1 DEF q, a, d
<1>7. CASE ~more
  <2>1. d.phase = "ended"
    BY <1>5, <1>7
  <2>2. ~q[Len(q)].more /\ (d.columns \/ s.fails)
    BY <1>3, <1>4, <1>5, <1>7
  <2>3. ~q[Len(q)].error => Before(q, Len(q)) + Len(q[Len(q)].rows) = s.rows
    BY <1>3, <1>4, <1>7 DEF b
  <2>4. StreamFits(s, q, d, next)
    BY <1>1, <1>4, <1>5, <2>1, <2>2, <2>3 DEF StreamFits
  <2> QED
    BY <2>4 DEF q, a, d
<1> QED
  BY <1>6, <1>7

\* The rows so far are the last: the answer says so.
LEMMA EndFits ==
  ASSUME NEW s, NEW given, NEW c, StreamFits(s, given, c, <<>>),
         c.phase = "looks" \/ (c.phase = "reads" /\ ~(s.limit > 0 /\ Len(c.rows) >= s.limit))
  PROVE  StreamFits(s, Append(given, [rows |-> c.rows, more |-> FALSE, error |-> s.fails]),
                    [c EXCEPT !.phase = "ended", !.carry = <<>>, !.rows = <<>>], <<>>)
<1> DEFINE b == Before(given, Len(given) + 1)
<1>1. s \in SourceSet /\ c \in CursorSet /\ AnswersFit(s, given) /\ Reading(s, given, c, <<>>) /\ c.carry = <<>>
  BY DEF StreamFits
<1>2. b \in Nat /\ GoesOn(c.rows, b) /\ s.limit \in Nat /\ s.rows \in Nat /\ s.fails \in BOOLEAN /\ (given = <<>> => b = 0)
  BY <1>1, ReadSoFar
<1>3. c.rows \in Seq(Nat) /\ <<>> \in Seq(Nat) /\ Len(c.rows) \in Nat
  BY <1>1 DEF CursorSet
<1>4. ~s.fails => b + Len(c.rows) = s.rows /\ c.columns
  BY <1>1, ReadEnds
<1>5. Len(c.rows) = s.limit \/ s.limit = 0 \/ Len(c.rows) < s.limit
  BY <1>2, <1>3 DEF StreamFits
<1>6. given # <<>> => c.rows # <<>>
  <2>1. CASE c.phase = "looks"
    <3>1. Len(c.rows) > 0
      BY <1>2, <2>1 DEF StreamFits
    <3> QED
      BY <3>1
  <2>2. CASE c.phase = "reads"
    BY <2>2 DEF StreamFits
  <2> QED
    BY <2>1, <2>2
<1> DEFINE a == [rows |-> c.rows, more |-> FALSE, error |-> s.fails]
<1>7. given = <<>> => FirstFits(s, a)
  <2>1. a.rows = c.rows /\ a.more = FALSE
    OBVIOUS
  <2> HIDE DEF a, b
  <2> QED
    BY <1>2, <1>3, <1>4, <1>5, <2>1 DEF FirstFits
<1>8. c.columns \/ s.fails
  BY <1>2, <1>4
<1> QED
  <2> DEFINE more == FALSE
             error == s.fails
             empty == <<>>
  <2>1. more \in BOOLEAN /\ error \in BOOLEAN /\ empty \in Seq(Nat) /\ ~more
    BY <1>2
  <2>2. ~error => b + Len(c.rows) = s.rows
    BY <1>4
  <2>3. given = <<>> => FirstFits(s, [rows |-> c.rows, more |-> more, error |-> error])
    BY <1>7
  <2> HIDE DEF more, error, empty
  <2>4. StreamFits(s, Append(given, [rows |-> c.rows, more |-> more, error |-> error]),
                   [c EXCEPT !.phase = IF more THEN "kept" ELSE "ended", !.carry = empty, !.rows = <<>>], <<>>)
    BY <1>1, <1>2, <1>3, <1>6, <1>8, <2>1, <2>2, <2>3, AnsweredFits
  <2> QED
    BY <2>4 DEF more, error, empty

\* Enough rows: those past the limit say that there is more, or it looks further.
LEMMA LimitFits ==
  ASSUME NEW s, NEW given, NEW c, NEW w, StreamFits(s, given, c, w), c.phase = "reads",
         s.limit > 0, Len(c.rows) >= s.limit
  PROVE  LET rows == SubSeq(c.rows, 1, s.limit)
             past == PastLimit(c.rows, s.limit)
         IN  IF past # <<>>
             THEN StreamFits(s, Append(given, [rows |-> rows, more |-> TRUE, error |-> FALSE]),
                             [c EXCEPT !.phase = "kept", !.carry = past, !.rows = <<>>], w)
             ELSE StreamFits(s, given, [c EXCEPT !.phase = "looks", !.rows = rows], w)
<1> DEFINE rows == SubSeq(c.rows, 1, s.limit)
           past == SubSeq(c.rows, s.limit + 1, Len(c.rows))
           b == Before(given, Len(given) + 1)
           l == s.limit
           p == Len(c.rows)
<1>1. s \in SourceSet /\ c \in CursorSet /\ AnswersFit(s, given) /\ Reading(s, given, c, w) /\ c.carry = <<>>
  BY DEF StreamFits
<1>2. /\ b \in Nat /\ GoesOn(c.rows, b) /\ l \in Nat /\ s.rows \in Nat /\ (given = <<>> => b = 0)
      /\ Flows(s, w, b + p + Len(c.carry)) /\ b + p + Len(c.carry) <= s.rows
  BY <1>1, ReadSoFar
<1>3. c.rows \in Seq(Nat) /\ p \in Nat /\ Len(c.carry) = 0 /\ l \in 1..p
  BY <1>1, <1>2 DEF CursorSet
<1>4. /\ GoesOn(rows, b) /\ Len(rows) = l /\ rows \in Seq(Nat)
      /\ GoesOn(past, b + l) /\ Len(past) = p - l /\ past \in Seq(Nat)
  <2> DEFINE r == c.rows
  <2>1. GoesOn(r, b) /\ l \in 1..Len(r) /\ b \in Nat
    BY <1>2, <1>3
  <2> HIDE DEF l, b, r
  <2>2. /\ GoesOn(SubSeq(r, 1, l), b) /\ Len(SubSeq(r, 1, l)) = l
        /\ GoesOn(SubSeq(r, l + 1, Len(r)), b + l) /\ Len(SubSeq(r, l + 1, Len(r))) = Len(r) - l
    BY <2>1, CutGoesOn
  <2> QED
    BY <2>2 DEF GoesOn, r, l
<1>5. PastLimit(c.rows, s.limit) = past
  BY DEF PastLimit
<1>6. rows # <<>>
  BY <1>3, <1>4
<1> HIDE DEF rows, past
<1>7. ASSUME past # <<>>
      PROVE  StreamFits(s, Append(given, [rows |-> rows, more |-> TRUE, error |-> FALSE]),
                        [c EXCEPT !.phase = "kept", !.carry = past, !.rows = <<>>], w)
  <2> DEFINE more == TRUE
             error == FALSE
             a == [rows |-> rows, more |-> more, error |-> error]
  <2>1. p > l
    BY <1>3, <1>4, <1>7
  <2>2. given = <<>> => FirstFits(s, a)
    <3>1. a.rows = rows /\ a.more = TRUE
      OBVIOUS
    <3> HIDE DEF a
    <3>2. given = <<>> => s.rows > l
      BY <1>2, <1>3, <2>1
    <3> QED
      BY <1>4, <3>1, <3>2 DEF FirstFits
  <2>3. Flows(s, w, b + Len(rows) + Len(past)) /\ GoesOn(past, b + Len(rows))
    <3>1. b + Len(rows) + Len(past) = b + p + Len(c.carry)
      BY <1>2, <1>3, <1>4
    <3> QED
      BY <1>2, <1>4, <3>1
  <2>4. ~s.fails => c.columns \/ (w # <<>> /\ w[1] = Columns)
    BY <1>1 DEF Reading
  <2>5. more \in BOOLEAN /\ error \in BOOLEAN /\ more
    OBVIOUS
  <2> HIDE DEF more, error
  <2>6. StreamFits(s, Append(given, [rows |-> rows, more |-> more, error |-> error]),
                   [c EXCEPT !.phase = IF more THEN "kept" ELSE "ended", !.carry = past, !.rows = <<>>], w)
    <3> HIDE DEF b, l, p
    <3>1. s.limit > 0 /\ Len(rows) = s.limit
      BY <1>4 DEF l
    <3> QED
      BY <1>1, <1>4, <1>6, <1>7, <2>2, <2>3, <2>4, <2>5, <3>1, AnsweredFits DEF b
  <2> QED
    BY <2>6 DEF more, error
<1>8. ASSUME past = <<>>
      PROVE  StreamFits(s, given, [c EXCEPT !.phase = "looks", !.rows = rows], w)
  <2> DEFINE d == [c EXCEPT !.phase = "looks", !.rows = rows]
  <2>1. d \in CursorSet /\ d.phase = "looks" /\ d.rows = rows /\ d.carry = c.carry /\ d.columns = c.columns
    BY <1>1, <1>4 DEF CursorSet
  <2> HIDE DEF d
  <2>2. b + Len(d.rows) + Len(d.carry) = b + p + Len(c.carry)
    BY <1>2, <1>3, <1>4, <1>8, <2>1
  <2>3. Reading(s, given, d, w)
    <3> HIDE DEF p, l
    <3>1. Flows(s, w, b + Len(d.rows) + Len(d.carry)) /\ GoesOn(d.rows, b) /\ GoesOn(d.carry, b)
      BY <1>1, <1>2, <1>4, <2>1, <2>2 DEF Reading
    <3> QED
      BY <1>1, <2>1, <3>1 DEF Reading
  <2>4. StreamFits(s, given, d, w)
    BY <1>1, <1>4, <2>1, <2>3 DEF StreamFits
  <2> QED
    BY <2>4 DEF d
<1> QED
  BY <1>5, <1>7, <1>8 DEF rows

\* The look further found the columns, or rows that are kept for the next read.
LEMMA LooksFits ==
  ASSUME NEW s, NEW given, NEW c, NEW w, StreamFits(s, given, c, w), c.phase = "looks", w # <<>>
  PROVE  IF w[1] = Columns
         THEN StreamFits(s, given, [c EXCEPT !.columns = TRUE], Tail(w))
         ELSE StreamFits(s, Append(given, [rows |-> c.rows, more |-> TRUE, error |-> FALSE]),
                         [c EXCEPT !.phase = "kept", !.carry = w[1][2], !.rows = <<>>], Tail(w))
<1> DEFINE b == Before(given, Len(given) + 1)
<1>1. /\ s \in SourceSet /\ c \in CursorSet /\ AnswersFit(s, given) /\ Reading(s, given, c, w)
      /\ c.carry = <<>> /\ s.limit > 0 /\ Len(c.rows) = s.limit
  BY DEF StreamFits
<1>2. \/ w[1] = Columns /\ Reading(s, given, [c EXCEPT !.columns = TRUE], Tail(w))
      \/ \E r \in Seq(Nat) : /\ w[1] = Batch(r) /\ r # <<>> /\ GoesOn(r, b + Len(c.rows))
                             /\ Flows(s, Tail(w), b + Len(c.rows) + Len(r)) /\ (~s.fails => c.columns)
  BY <1>1, ReadOn
<1>3. CASE w[1] = Columns /\ Reading(s, given, [c EXCEPT !.columns = TRUE], Tail(w))
  <2> DEFINE d == [c EXCEPT !.columns = TRUE]
  <2>1. d \in CursorSet /\ d.phase = "looks" /\ d.carry = <<>> /\ d.rows = c.rows
    BY <1>1 DEF CursorSet
  <2>2. Reading(s, given, d, Tail(w))
    BY <1>3
  <2> HIDE DEF d
  <2>3. StreamFits(s, given, d, Tail(w))
    BY <1>1, <2>1, <2>2 DEF StreamFits
  <2> QED
    BY <1>3, <2>3 DEF d
<1>4. ASSUME NEW r \in Seq(Nat), w[1] = Batch(r), r # <<>>, GoesOn(r, b + Len(c.rows)),
             Flows(s, Tail(w), b + Len(c.rows) + Len(r)), ~s.fails => c.columns
      PROVE  /\ w[1] # Columns
             /\ StreamFits(s, Append(given, [rows |-> c.rows, more |-> TRUE, error |-> FALSE]),
                           [c EXCEPT !.phase = "kept", !.carry = w[1][2], !.rows = <<>>], Tail(w))
  <2> DEFINE rows == c.rows
             more == TRUE
             error == FALSE
             a == [rows |-> rows, more |-> more, error |-> error]
             next == Tail(w)
  <2>1. w[1] = <<"rows", r>>
    BY <1>4 DEF Batch
  <2>2. w[1][1] = "rows" /\ w[1][2] = r
    BY <2>1
  <2>3. w[1] # Columns
    BY <2>2 DEF Columns
  <2>4. /\ b \in Nat /\ GoesOn(rows, b) /\ s.limit \in Nat /\ s.rows \in Nat /\ (given = <<>> => b = 0)
        /\ rows \in Seq(Nat) /\ Len(rows) = s.limit /\ s.limit > 0
    BY <1>1, ReadSoFar DEF GoesOn
  <2>5. b + Len(rows) + Len(r) \in 0..s.rows /\ Len(r) \in Nat /\ Len(r) > 0
    BY <1>4 DEF Flows
  <2>6. rows # <<>>
    BY <2>4
  <2> HIDE DEF rows, b
  <2>7. given = <<>> => FirstFits(s, a)
    <3>1. a.rows = rows /\ a.more = TRUE
      OBVIOUS
    <3> HIDE DEF a
    <3>2. given = <<>> => s.rows > s.limit
      BY <2>4, <2>5
    <3> QED
      BY <2>4, <3>1, <3>2 DEF FirstFits
  <2>8. more \in BOOLEAN /\ error \in BOOLEAN /\ more
    OBVIOUS
  <2>9. GoesOn(r, b + Len(rows)) /\ Flows(s, next, b + Len(rows) + Len(r)) /\ (~s.fails => c.columns)
    BY <1>4 DEF rows
  <2> HIDE DEF more, error, next
  <2>10. StreamFits(s, Append(given, [rows |-> rows, more |-> more, error |-> error]),
                    [c EXCEPT !.phase = IF more THEN "kept" ELSE "ended", !.carry = r, !.rows = <<>>], next)
    BY <1>1, <1>4, <2>4, <2>6, <2>7, <2>8, <2>9, AnsweredFits DEF b
  <2> QED
    BY <2>2, <2>3, <2>10 DEF more, error, next, rows
<1> QED
  BY <1>2, <1>3, <1>4

\* The next rows are asked for: those carried over come first.
LEMMA FetchFits ==
  ASSUME NEW s, NEW given, NEW c, NEW w, StreamFits(s, given, c, w), c.phase = "kept"
  PROVE  StreamFits(s, given, [c EXCEPT !.phase = "reads", !.rows = c.carry, !.carry = <<>>], w)
<1> DEFINE d == [c EXCEPT !.phase = "reads", !.rows = c.carry, !.carry = <<>>]
           b == Before(given, Len(given) + 1)
<1>1. /\ s \in SourceSet /\ c \in CursorSet /\ AnswersFit(s, given) /\ Reading(s, given, c, w)
      /\ c.rows = <<>> /\ c.carry # <<>>
  BY DEF StreamFits
<1>2. d \in CursorSet /\ d.phase = "reads" /\ d.rows = c.carry /\ d.carry = <<>> /\ d.columns = c.columns
  BY <1>1 DEF CursorSet
<1>3. /\ b \in Nat /\ GoesOn(c.carry, b) /\ GoesOn(c.rows, b) /\ Flows(s, w, b + Len(c.rows) + Len(c.carry))
      /\ Unfinished(given) /\ (~s.fails => c.columns \/ (w # <<>> /\ w[1] = Columns))
  BY <1>1 DEF Reading
<1>4. Len(c.carry) \in Nat
  BY <1>1 DEF CursorSet
<1> HIDE DEF d, b
<1>5. b + Len(d.rows) + Len(d.carry) = b + Len(c.rows) + Len(c.carry)
  BY <1>1, <1>2, <1>3, <1>4
<1>6. GoesOn(d.rows, b) /\ GoesOn(d.carry, b) /\ Flows(s, w, b + Len(d.rows) + Len(d.carry))
  BY <1>1, <1>2, <1>3, <1>5
<1>7. Reading(s, given, d, w)
  BY <1>2, <1>3, <1>6 DEF Reading, b
<1>8. StreamFits(s, given, d, w)
  BY <1>1, <1>2, <1>7 DEF StreamFits
<1> QED
  BY <1>8 DEF d

\* The reader is gone: the answers given stay as they are.
LEMMA CloseFits ==
  ASSUME NEW s, NEW given, NEW c, NEW w, NEW next, StreamFits(s, given, c, w), c.phase = "kept"
  PROVE  StreamFits(s, given, [c EXCEPT !.phase = "closed", !.carry = <<>>], next)
<1> DEFINE d == [c EXCEPT !.phase = "closed", !.carry = <<>>]
<1>1. /\ s \in SourceSet /\ c \in CursorSet /\ AnswersFit(s, given)
      /\ given # <<>> /\ given[Len(given)].more
  BY DEF StreamFits, Reading, Unfinished
<1>2. d \in CursorSet /\ d.phase = "closed"
  <2>1. <<>> \in Seq(Nat)
    OBVIOUS
  <2> QED
    BY <1>1, <2>1 DEF CursorSet
<1> HIDE DEF d
<1>3. StreamFits(s, given, d, next)
  BY <1>1, <1>2 DEF StreamFits
<1> QED
  BY <1>3 DEF d

\* At the start nothing is read, and the whole stream is to come.
LEMMA InitStream == StreamInit => StreamInv
<1> SUFFICES ASSUME StreamInit PROVE StreamInv
  OBVIOUS
<1> DEFINE w == Streamed(source)
           none == <<>>
<1>1. /\ source \in SourceSet /\ stream = w /\ channel = <<>> /\ answers = none
      /\ cursor = [phase |-> "reads", carry |-> <<>>, rows |-> <<>>, columns |-> FALSE]
  BY DEF StreamInit, SourceSet
<1>2. Flows(source, w, 0) /\ (~source.fails => w # <<>> /\ w[1] = Columns)
  BY <1>1, StreamedFlows
<1>3. w \in Seq(Items)
  BY <1>2 DEF Flows
<1> HIDE DEF w
<1>4. /\ cursor \in CursorSet /\ cursor.phase = "reads" /\ cursor.carry = <<>> /\ cursor.rows = <<>>
      /\ Len(cursor.rows) = 0 /\ Len(cursor.carry) = 0
  <2>1. <<>> \in Seq(Nat) /\ Len(<<>>) = 0
    OBVIOUS
  <2> QED
    BY <1>1, <2>1 DEF CursorSet
<1>5. AnswersFit(source, none)
  BY DEF AnswersFit
<1>6. Before(none, Len(none) + 1) = 0 /\ Unfinished(none)
  BY DEF Before, Unfinished
<1>7. Reading(source, none, cursor, w)
  <2>1. GoesOn(cursor.rows, 0) /\ GoesOn(cursor.carry, 0)
    BY <1>4 DEF GoesOn
  <2>2. Flows(source, w, 0 + Len(cursor.rows) + Len(cursor.carry))
    BY <1>2, <1>4
  <2> DEFINE b == Before(none, Len(none) + 1)
  <2>3. b = 0 /\ b \in Nat
    BY <1>6
  <2> HIDE DEF none, b
  <2>4. GoesOn(cursor.rows, b) /\ GoesOn(cursor.carry, b) /\ Flows(source, w, b + Len(cursor.rows) + Len(cursor.carry))
    BY <2>1, <2>2, <2>3
  <2> QED
    BY <1>2, <1>6, <2>3, <2>4 DEF Reading, b
<1>8. StreamFits(source, none, cursor, w)
  <2>1. ~(none # <<>>)
    OBVIOUS
  <2> HIDE DEF none
  <2> QED
    BY <1>1, <1>4, <1>5, <1>7, <2>1 DEF StreamFits
<1>9. Way(channel, stream) = w
  BY <1>1, <1>3, Ways
<1> HIDE DEF none
<1> QED
  BY <1>1, <1>3, <1>8, <1>9 DEF StreamInv

\* Every step keeps it.
LEMMA NextStream == StreamInv /\ [StreamNext]_streamVars => StreamInv'
<1> SUFFICES ASSUME StreamInv, [StreamNext]_streamVars PROVE StreamInv'
  OBVIOUS
<1> DEFINE w == Way(channel, stream)
<1>1. /\ stream \in Seq(Items) /\ (channel = <<>> \/ \E x \in Items : channel = <<x>>)
      /\ StreamFits(source, answers, cursor, w)
  BY DEF StreamInv
<1>2. StreamInv' <=> /\ stream' \in Seq(Items) /\ (channel' = <<>> \/ \E x \in Items : channel' = <<x>>)
                     /\ StreamFits(source', answers', cursor', Way(channel', stream'))
  BY DEF StreamInv
<1>3. channel = <<>> => w = stream
  BY <1>1, Ways
<1>4. channel # <<>> => /\ w # <<>> /\ w[1] = channel[1] /\ Tail(w) = stream
  <2>1. SUFFICES ASSUME channel # <<>> PROVE w # <<>> /\ w[1] = channel[1] /\ Tail(w) = stream
    OBVIOUS
  <2>2. PICK x \in Items : channel = <<x>>
    BY <1>1, <2>1
  <2>3. /\ Way(<<x>>, stream)[1] = x /\ Tail(Way(<<x>>, stream)) = stream /\ Way(<<x>>, stream) # <<>>
    BY <1>1, Ways
  <2>4. channel[1] = x
    BY <2>2
  <2> QED
    BY <2>2, <2>3, <2>4
<1>5. Way(<<>>, stream) = stream
  BY <1>1, Ways
<1> HIDE DEF w
<1>6. CASE SendItem
  <2>1. stream # <<>> /\ channel = <<>> /\ channel' = <<Head(stream)>> /\ stream' = Tail(stream)
        /\ source' = source /\ cursor' = cursor /\ answers' = answers
    BY <1>6 DEF SendItem
  <2>2. Way(<<Head(stream)>>, Tail(stream)) = stream /\ Head(stream) \in Items /\ Tail(stream) \in Seq(Items)
    BY <1>1, <2>1, Ways
  <2>3. StreamFits(source', answers', cursor', Way(channel', stream'))
    BY <1>1, <1>3, <2>1, <2>2
  <2> QED
    BY <1>2, <2>1, <2>2, <2>3
<1>7. CASE Receive
  <2>1. /\ cursor.phase = "reads" /\ channel # <<>> /\ channel' = <<>>
        /\ cursor' = IF channel[1] = Columns THEN [cursor EXCEPT !.columns = TRUE]
                     ELSE [cursor EXCEPT !.rows = @ \o channel[1][2]]
        /\ source' = source /\ stream' = stream /\ answers' = answers
    BY <1>7 DEF Receive
  <2>2. StreamFits(source, answers,
                   IF w[1] = Columns THEN [cursor EXCEPT !.columns = TRUE]
                   ELSE [cursor EXCEPT !.rows = @ \o w[1][2]], Tail(w))
    BY <1>1, <1>4, <2>1, ReceivedFits
  <2>3. StreamFits(source', answers', cursor', Way(channel', stream'))
    BY <1>4, <1>5, <2>1, <2>2
  <2> QED
    BY <1>1, <1>2, <2>1, <2>3
<1>8. CASE ReadToTheEnd
  <2>1. /\ cursor.phase = "reads" /\ ~(source.limit > 0 /\ Len(cursor.rows) >= source.limit)
        /\ stream = <<>> /\ channel = <<>>
        /\ answers' = Append(answers, [rows |-> cursor.rows, more |-> FALSE, error |-> source.fails])
        /\ cursor' = [cursor EXCEPT !.phase = "ended", !.carry = <<>>, !.rows = <<>>]
        /\ source' = source /\ stream' = stream /\ channel' = channel
    BY <1>8 DEF ReadToTheEnd, Enough, Ended, Answered
  <2>2. w = <<>>
    BY <1>3, <2>1
  <2>3. StreamFits(source, Append(answers, [rows |-> cursor.rows, more |-> FALSE, error |-> source.fails]),
                   [cursor EXCEPT !.phase = "ended", !.carry = <<>>, !.rows = <<>>], <<>>)
    BY <1>1, <2>1, <2>2, EndFits
  <2>4. StreamFits(source', answers', cursor', Way(channel', stream'))
    BY <1>5, <2>1, <2>3
  <2> QED
    BY <1>1, <1>2, <2>1, <2>4
<1>9. CASE AtTheLimit
  <2> DEFINE rows == SubSeq(cursor.rows, 1, source.limit)
             past == PastLimit(cursor.rows, source.limit)
  <2>1. /\ cursor.phase = "reads" /\ source.limit > 0 /\ Len(cursor.rows) >= source.limit
        /\ source' = source /\ stream' = stream /\ channel' = channel
        /\ IF past # <<>>
           THEN /\ answers' = Append(answers, [rows |-> rows, more |-> TRUE, error |-> FALSE])
                /\ cursor' = [cursor EXCEPT !.phase = "kept", !.carry = past, !.rows = <<>>]
           ELSE /\ cursor' = [cursor EXCEPT !.phase = "looks", !.rows = rows]
                /\ answers' = answers
    BY <1>9 DEF AtTheLimit, Enough, Answered
  <2>2. IF past # <<>>
        THEN StreamFits(source, Append(answers, [rows |-> rows, more |-> TRUE, error |-> FALSE]),
                        [cursor EXCEPT !.phase = "kept", !.carry = past, !.rows = <<>>], w)
        ELSE StreamFits(source, answers, [cursor EXCEPT !.phase = "looks", !.rows = rows], w)
    BY <1>1, <2>1, LimitFits
  <2> HIDE DEF rows, past
  <2>3. StreamFits(source', answers', cursor', w)
    BY <2>1, <2>2
  <2>4. Way(channel', stream') = w
    BY <2>1 DEF w
  <2> QED
    BY <1>1, <1>2, <2>1, <2>3, <2>4
<1>10. CASE LooksFurther
  <2>1. /\ cursor.phase = "looks" /\ source' = source /\ stream' = stream
    BY <1>10 DEF LooksFurther
  <2>2. CASE /\ channel # <<>> /\ channel' = <<>>
             /\ IF channel[1] = Columns
                THEN cursor' = [cursor EXCEPT !.columns = TRUE] /\ answers' = answers
                ELSE Answered(cursor.rows, channel[1][2], TRUE, FALSE)
    <3>1. IF w[1] = Columns
          THEN StreamFits(source, answers, [cursor EXCEPT !.columns = TRUE], Tail(w))
          ELSE StreamFits(source, Append(answers, [rows |-> cursor.rows, more |-> TRUE, error |-> FALSE]),
                          [cursor EXCEPT !.phase = "kept", !.carry = w[1][2], !.rows = <<>>], Tail(w))
      BY <1>1, <1>4, <2>1, <2>2, LooksFits
    <3>2. IF w[1] = Columns
          THEN cursor' = [cursor EXCEPT !.columns = TRUE] /\ answers' = answers
          ELSE /\ answers' = Append(answers, [rows |-> cursor.rows, more |-> TRUE, error |-> FALSE])
               /\ cursor' = [cursor EXCEPT !.phase = "kept", !.carry = w[1][2], !.rows = <<>>]
      BY <1>4, <2>2 DEF Answered
    <3>3. StreamFits(source, answers', cursor', Tail(w))
      BY <3>1, <3>2
    <3>4. StreamFits(source', answers', cursor', Way(channel', stream'))
      BY <1>4, <1>5, <2>1, <2>2, <3>3
    <3> QED
      BY <1>1, <1>2, <2>1, <2>2, <3>4
  <2>3. CASE /\ Ended /\ channel' = channel
             /\ Answered(cursor.rows, <<>>, FALSE, source.fails)
    <3>1. /\ stream = <<>> /\ channel = <<>>
          /\ answers' = Append(answers, [rows |-> cursor.rows, more |-> FALSE, error |-> source.fails])
          /\ cursor' = [cursor EXCEPT !.phase = "ended", !.carry = <<>>, !.rows = <<>>]
      BY <2>3 DEF Ended, Answered
    <3>2. w = <<>>
      BY <1>3, <3>1
    <3>3. StreamFits(source, Append(answers, [rows |-> cursor.rows, more |-> FALSE, error |-> source.fails]),
                     [cursor EXCEPT !.phase = "ended", !.carry = <<>>, !.rows = <<>>], <<>>)
      BY <1>1, <2>1, <3>2, EndFits
    <3>4. StreamFits(source', answers', cursor', Way(channel', stream'))
      BY <1>5, <2>1, <2>3, <3>1, <3>3
    <3> QED
      BY <1>1, <1>2, <2>1, <2>3, <3>4
  <2> QED
    BY <1>10, <2>2, <2>3 DEF LooksFurther
<1>11. CASE FetchMore
  <2>1. /\ cursor.phase = "kept" /\ cursor' = [cursor EXCEPT !.phase = "reads", !.rows = cursor.carry, !.carry = <<>>]
        /\ source' = source /\ stream' = stream /\ channel' = channel /\ answers' = answers
    BY <1>11 DEF FetchMore
  <2>2. StreamFits(source, answers, [cursor EXCEPT !.phase = "reads", !.rows = cursor.carry, !.carry = <<>>], w)
    BY <1>1, <2>1, FetchFits
  <2>3. StreamFits(source', answers', cursor', Way(channel', stream'))
    BY <2>1, <2>2 DEF w
  <2> QED
    BY <1>1, <1>2, <2>1, <2>3
<1>12. CASE CloseStream
  <2>1. /\ cursor.phase = "kept" /\ cursor' = [cursor EXCEPT !.phase = "closed", !.carry = <<>>]
        /\ source' = source /\ stream' = <<>> /\ channel' = <<>> /\ answers' = answers
    BY <1>12 DEF CloseStream
  <2>2. StreamFits(source', answers', cursor', Way(channel', stream'))
    BY <1>1, <2>1, CloseFits
  <2>3. stream' \in Seq(Items)
    BY <2>1
  <2> QED
    BY <1>2, <2>1, <2>2, <2>3
<1>13. CASE UNCHANGED streamVars
  <2>1. source' = source /\ stream' = stream /\ channel' = channel /\ cursor' = cursor /\ answers' = answers
    BY <1>13 DEF streamVars
  <2> QED
    BY <1>1, <1>2, <2>1 DEF w
<1> QED
  BY <1>6, <1>7, <1>8, <1>9, <1>10, <1>11, <1>12, <1>13 DEF StreamNext

\* What is read all at once: the rows up to the limit, and whether there are more.
LEMMA AtOnce ==
  ASSUME NEW s \in SourceSet
  PROVE  /\ Limited(s.backend, s.rows, s.limit).rows = Rows(1, KeptRows(s.rows, s.limit))
         /\ Limited(s.backend, s.rows, s.limit).truncated = Cut(s.rows, s.limit)
<1>1. s.backend \in {"postgres", "mysql", "sqlite", "oracle"}
  <2>1. s.backend \in Backends
    BY DEF SourceSet
  <2> QED
    BY <2>1, RowStreamAssumption DEF RowStreamAssumption
<1> QED
  BY <1>1 DEF Limited, LimitedPostgres, LimitedMysql, LimitedSqlite, LimitedOracle

\* The inductive invariant says that every read is whole.
LEMMA FitIsWhole == StreamInv => ReadsAreWhole
<1> SUFFICES ASSUME StreamInv PROVE ReadsAreWhole
  OBVIOUS
<1> DEFINE w == Way(channel, stream)
           goesTo(i) == Before(answers, i) + Len(answers[i].rows)
           last == answers[Len(answers)]
<1>1. /\ source \in SourceSet /\ cursor \in CursorSet /\ AnswersFit(source, answers)
      /\ StreamFits(source, answers, cursor, w)
  BY DEF StreamInv, StreamFits
<1> HIDE DEF w
<1>2. /\ answers \in Seq(AnswerSet) /\ DOMAIN answers = 1..Len(answers) /\ Len(answers) \in Nat
      /\ \A i \in 1..Len(answers) : AnswerFits(source, answers, i) /\ answers[i] \in AnswerSet
  BY <1>1 DEF AnswersFit
<1>3. ASSUME NEW i \in DOMAIN answers
      PROVE  /\ answers[i].rows = Rows(Before(answers, i) + 1, goesTo(i))
             /\ answers[i].more => source.limit > 0 /\ Len(answers[i].rows) = source.limit
             /\ i > 1 => answers[i - 1].more /\ answers[i].rows # <<>>
  <2>1. AnswerFits(source, answers, i)
    BY <1>2
  <2>2. Before(answers, i) \in Nat /\ GoesOn(answers[i].rows, Before(answers, i))
    BY <2>1 DEF AnswerFits
  <2>3. answers[i].rows = Rows(Before(answers, i) + 1, goesTo(i))
    BY <2>2, GoingOnIsRows
  <2> QED
    BY <2>1, <2>3 DEF AnswerFits
<1>4. ASSUME answers # <<>>, ~last.more, ~last.error PROVE goesTo(Len(answers)) = source.rows
  <2>1. cursor.phase \in {"reads", "looks", "kept", "ended", "closed"}
    BY <1>1 DEF CursorSet
  <2>2. cursor.phase = "ended"
    BY <1>1, <1>4, <2>1 DEF StreamFits, Reading, Unfinished
  <2> QED
    BY <1>1, <1>4, <2>2 DEF StreamFits
<1>5. ASSUME answers # <<>>, ~source.fails
      PROVE  /\ answers[1].rows = Limited(source.backend, source.rows, source.limit).rows
             /\ answers[1].more = Limited(source.backend, source.rows, source.limit).truncated
  <2> DEFINE a == answers[1]
             n == source.rows
             limit == source.limit
  <2>1. FirstFits(source, a) /\ 1 \in 1..Len(answers)
    BY <1>1, <1>2, <1>5 DEF AnswersFit
  <2>2. a \in AnswerSet /\ AnswerFits(source, answers, 1) /\ Before(answers, 1) = 0
    BY <1>2, <2>1 DEF Before
  <2>3. GoesOn(a.rows, 0) /\ a.more \in BOOLEAN /\ a.rows \in Seq(Nat)
    BY <2>2 DEF AnswerFits, AnswerSet
  <2>4. n \in Nat /\ limit \in Nat
    <3>1. n \in 0..MostRows /\ limit \in Limits
      BY <1>1 DEF SourceSet
    <3>2. MostRows \in Nat /\ Limits \subseteq Nat
      BY RowStreamAssumption DEF RowStreamAssumption
    <3> HIDE DEF n, limit
    <3>3. limit \in Nat
      BY <3>1, <3>2
    <3>4. n \in Nat
      BY <3>1, <3>2
    <3> QED
      BY <3>3, <3>4
  <2>5. a.rows = Rows(1, Len(a.rows))
    <3>1. a.rows = Rows(0 + 1, 0 + Len(a.rows))
      BY <2>3, GoingOnIsRows
    <3>2. Len(a.rows) \in Nat
      BY <2>3
    <3> QED
      BY <3>1, <3>2
  <2>6. IF a.more THEN limit > 0 /\ Len(a.rows) = limit /\ n > limit
        ELSE Len(a.rows) = n /\ (limit = 0 \/ n <= limit)
    BY <1>5, <2>1 DEF FirstFits
  <2> DEFINE l == Len(a.rows)
             more == a.more
  <2>7. l = KeptRows(n, limit) /\ more = Cut(n, limit)
    <3>1. more \in BOOLEAN /\ (more => limit > 0 /\ l = limit /\ n > limit)
          /\ (~more => l = n /\ (limit = 0 \/ n <= limit))
      BY <2>3, <2>6
    <3> HIDE DEF l, more, n, limit
    <3>2. l = KeptRows(n, limit) /\ (more <=> Cut(n, limit))
      BY <2>4, <3>1 DEF KeptRows, Smaller, Cut
    <3>3. Cut(n, limit) \in BOOLEAN
      BY DEF Cut
    <3> QED
      BY <3>1, <3>2, <3>3
  <2> QED
    BY <1>1, <2>5, <2>7, AtOnce
<1>6. cursor.phase = "ended" => cursor.columns \/ source.fails
  BY <1>1 DEF StreamFits
<1> QED
  BY <1>3, <1>4, <1>5, <1>6 DEF ReadsAreWhole

\* Whatever the backend, the rows, the size of a batch and the limit, the answers
\* together are the statement's rows, each once and in order, and the first is what
\* the statement read at once would give.
THEOREM ReadsStayWhole == StreamSpec => []ReadsAreWhole
<1>1. StreamInit => StreamInv
  BY InitStream
<1>2. StreamInv /\ [StreamNext]_streamVars => StreamInv'
  BY NextStream
<1>3. StreamInv => ReadsAreWhole
  BY FitIsWhole
<1> QED
  BY <1>1, <1>2, <1>3, PTL DEF StreamSpec

=============================================================================
