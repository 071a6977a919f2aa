------------------------------- MODULE Timers -------------------------------
(***************************************************************************)
(* What the reducer waits a while for: the next key of a sequence          *)
(* (reducer/keys.rs, keymap.rs), the end of a toast (notice.rs,            *)
(* reducer/notices.rs) and the next frame of a waiting modal's spinner     *)
(* (reducer/dialogs.rs).  A timer cannot be called back: one that is no    *)
(* longer wanted runs out all the same, in any order with the others, and  *)
(* is told by its number.                                                  *)
(***************************************************************************)
EXTENDS Naturals, Sequences, SequencesExt, FiniteSets

CONSTANTS
  KeyNames,         \* keys
  Bindings,         \* by context, by sequence of keys: the action it runs
  Levels,           \* of notices; "error" ones are dropped last
  QueueCapacity,    \* toasts kept, the visible one included
  Presses,          \* bound: keys pressed
  Comings           \* bound: notices and dialogs that come by themselves

VARIABLES
  pendingKeys, keyTimer,    \* the keys of a sequence so far; its last timer
  overlay,                  \* "none", a dialog: "field", "buttons" or "pending"
  toasts, generation,       \* the queue, the first on screen; its last timer
  spinnerTimer,
  timers,                   \* those running: [of, n] and a ghost, `at`
  pressed,                  \* ghost and bound: keys looked up
  came                      \* bound: notices and dialogs so far
timerVars ==
  <<pendingKeys, keyTimer, overlay, toasts, generation, spinnerTimer, timers, pressed, came>>

State == [pending |-> pendingKeys, keyTimer |-> keyTimer, overlay |-> overlay,
          toasts |-> toasts, generation |-> generation, spinnerTimer |-> spinnerTimer,
          timers |-> timers, pressed |-> pressed, came |-> came]

Becomes(s) ==
  /\ pendingKeys' = s.pending /\ keyTimer' = s.keyTimer /\ overlay' = s.overlay
  /\ toasts' = s.toasts /\ generation' = s.generation /\ spinnerTimer' = s.spinnerTimer
  /\ timers' = s.timers /\ pressed' = s.pressed /\ came' = s.came

Schedule(s, of, n) == [s EXCEPT !.timers = @ \cup {[of |-> of, n |-> n, at |-> s.pressed]}]

-----------------------------------------------------------------------------
(* Toasts *)

\* A mutant: the toast that comes up keeps the timer of the one before.
RestartedOnce(s) == IF s.generation > 0 THEN s ELSE Schedule([s EXCEPT !.generation = 1], "toast", 1)

\* A new timer for the visible toast.
Restarted(s) == Schedule([s EXCEPT !.generation = @ + 1], "toast", s.generation + 1)

\* Room is made by dropping the oldest waiting toast that is not an error, or else
\* the oldest waiting one.
DropOne(queue) ==
  LET waiting == 2..Len(queue)
      mild == {i \in waiting : queue[i] # "error"}
      oldest(is) == CHOOSE i \in is : \A j \in is : i <= j
  IN  IF waiting = {} THEN queue
      ELSE RemoveAt(queue, oldest(IF mild = {} THEN waiting ELSE mild))

\* The same notice as the newest is counted on it; the visible one starts again.
Notify(s, notice) ==
  IF s.toasts # <<>> /\ Last(s.toasts) = notice
  THEN IF Len(s.toasts) = 1 THEN Restarted(s) ELSE s
  ELSE LET longer == Append(s.toasts, notice)
           queue == IF Len(longer) > QueueCapacity THEN DropOne(longer) ELSE longer
           queued == [s EXCEPT !.toasts = queue]
       IN  IF Len(queue) = 1 THEN Restarted(queued) ELSE queued

Expire(s, n) ==
  IF n # s.generation \/ s.toasts = <<>> THEN s
  ELSE LET next == [s EXCEPT !.toasts = Tail(@)]
       IN  IF next.toasts = <<>> THEN next ELSE Restarted(next)

-----------------------------------------------------------------------------
(* The spinner *)

StartSpinner(s) ==
  Schedule([s EXCEPT !.spinnerTimer = @ + 1], "spinner", s.spinnerTimer + 1)

Spin(s, n) ==
  IF n # s.spinnerTimer \/ s.overlay # "pending" THEN s ELSE Schedule(s, "spinner", n)

-----------------------------------------------------------------------------
(* Keys *)

\* The overlay's context alone, or the pane's and then the global one.
Contexts(s) == IF s.overlay = "none" THEN <<"pane", "global">> ELSE <<"dialog">>

Bound(context) == DOMAIN Bindings[context]
Starts(context, keys) ==
  \E chord \in Bound(context) : Len(chord) > Len(keys) /\ IsPrefix(keys, chord)

\* What the keys so far mean in the first context that knows them.
Resolve(contexts, keys) ==
  LET knows(c) == Starts(c, keys) \/ keys \in Bound(c)
      known == SelectSeq(contexts, knows)
  IN  IF known = <<>> THEN <<"none">>
      ELSE IF Starts(Head(known), keys) THEN <<"prefix">>
      ELSE <<"match", Bindings[Head(known)][keys]>>

Exact(contexts, keys) ==
  LET known == SelectSeq(contexts, LAMBDA c : keys \in Bound(c))
  IN  IF known = <<>> THEN "nothing" ELSE Bindings[Head(known)][keys]

\* Carries out an action, as far as these waits go.
Act(s, action) ==
  CASE action = "open" -> [s EXCEPT !.overlay = "field"]
    [] action = "cancel" -> [s EXCEPT !.overlay = "none"]
    [] action = "next field" -> [s EXCEPT !.overlay = IF @ = "field" THEN "buttons" ELSE @]
    [] action = "submit" /\ s.overlay # "pending" ->
         StartSpinner([s EXCEPT !.overlay = "pending"])
    [] action = "dismiss" -> Expire(s, s.generation)
    [] action = "say" -> Notify(s, "info")
    [] OTHER -> s

\* What the keys typed so far are bound to runs, by the contexts of now.
FinishSequence(s) ==
  LET taken == [s EXCEPT !.pending = <<>>]
  IN  IF s.pending = <<>> THEN s ELSE Act(taken, Exact(Contexts(s), s.pending))

\* A mutant: the wait of the sequence's first key is its only one.
WaitsOnce(s) == IF Len(s.pending) > 1 THEN s ELSE Schedule([s EXCEPT !.keyTimer = @ + 1], "keys", s.keyTimer + 1)

Waits(s) == Schedule([s EXCEPT !.keyTimer = @ + 1], "keys", s.keyTimer + 1)

\* The keys that wait, the last one among them, are looked up.
LookUp(s) ==
  LET found == Resolve(Contexts(s), s.pending)
  IN  CASE found[1] = "match" -> Act([s EXCEPT !.pending = <<>>], found[2])
        [] found[1] = "prefix" -> Waits(s)
        [] OTHER -> [s EXCEPT !.pending = <<>>]

Typing(s) == s.overlay = "field"

\* A key: typed into a text field, or looked up behind those that wait.  When the
\* sequence breaks off, what was before runs and the key starts afresh.
KeyPressed(s, key) ==
  LET longer == [s EXCEPT !.pending = Append(@, key), !.pressed = @ + 1]
      broken == Resolve(Contexts(s), longer.pending) = <<"none">> /\ s.pending # <<>>
      afresh == FinishSequence([s EXCEPT !.pressed = @ + 1])
  IN  IF Typing(s) THEN s
      ELSE IF ~broken THEN LookUp(longer)
      ELSE IF Typing(afresh) THEN afresh
      ELSE LookUp([afresh EXCEPT !.pending = <<key>>])

\* A mutant: any sequence's timer ends the one that waits.
TimedOutAnyway(s, n) == FinishSequence(s)

TimedOut(s, n) == IF n = s.keyTimer THEN FinishSequence(s) ELSE s

-----------------------------------------------------------------------------

TimersInit ==
  /\ pendingKeys = <<>> /\ keyTimer = 0 /\ overlay = "none"
  /\ toasts = <<>> /\ generation = 0 /\ spinnerTimer = 0
  /\ timers = {} /\ pressed = 0 /\ came = 0

Press == pressed < Presses /\ \E key \in KeyNames : Becomes(KeyPressed(State, key))

Say == /\ came < Comings
       /\ \E notice \in Levels : Becomes(Notify([State EXCEPT !.came = @ + 1], notice))

\* A dialog comes up or goes by itself: a prompt, an answer, another modal.
DialogComes ==
  /\ overlay # "field" /\ came < Comings
  /\ Becomes([State EXCEPT !.overlay = "field", !.came = @ + 1])
DialogAnswered == overlay = "pending" /\ \E o \in {"none", "field"} : Becomes([State EXCEPT !.overlay = o])

RunsOut(t) ==
  LET s == [State EXCEPT !.timers = @ \ {t}]
  IN  Becomes(CASE t.of = "toast" -> Expire(s, t.n)
                [] t.of = "spinner" -> Spin(s, t.n)
                [] t.of = "keys" -> TimedOut(s, t.n))

TimersNext ==
  \/ Press \/ Say \/ DialogComes \/ DialogAnswered
  \/ \E t \in timers : RunsOut(t)

TimersSpec == TimersInit /\ [][TimersNext]_timerVars

-----------------------------------------------------------------------------
(* Properties *)

HasTimer(of, n) == \E t \in timers : t.of = of /\ t.n = n

\* Whatever waits for time to pass has a timer that will end the wait: a sequence
\* that is half typed, the toast on screen, the spinner of a modal that waits;
\* however they were interrupted, replaced and restarted.  No toast stays, and no
\* keys hang, for ever.
EveryWaitHasItsTimer ==
  /\ pendingKeys # <<>> => HasTimer("keys", keyTimer)
  /\ toasts # <<>> => HasTimer("toast", generation)
  /\ overlay = "pending" => HasTimer("spinner", spinnerTimer)

\* A timer ends a half-typed sequence only if no key was looked up since it was
\* started: one left behind by a sequence that was finished, broken off or begun
\* again never cuts the next one short.
StaleTimersChangeNothing ==
  [][\A t \in timers : t.of = "keys" /\ pressed' = pressed /\ pendingKeys # <<>> /\ pendingKeys' = <<>>
       /\ timers \ timers' = {t} => t.at = pressed]_timerVars

=============================================================================
