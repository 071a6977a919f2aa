--------------------------- MODULE SchemaBrowser ---------------------------
(***************************************************************************)
(* The schema browser: the tree of one saved connection, the sessions on   *)
(* it with what each has loaded, and their workers, which answer loads in  *)
(* the order they were asked between statements that change the schema.    *)
(* What a worker that dies leaves behind is QueryRun's.                    *)
(*                                                                         *)
(* Each action below a handler of the reducer ends with `tree::after`:     *)
(* what is open and not known is asked for, the selection finds its row    *)
(* again, and the spinner starts.                                          *)
(***************************************************************************)
EXTENDS SchemaTree, FiniteSets

CONSTANTS
  BrowseSessions, \* bound: the ids of the sessions opened, a set of numbers
  Needles,        \* bound: what a filter's text may be
  Users           \* bound: what a user may do, and how often: records [may, left]

ASSUME BrowseSessionsAssumption == BrowseSessions \subseteq Nat \ {0}
ASSUME UsersAssumption == \A u \in Users : DOMAIN u = {"may", "left"} /\ u.left \in Nat

VARIABLES
  app,      \* the reducer's state
  inbox,    \* commands on their way to each session's worker
  outbox,   \* answers on their way back
  server,   \* what the database holds, and how often that changed
  frames,   \* Timer::Tree: the live one, and how many stale ones
  ops       \* what the user still may do

browseVars == <<app, inbox, outbox, server, frames, ops>>

Scratch == 0
NoPath == <<"none">>

\* `selected_key` is None: nothing shows.
NoKey == Key("none", <<>>)

\* What a session on the connection starts as.  `known` is a ghost: the version
\* of the schema that the last statement to clear its cache was answered at.
OnConnection ==
  [status |-> "connecting", expand |-> FALSE, cache |-> EmptyCache, describe |-> NoPath,
   running |-> FALSE, cancelled |-> FALSE, known |-> 0]

-----------------------------------------------------------------------------
(* Which session the tree looks at. *)

Opened(a) == {s \in DOMAIN a.sessions : a.sessions[s].status = "open"}
First(order, set) == order[Min({i \in DOMAIN order : order[i] \in set})]

\* `for_connection`: the active session if it is on the connection, else the
\* first in tab order.
ForConnection(a) ==
  IF a.active \in DOMAIN a.sessions THEN a.active ELSE First(a.order, DOMAIN a.sessions)

\* `schema_session`: that one if it is open, else the first that is.
SchemaSession(a) ==
  IF Opened(a) = {} THEN Scratch
  ELSE IF ForConnection(a) \in Opened(a) THEN ForConnection(a)
  ELSE First(a.order, Opened(a))

\* `connection_status`: open if any is, else connecting.
Connecting(a) ==
  Opened(a) = {} /\ \E s \in DOMAIN a.sessions : a.sessions[s].status = "connecting"

View(a) ==
  LET s == SchemaSession(a)
  IN  [connected |-> s # Scratch, connecting |-> Connecting(a),
       cache |-> IF s = Scratch THEN EmptyCache ELSE a.sessions[s].cache,
       open |-> a.open, text |-> IF a.filtering THEN a.text ELSE "",
       showSystem |-> a.showSystem]

Rows(a) == Flatten(View(a))

-----------------------------------------------------------------------------
(* `tree::after`. *)

\* Every open node that was never asked for, in the order of the lists.
Unasked(c, path) == IF Known(c, path) THEN <<>> ELSE <<path>>

WantedObject(a, c, cat, o) ==
  LET path == <<cat, o>>
  IN  IF Key(FolderOf(o), <<cat>>) \in a.open /\ Key("object", path) \in a.open
      THEN Unasked(c, path) ELSE <<>>

WantedCatalog(a, c, cat) ==
  IF Key("catalog", <<cat>>) \notin a.open \/ (cat \in SystemCatalogs /\ ~a.showSystem)
  THEN <<>>
  ELSE IF ~Loaded(c, <<cat>>) THEN Unasked(c, <<cat>>)
  ELSE RowsOf(Items(c, <<cat>>), LAMBDA o : WantedObject(a, c, cat, o))

Wanted(a) ==
  LET c == a.sessions[SchemaSession(a)].cache
  IN  IF ConnectionRow \notin a.open \/ SchemaSession(a) = Scratch THEN <<>>
      ELSE IF ~Loaded(c, <<>>) THEN Unasked(c, <<>>)
      ELSE RowsOf(Items(c, <<>>), LAMBDA cat : WantedCatalog(a, c, cat))

\* What a session's inspector describes, unless what is above it loads: that
\* answer would drop it.
Described(ses) ==
  LET path == ses.describe
  IN  IF /\ path # NoPath /\ ses.status = "open"
         /\ ~Loading(ses.cache, <<>>) /\ ~Loading(ses.cache, SubSeq(path, 1, 1))
         /\ ~Known(ses.cache, path)
      THEN <<path>> ELSE <<>>

WithLoads(a, s, paths) == [a EXCEPT !.sessions[s].cache = BeginAll(@, paths)]
LoadsOf(a, s, paths) ==
  [i \in DOMAIN paths |->
     [type |-> "load", path |-> paths[i],
      generation |-> a.sessions[s].cache.generation + i]]

\* The open nodes' loads, then the inspectors'.
TreeLoaded(a) == IF Wanted(a) = <<>> THEN a ELSE WithLoads(a, SchemaSession(a), Wanted(a))
Inspected(ses) == [ses EXCEPT !.cache = BeginAll(@, Described(ses))]
AllLoaded(a) ==
  LET t == TreeLoaded(a)
  IN  [t EXCEPT !.sessions = [s \in DOMAIN t.sessions |-> Inspected(t.sessions[s])]]
Loads(a, s) ==
  LET t == TreeLoaded(a)
  IN  (IF Wanted(a) # <<>> /\ s = SchemaSession(a) THEN LoadsOf(a, s, Wanted(a)) ELSE <<>>)
      \o LoadsOf(t, s, Described(t.sessions[s]))

\* A mutant: the selection keeps its place in the list, not its node.
ReselectedInPlace(a, rows) ==
  LET at == IF a.selected <= Len(rows) THEN a.selected ELSE Len(rows)
  IN  IF rows = <<>> THEN [a EXCEPT !.selected = 1, !.key = NoKey, !.jump = FALSE]
      ELSE [a EXCEPT !.selected = at, !.key = rows[at], !.jump = FALSE]

\* The selection: on its node, else that node's nearest ancestor, else where it
\* was.  A filter that was just typed puts it on the first match.  While nothing
\* shows it is on no node, and the node it was on is forgotten.
Reselected(a, rows) ==
  LET found == IF a.key = NoKey THEN 0 ELSE Find(rows, a.key)
      at == IF found # 0 THEN found
            ELSE IF a.selected <= Len(rows) THEN a.selected ELSE Len(rows)
      to == IF a.filtering /\ a.jump THEN FirstHit(rows, a.text) ELSE at
  IN  IF rows = <<>> THEN [a EXCEPT !.selected = 1, !.key = NoKey, !.jump = FALSE]
      ELSE [a EXCEPT !.selected = to, !.key = rows[to], !.jump = FALSE]

\* Whether anything in the tree is waiting, for the spinner.
Waiting(a) ==
  Connecting(a) \/ \E s \in DOMAIN a.sessions : AnyLoading(a.sessions[s].cache)
\* A mutant: every event starts one.
StartsAnother(a) == Waiting(a)
StartsSpinner(a) == ~a.spinning /\ Waiting(a)

Scheduled(f) == [live |-> TRUE, stale |-> f.stale + (IF f.live THEN 1 ELSE 0)]

\* A handler leaves the app as `left` and sends `out`; then comes `tree::after`.
AndAfter(left, out) ==
  \E a \in {left} : \E loaded \in {AllLoaded(a)} : \E rows \in {Rows(loaded)} :
  LET settled == Reselected(loaded, rows)
      sent(s) == out[s] \o IF s \in DOMAIN a.sessions THEN Loads(a, s) ELSE <<>>
  IN  /\ app' = [settled EXCEPT !.spinning = @ \/ Waiting(settled)]
      /\ frames' = IF StartsSpinner(settled) THEN Scheduled(frames) ELSE frames
      /\ inbox' = [s \in BrowseSessions |-> inbox[s] \o sent(s)]

NoCommands == [s \in BrowseSessions |-> <<>>]
Only(s, command) == [NoCommands EXCEPT ![s] = <<command>>]
Connect == [type |-> "connect", path |-> <<>>, generation |-> 0]
Ddl == [type |-> "ddl", path |-> <<>>, generation |-> 0]

-----------------------------------------------------------------------------
(* What the user does. *)

UserDoes(op) == /\ op \in ops.may /\ ops.left > 0
                /\ ops' = [ops EXCEPT !.left = @ - 1]
                /\ UNCHANGED <<outbox, server>>

Fresh(a) == BrowseSessions \ (DOMAIN a.sessions \cup a.closed)

\* `sessions::open`: a new session at the end of the tabs, shown, its worker
\* told to connect.  The ids are a bound.
WithSession(a, s) ==
  [a EXCEPT !.sessions = [t \in DOMAIN @ \cup {s} |-> IF t = s THEN OnConnection ELSE @[t]],
            !.order = Append(@, s), !.active = s]

\* `sessions::reconnect`.
Reconnecting(a, s) ==
  [a EXCEPT !.sessions[s].status = "connecting", !.active = s]

\* `open_or_switch`, and which session it comes to.
OpenOrSwitch(Then(_, _)) ==
  IF DOMAIN app.sessions = {}
  THEN \E s \in Fresh(app) : /\ \A t \in Fresh(app) : s <= t
                             /\ AndAfter(Then(WithSession(app, s), s), Only(s, Connect))
  ELSE LET s == ForConnection(app)
       IN  IF app.sessions[s].status = "failed"
           THEN AndAfter(Then(Reconnecting(app, s), s), Only(s, Connect))
           ELSE AndAfter(Then([app EXCEPT !.active = s], s), NoCommands)

\* Enter on the connection.
OpenConnection ==
  /\ UserDoes("Open") /\ app.key = ConnectionRow
  /\ OpenOrSwitch(LAMBDA a, s : a)

\* The connection's dialog, submitted as it was: its session connects again.
Reconnect ==
  /\ UserDoes("Reconnect") /\ DOMAIN app.sessions # {}
  /\ AndAfter(Reconnecting(app, ForConnection(app)), Only(ForConnection(app), Connect))

\* Another session on the same connection.
OpenNewSession ==
  /\ UserDoes("OpenNew")
  /\ \E s \in Fresh(app) : /\ \A t \in Fresh(app) : s <= t
                           /\ AndAfter(WithSession(app, s), Only(s, Connect))

\* The tabs: another session is shown, the scratch one included.
Switch ==
  /\ UserDoes("Switch")
  /\ \E s \in ToSet(app.order) \ {app.active} : AndAfter([app EXCEPT !.active = s], NoCommands)

\* A session closes; its right-hand neighbour is shown, or the left-hand one.
Place(order, s) == CHOOSE i \in DOMAIN order : order[i] = s
Neighbour(order, s) ==
  LET i == Place(order, s)
  IN  order[IF i < Len(order) THEN i + 1 ELSE i - 1]
Close ==
  /\ UserDoes("Close")
  /\ \E s \in DOMAIN app.sessions :
       AndAfter([app EXCEPT !.sessions = [t \in DOMAIN @ \ {s} |-> @[t]],
                            !.order = RemoveAt(@, Place(@, s)),
                            !.active = IF @ = s THEN Neighbour(app.order, s) ELSE @,
                            !.closed = @ \cup {s}],
                NoCommands)

\* Up, Down and the rest, as often as it takes.
MoveTo ==
  /\ UserDoes("Move")
  /\ \E i \in DOMAIN Rows(app) :
       /\ i # app.selected
       /\ AndAfter([app EXCEPT !.selected = i, !.key = Rows(app)[i]], NoCommands)

\* A closed node opens.  The connection, without an open session, is connected
\* first and opens once it is.
Expand ==
  /\ UserDoes("Expand")
  /\ Rows(app) # <<>> /\ app.key.kind \in Expandable /\ app.key \notin app.open
  /\ IF app.key = ConnectionRow /\ Opened(app) = {}
     THEN LET waits(a, s) == [a EXCEPT !.sessions[s].expand = TRUE]
          IN  IF DOMAIN app.sessions # {} /\ app.sessions[ForConnection(app)].status = "connecting"
              THEN AndAfter(waits(app, ForConnection(app)), NoCommands)
              ELSE OpenOrSwitch(waits)
     ELSE AndAfter([app EXCEPT !.open = @ \cup {app.key}], NoCommands)

Collapse ==
  /\ UserDoes("Collapse")
  /\ Rows(app) # <<>> /\ app.key \in app.open
  /\ AndAfter([app EXCEPT !.open = @ \ {app.key}], NoCommands)

\* `load`: one already in flight is not asked for again.
Load(a, s, path) ==
  IF Loading(a.sessions[s].cache, path) THEN AndAfter(a, NoCommands)
  ELSE AndAfter(WithLoads(a, s, <<path>>), Only(s, LoadsOf(a, s, <<path>>)[1]))

\* `r`: the load behind the selected row, again.
Refresh ==
  /\ UserDoes("Refresh")
  /\ Rows(app) # <<>> /\ SchemaSession(app) # Scratch
  /\ Load(app, SchemaSession(app), PathOf(app.key))

\* `R`: everything of the connection goes and loads again.
RefreshAll ==
  /\ UserDoes("RefreshAll")
  /\ SchemaSession(app) # Scratch
  /\ AndAfter([app EXCEPT !.sessions[SchemaSession(app)].cache = Clear(@)], NoCommands)

ToggleSystemObjects ==
  /\ UserDoes("System")
  /\ AndAfter([app EXCEPT !.showSystem = ~@], NoCommands)

\* `/`: the text stays from before.
Filter ==
  /\ UserDoes("Filter")
  /\ ~app.filtering \/ ~app.editing
  /\ AndAfter([app EXCEPT !.filtering = TRUE, !.editing = TRUE, !.jump = FALSE,
                          !.before = app.key, !.text = IF app.filtering THEN @ ELSE ""],
              NoCommands)

\* A key in the prompt: the text changes, or Enter keeps it.
TypeFilter ==
  /\ UserDoes("Filter") /\ app.filtering /\ app.editing
  /\ \E text \in Needles, editing \in BOOLEAN :
       /\ editing = (text # app.text)
       /\ AndAfter([app EXCEPT !.text = text, !.editing = editing, !.jump = TRUE], NoCommands)

\* Esc: the selection goes back to where it was, if it was anywhere.
ClearFilter ==
  /\ UserDoes("Filter") /\ app.filtering
  /\ AndAfter([app EXCEPT !.filtering = FALSE, !.editing = FALSE, !.jump = FALSE,
                          !.key = IF app.before = NoKey THEN @ ELSE app.before],
              NoCommands)

\* `d` on a table or under one.  A load that failed is asked for again.
Describe ==
  /\ UserDoes("Describe")
  /\ Rows(app) # <<>> /\ SchemaSession(app) # Scratch
  /\ app.key.kind \in {"object", "columns", "indexes", "column", "index"}
  /\ LET s == SchemaSession(app)
         path == PathOf(app.key)
         a == [app EXCEPT !.active = s, !.sessions[s].describe = path]
     IN  IF HasFailed(app.sessions[s].cache, path) THEN Load(a, s, path)
         ELSE AndAfter(a, NoCommands)

LeaveDescribe ==
  /\ UserDoes("Describe")
  /\ app.active \in DOMAIN app.sessions /\ app.sessions[app.active].describe # NoPath
  /\ AndAfter([app EXCEPT !.sessions[app.active].describe = NoPath], NoCommands)

\* The user runs a statement that changes the schema, one at a time.
RunDdl ==
  /\ UserDoes("Ddl")
  /\ app.active \in Opened(app) /\ ~app.sessions[app.active].running
  /\ AndAfter([app EXCEPT !.sessions[app.active].running = TRUE,
                          !.sessions[app.active].cancelled = FALSE],
              Only(app.active, Ddl))

\* And cancels it: the server may stop it or not.
CancelDdl ==
  /\ UserDoes("Cancel")
  /\ app.active \in DOMAIN app.sessions /\ app.sessions[app.active].running
  /\ AndAfter([app EXCEPT !.sessions[app.active].cancelled = TRUE], NoCommands)

-----------------------------------------------------------------------------
(* The workers, one command at a time. *)

\* What the database holds at a path.  `extra` is a table that DDL creates and
\* drops, before the others in every list.
Contents(path) ==
  CASE path = <<>> -> <<"main", "sys">>
    [] path = <<"main">> -> (IF server.extra THEN <<"a">> ELSE <<>>) \o <<"t", "v">>
    [] path = <<"sys">> -> <<"t">>
    [] OTHER -> <<[section |-> "columns", name |-> "id"], [section |-> "indexes", name |-> "ix"]>>

Gone(path) == Len(path) = 2 /\ path[2] = "a" /\ ~server.extra

Answer(command, ok, items, version) ==
  [type |-> command.type, path |-> command.path, generation |-> command.generation,
   ok |-> ok, value |-> [items |-> items, read |-> version]]

\* A worker runs its next command; any may fail.  A closed session's worker
\* goes on to the end of its commands.
Work(s) ==
  /\ inbox[s] # <<>>
  /\ LET command == Head(inbox[s])
         ddl == command.type = "ddl"
     IN  \E ok \in BOOLEAN :
           /\ server' = IF ddl /\ ok
                        THEN [extra |-> ~server.extra, version |-> server.version + 1]
                        ELSE server
           /\ outbox' = [outbox EXCEPT ![s] = Append(@,
                Answer(command, ok,
                       IF command.type = "load" /\ ok /\ ~Gone(command.path)
                       THEN Contents(command.path) ELSE <<>>,
                       server'.version))]
  /\ inbox' = [inbox EXCEPT ![s] = Tail(@)]
  /\ UNCHANGED <<app, frames, ops>>

-----------------------------------------------------------------------------
(* Their answers. *)

\* What the first answer opens: the connection's own catalog, if it has any.
OpensItself(a, s) ==
  LET own == {Key("catalog", <<"main">>), Key("tables", <<"main">>)}
  IN  IF a.opened THEN a
      ELSE [a EXCEPT !.opened = TRUE,
                     !.open = @ \cup IF Loaded(a.sessions[s].cache, <<>>) THEN own ELSE {}]

SchemaLoaded(a, s, answer) ==
  LET outcome == [ok |-> answer.ok, value |-> answer.value]
      waited == Awaited(a.sessions[s].cache, answer.path, answer.generation)
      b == [a EXCEPT !.sessions[s].cache = Finish(@, answer.path, answer.generation, outcome)]
  IN  IF waited /\ answer.path = <<>> THEN OpensItself(b, s) ELSE b

\* `tree::connected`: what it held before is stale.
Connected(a, s, answer) ==
  [a EXCEPT !.sessions[s].status = "open", !.sessions[s].expand = FALSE,
            !.sessions[s].cache = Clear(@),
            !.sessions[s].known = answer.value.read,
            !.open = IF a.sessions[s].expand THEN @ \cup {ConnectionRow} ELSE @]

\* A mutant: the session goes on connecting.
ConnectFailedUnsaid(a, s) == [a EXCEPT !.sessions[s].expand = FALSE]
ConnectFailed(a, s) ==
  [a EXCEPT !.sessions[s].status = "failed", !.sessions[s].expand = FALSE]

\* A mutant: what was loaded stays.
DdlDoneUnread(a, s, answer) ==
  [a EXCEPT !.sessions[s].running = FALSE, !.sessions[s].known = answer.value.read]

\* `run::done` of DDL.  A cancelled statement that finished anyway goes no
\* further than its job: what it changed is not read again.
DdlDone(a, s, answer) ==
  LET ended == [a EXCEPT !.sessions[s].running = FALSE]
  IN  IF a.sessions[s].cancelled THEN ended
      ELSE [ended EXCEPT !.sessions[s].cache = Clear(@), !.sessions[s].known = answer.value.read]

DdlFailed(a, s) == [a EXCEPT !.sessions[s].running = FALSE]

\* An answer is handled.  One of a closed session is dropped.
Hear(s) ==
  /\ outbox[s] # <<>>
  /\ outbox' = [outbox EXCEPT ![s] = Tail(@)]
  /\ LET answer == Head(outbox[s])
     IN  AndAfter(IF s \notin DOMAIN app.sessions THEN app
                  ELSE CASE answer.type = "load" -> SchemaLoaded(app, s, answer)
                         [] answer.type = "connect" /\ answer.ok -> Connected(app, s, answer)
                         [] answer.type = "connect" /\ ~answer.ok -> ConnectFailed(app, s)
                         [] answer.type = "ddl" /\ answer.ok -> DdlDone(app, s, answer)
                         [] answer.type = "ddl" /\ ~answer.ok -> DdlFailed(app, s),
                  NoCommands)
  /\ UNCHANGED <<server, ops>>

-----------------------------------------------------------------------------
(* The spinner's frames. *)

\* The live frame ran out: the next one, while something still waits.
Spin ==
  /\ frames.live
  /\ IF app.spinning /\ Waiting(app)
     THEN UNCHANGED <<app, frames>>
     ELSE /\ app' = [app EXCEPT !.spinning = FALSE]
          /\ frames' = [frames EXCEPT !.live = FALSE]
  /\ UNCHANGED <<inbox, outbox, server, ops>>

-----------------------------------------------------------------------------
BrowseInit ==
  /\ app = [sessions |-> << >>, order |-> <<Scratch>>, active |-> Scratch, closed |-> {},
            open |-> {}, opened |-> FALSE, selected |-> 1, key |-> ConnectionRow,
            showSystem |-> FALSE, filtering |-> FALSE, editing |-> FALSE, text |-> "",
            before |-> ConnectionRow, jump |-> FALSE, spinning |-> FALSE]
  /\ inbox = NoCommands
  /\ outbox = NoCommands
  /\ server = [extra |-> FALSE, version |-> 0]
  /\ frames = [live |-> FALSE, stale |-> 0]
  /\ ops \in Users

UserBrowses ==
  \/ OpenConnection \/ Reconnect \/ OpenNewSession \/ Switch \/ Close
  \/ MoveTo \/ Expand \/ Collapse \/ Refresh \/ RefreshAll \/ ToggleSystemObjects
  \/ Filter \/ TypeFilter \/ ClearFilter \/ Describe \/ LeaveDescribe
  \/ RunDdl \/ CancelDdl

BrowseNext ==
  \/ UserBrowses
  \/ \E s \in BrowseSessions : Work(s) \/ Hear(s)
  \/ Spin

BrowseSpec == BrowseInit /\ [][BrowseNext]_browseVars

BrowseFairness ==
  /\ \A s \in BrowseSessions : WF_browseVars(Work(s)) /\ WF_browseVars(Hear(s))
  /\ WF_browseVars(Spin)
-----------------------------------------------------------------------------
(* What the browser keeps to. *)

\* Every load a cache waits for is on its way, once, to the worker or back: no
\* node waits for an answer that will not come, or for two.
OnItsWay(s, path, generation) ==
  LET same(m) == m.type = "load" /\ m.path = path /\ m.generation = generation
      count(q) == Cardinality({i \in DOMAIN q : same(q[i])})
  IN  count(inbox[s]) + count(outbox[s])
LoadsAreAwaited ==
  \A s \in DOMAIN app.sessions : \A p \in DOMAIN app.sessions[s].cache.entries :
    Loading(app.sessions[s].cache, p) =>
      OnItsWay(s, p, app.sessions[s].cache.entries[p].loading) = 1

\* No list of children is older than the list of their parents: an answer for
\* the parents takes everything below with it (schema.rs:222), loads included.
ChildrenAreNewer ==
  \A s \in DOMAIN app.sessions : ChildrenFollowParents(app.sessions[s].cache)

\* Nothing loaded was read before the last DDL statement of the session was
\* answered, unless that was cancelled, or before it connected.
TreeIsFresh ==
  \A s \in DOMAIN app.sessions : \A p \in DOMAIN app.sessions[s].cache.entries :
    Loaded(app.sessions[s].cache, p) /\ app.sessions[s].status = "open" =>
      app.sessions[s].cache.entries[p].value.read >= app.sessions[s].known

\* One frame of the spinner is scheduled, and only while something may wait.
OneSpinner ==
  /\ frames.stale = 0
  /\ app.spinning = frames.live
  /\ Waiting(app) => app.spinning

\* What the user did not do leaves the selection on its node while that shows,
\* whatever comes and goes around it, and else takes it up to an ancestor.  Only
\* under a filter can nothing at all show: the node is then forgotten, and what
\* shows next is selected from the top, the connection.
SelectionFollows(before, after) ==
  IF Rows(after) = <<>> THEN after.filtering /\ after.key = NoKey
  ELSE IF before.key = NoKey THEN after.key = ConnectionRow
  ELSE IF Contains(Rows(after), before.key) THEN after.key = before.key
  ELSE Contains(Line(before.key), after.key)
SelectionStays == [][ops' = ops => SelectionFollows(app, app')]_browseVars

\* Answers come and the tree comes to rest: every load ends, and the spinner.
TreeComesToRest == []<>(~app.spinning)
=============================================================================
