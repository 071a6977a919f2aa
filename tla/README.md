# Formal models of qry

qry is a SQL client for the terminal. It is one event loop around a pure
reducer (`State`, `App::handle`), with one task per open session that owns a
database connection, and a few short tasks that read and write files. The
reducer sees one event at a time; everything hard in it comes from *when*
the events arrive: answers of statements that were cancelled meanwhile, commands
still in a channel when the session they belong to is closed, a stream that is
kept for one result and closed by the next.

These modules model that core: the registry of jobs, the workers and their
channels, the reducer's side of running SQL, the sessions and confirms around
it; and around the core the schema browser, saved connections and their
passwords, exports, the history and snippet files, timers and key sequences,
the readers of rows, the SQL lexer and outline, the results grid and the
palette. Paths below are relative to `src/crates/qry/src` unless they say
`core/`, for `src/crates/qry-core/src`.

## The system

| part | state | operations | talks to | what makes it correct |
|---|---|---|---|---|
| jobs registry (`core/jobs.rs`) | jobs in id order; last id | enqueue, start, progress, finish, fail, cancel, close_session, trim | called by the reducer | one running job per session, finished jobs are final and bounded, open ones never trimmed |
| running SQL (`app/reducer/run.rs`, `db.rs`, `jobs.rs`) | per session: queue, in-flight statement, running count, transaction guess, cursor, tabs, what the prod confirm holds | run, load more, fetch all, cancel, drop, toggle autocommit, and every answer | registry, workers (effects and answers), confirms | one statement outstanding; results in order; a cancelled result is dropped; the drawer, the queue and the worker agree |
| sessions (`app/state.rs`, `app/reducer/sessions.rs`) | the open sessions, the active one, per-session state | open, switch, reconnect, close | session manager (effects) | closing forgets everything of the session; the last one leaves a scratch |
| database worker (`db.rs`, `core/shared.rs`) | connection, kept cursor, cancel slot | Connect, Query, QueryAll, FetchMore, SetAutocommit, Export, LoadSchema | its channel, the server, the shared answers channel | commands in order, each answered; the stream closed before the connection is used |
| session manager and loop (`sessions.rs`, `runtime.rs`) | the senders and cancel slots; event channels | send, cancel, close; select over terminal, answers, events | all | an unreachable worker is reported; nobody hears a closed session |
| modals (`app/dialogs`, `app/reducer/dialogs.rs`) | the open modal, what it waits for, queued password prompts | open, submit, close, answer | sessions, run, files | what a modal holds goes with it; a prompt that was asked for is shown |
| export (`app/reducer/export.rs`, `core/exporter.rs`) | form, probe; a temporary file | submit, quick, answers; create, write, commit | run, worker, files | a half-written file never replaces one |
| schema tree (`core/schema.rs`, `app/schematree.rs`, `app/reducer/tree.rs`) | per session a cache of nodes with generations | expand, refresh, begin, finish, invalidate, clear | worker | a late answer never overwrites a newer one; a node does not load for ever |
| saved connections, snippets (`connections.rs`, `core/snippets.rs`, `runtime.rs`) | lists in memory and on disk | load, add, edit, delete, save | blocking tasks | the file ends as the last list |
| query history (`core/history.rs`, `history_store.rs`) | entries in memory and in a store | load, record, delete, prune | blocking tasks | no entry lost or doubled; the limit |
| secrets (`secrets.rs`, password form) | a stash of typed passwords, the keychain | stash, take, ask, forget | worker, modals | a typed password is used for the attempt it was typed for |
| keys, timers, toasts (`app/reducer/keys.rs`, `keymap.rs`, `notice.rs`) | half-typed sequence, toasts, timers | key, timer, dismiss | event loop | an old timer does nothing to a newer sequence; every wait has a timer |
| connection dialog (`app/dialogs/conndialog.rs`, `connspec.rs`) | the fields of every driver, shown or hidden | edit, switch driver, validate, build | saved connections | the record it builds can be edited without loss, and a driver refuses it only for what its rows show |
| palette (`app/palette`, `app/reducer/palette.rs`) | the items gathered when it opened, query, recents | open, type, fill in, pick | sessions, snippets, tree | it does what the line said |
| results grid (`core/grid.rs`, `app/reducer/results.rs`), column count of the inspector | rows, order, selection, search, count | show, append, sort, search, copy | run | the grid shows each row once whatever the sort; the selection stays on its row |
| SQL lexer, splitter and outline (`core/sql`) | tokens and statements of an editor | lex, split, update | editor, run | the outline kept edit by edit is that of the text |
| drivers (`core/postgres.rs` ...) | a connection, a stream | query, stream, cancel | the server | every row once, whatever the limit and the batches |
| editor, help, views, theme, config, import, docs | local | local | the reducer | no interleaving of their own |

The hard behaviours, each at its line, are the `hazards` of `PROJECT.json`; one without
properties has a note that says why.

## The modules

The core, composed:

- **JobRegistry**: the registry as data, a function from ids to records, and
  what each call of `Jobs` makes of it. The code's deque is in id order, so the
  function loses nothing.
- **Jobs**: the registry as a component: any caller, any call, any order, with
  ids that may have ended or been trimmed. **JobsProofs** proves about it.
- **Worker**: both ends of the channels and the worker task. `Take` begins a
  command (and closes the kept stream, `Worker::run`), `EndCommand` is one of
  the things it may come to; only then are its answers sent, all at once.
  `CancelFires` is the cancel's own task, `Die` a panic.
- **QueryRun** extends Worker and instantiates JobRegistry: the whole of
  running SQL. One action is one event of the reducer with every effect it has.
  `Pump` is the tail most handlers share (`pump`, with `quit_if_idle` in it).
  Its proofs are in three modules, each on top of the last: **QueryRunProofs**
  (types; registry and sessions agree), **AnswersProofs** (one statement out per
  session) and **LineProofs** (the refinement; the tabs and their streams).
- **StatementLine**: what all this promises, without workers, channels or a
  registry: one line of statements per session, of which only the first may be
  answered or shown. `MCQueryRun!ImplementsLine` is the refinement, with the
  line read off as the statement in flight and the queue behind it.
  **StatementLineProofs** proves what the promise is worth.
- **QueryClaims**: what a comment, message or doc says and the code does not do.

The schema browser, composed of three:

- **SchemaCache**: what a session has loaded (`core/schema.rs`): a generation
  per load, an entry per path, and what beginning, finishing, failing,
  invalidating and clearing do to it.
- **SchemaTree**: the rows that show (`app/schematree.rs`), from a cache, the
  open nodes, the filter and the choice to show system objects; and how the
  selection finds its row again.
- **SchemaBrowser**: the reducer's side (`app/reducer/tree.rs`), the sessions on
  the connection, each with its cache, worker and channels, DDL that changes
  what the server holds while loads are on their way, reconnects, describes, the
  filter and the spinner's frames. Every handler ends with `tree::after`, which
  asks for whatever is open and not known. **SchemaBrowserProofs** proves about it.

The parts that share no state with each other, composed side by side by `MCParts`:

- **Connections**: saved connections and passwords. A handler is an operator from
  one state of the reducer to the next with the effects it pushed in `fx`, as
  the code has it, and `Execute` carries those out on `world`: workers, the
  stash and the keychain, connection tests, saves of the file as tasks of their
  own (each a write of a temporary file and a rename), imports, backups, crashes.
- **ConnForm**: the dialog's form by itself, field by field for the four drivers:
  which rows show, what is wrong with them, the record built and read back.
- **Export**: dialog, probe of the path, both confirms, quick export, and the
  worker's check, temporary file and rename, with failures and the app killed.
  **ExportProofs** proves about it.
- **History**: memory, dialog and recall; the file with appends, rewrites and the
  compaction as tasks under a lock; half-written lines; a crash and the next start.
- **Snippets**: the list, the one the editor holds, the file and its saves.
- **Timers**: sequences of keys, toasts, the spinner; timers that cannot be
  called back and run out in any order. **PartsProofs** proves about them, about
  Snippets, ConnForm and RowStream.
- **RowStream**: how each driver reads rows, with a limit at once or as a stream
  of batches, and the `Cursor` of the worker that cuts it into answers.
- **SqlText**, **Outline**: the lexer and the splitter as operators, in all
  dialects; the outline that is kept up to date edit by edit. A text is a
  sequence of the characters, or words, that the lexer tells apart.
- **Grid**: order, selection, search with its budget, the count of a column, and
  what is copied, with rows loaded meanwhile.
- **Palette**: the fuzzy match, the items and their order, the query, filling in
  commands, picking, and what workers and files answer meanwhile.

`MCParts` chooses one part at the start and lets the others rest, so a run of it
is a run of each part and nothing is multiplied: they share no state to
interact by. Where two components do (queue, registry and worker; cache, tree,
sessions and workers; reducer, stash and keychain), they are one specification.

### State and code

| model | code |
|---|---|
| `session[s].queue`, `inFlight`, `running`, `txChanges` | `SessionState.queue`, `in_flight`, `running`, `tx_changes` |
| `inTx`, `autocommit` | `in_transaction`, `autocommit` |
| `cursor`, `cursorKept`, `tabs`, `tabsMade` | `cursor` (0 is `None`), `cursor_kept`, `tabs`, the tab counter |
| `held`, `confirmed`, `prod` | `held`, `writes_confirmed`, `label == Some(Prod)` |
| `jobs`, `made` | `State.jobs` |
| `dialog`, `quitWhenIdle`, `quit` | the confirm on screen, `quit_when_idle`, `Effect::Quit` |
| `cmds[s]`, `answers[s]`, `stopping[s]` | the worker's channel; its part of the answers channel; `WorkerStopped` on the events channel |
| `current[s]`, `early[s]`, `stream[s]`, `conn[s]` | the command in `Worker::run`, the `CursorClosed` it has to send, `Worker.cursor`, the connection with the server's own view of the transaction |
| `cancels` | the spawned cancel tasks |

For the schema browser and the parts:

| model | code |
|---|---|
| `SchemaBrowser!app` | `State`: `sessions` (each with its `SchemaCache`), `tree` (open, filter, key), the spinner |
| `inbox`, `outbox`, `frames` | the worker's channel, its answers, `Timer::Tree` |
| `Connections!app.nodes`, `tabs`, `modal`, `awaiting`, `prompts` | the tree's connections (`unsaved` too), session tabs, the modal, `dialogs.awaiting`, the queued password prompts |
| `world.stash`, `keychain`, `worker`, `tests`, `saves`, `disk` | `Secrets`, the OS keychain, each worker's attempt, spawned tests, blocking saves, the file with its temporary ones |
| `Export!tabs`, `modal`, `awaitingExport`, `probes`, `writer`, `files`, `temps` | result tabs, dialog or confirm, `Awaiting::Export`, spawned `export_exists` looks, the export a worker runs, the file system |
| `History!book`, `disk`, `tasks`, `dialog`, `editor` | `History` and `HistoryState`, the file and its lock, blocking tasks, the dialog, recall |
| `Snippets!snippets`, `editing`, `snipDialog`, `snipDisk` | `Snippets`, the editor's snippet, the modal, the file and saves |
| `Timers!pendingKeys`, `toasts`, `generation`, `timers` | `keys.pending`, `Notices`, its generation, spawned timers by number |
| `RowStream!stream`, `channel`, `cursor` | what the driver's task sends, its channel of one, `db::Cursor` |
| `Outline!outline` | `sql::Outline` |
| `Grid!grid` | `ResultsState` with `GridState`, `Search`, `Profile` |
| `Palette!palette`, `recent` | `PaletteState`, `State.recent` |

In the core, the answers of different sessions are independent, so the one answers channel
is a sequence per session; WorkerStopped is on another channel and may overtake
or be overtaken. Ghosts: the job a tab shows (`Tab.job`), the job on commands
and answers that carry none in the code, and `stopped`, the jobs cancelled while
they ran.

A statement is one of four kinds, `select`, `update`, `begin`, `commit` (a
rollback too): what `is_read_only`, `streams` and `tx_change` tell apart. A row
is the job that read it and its place in the stream, so a row in the wrong tab
or a gap can be seen.

## The runs

| run | question | instance | states |
|---|---|---|---|
| `one_session` | all a user does with statements on one session | 3 jobs, 1 command past the queue, pages of 1 row, streams of up to 3, 2 tabs kept | 120 000 |
| `sessions_come_and_go` | open, reconnect, close, quit around running statements | 2 session ids, 2 jobs | 636 000 |
| `one_connection` | transactions, failures of each step, dying workers | 1 session, 3 jobs, 2 direct commands, 1 finished job kept | 801 000 |
| `everything_ends` | liveness, with `FairSpec` | 2 sessions, 3 jobs | 55 000 |
| `schema_browser` | the tree, its caches and loads; liveness too | 2 sessions, a catalog with a table, a view and a table that DDL makes and drops, and one of the system; 5 kinds of users with 4 to 6 operations | 66 000 |
| `parts` | each part that stands by itself | see below | 1 300 000 |

*What they show.* `OneOutstanding`: on the channels of a session there is at
most the statement in flight. `DrawerAgrees`: registry and queues say the same
at every moment, also when a session goes, its worker dies or a run is dropped.
`SentAreRunning`: nothing that was dropped is ever sent. `TabsShowTheirOwnRows`
and `OfferedStreamIsKept`: loading on reads the stream right after the tab's
last row, while the user waits for idle before asking. `OpenTransactionIsShown`:
qry's guess errs only to the safe side: with autocommit off and a failed
begin, a failed commit that ended the transaction, a cancelled statement that
succeeded, it may show a transaction too many and never one too few.
`ProdWritesAreConfirmed` and `HeldAwaitAConfirm`: the prod confirm guards every
write and nothing outlives it. `ImplementsLine`: all of it is one line per
session. `EveryJobEnds`, `QuitsOnceIdle`: everything ends.

`schema_browser`: `LoadsAreAwaited`: no node waits for an answer that will not
come, or for two. `ChildrenAreNewer`: an answer for the parents takes all below
with it, so no list of children is older than that of their parents.
`TreeIsFresh`: nothing shown was read before the session's last DDL was
answered, in spite of answers that were on their way then. `SelectionStays`: what
the user did not do leaves the selection on its node while that shows, and else
takes it up to an ancestor; a filter that leaves no row makes it nothing, and it
comes back on the connection. `OneSpinner`: one frame is scheduled, and only while something waits.
`TreeComesToRest`: all of that ends.

`parts`, by part:

| part | instance | what its properties show |
|---|---|---|
| registry | 2 sessions, 3 jobs, 1 finished kept | `OneRunning`, `FinishedForGood`, `OpenNeverTrimmed`, and `CloseIsOneByOne`: ending jobs one by one with a trim after each is what the registry says closing does |
| history | 3 statements, 2 of them alike; 2 kept; users who record until a crash, delete, search and recall | `HistoryReadsBack`: with nothing being written, the file reads back as the history in memory |
| export | 2 sessions, 2 files, 2 batches; one fills in the dialog while a write ends, one exports at once from both sessions, one does both | `TargetsAreWhole`: a target is what was there or a whole export, whatever fails or is killed; `ReplacedIfAgreed`: a file that stood there goes only if the user agreed to that file |
| rows | 4 drivers, up to 7 rows, batches and limits of 0 to 4 | `ReadsAreWhole`: the answers hold each row once, and say there is more exactly when there is |
| connections | 2 connections, 4 sessions, 4 kinds of users | `PasswordsStayWithTheirConnection`, `PromptsAreForOpenSessions`, `ModalWaitsAsShown`, `TestShownIsTheLatest`, `WhatWorksIsOnFile` |
| form | 6 edits, all drivers | `FormsBuildRecords`: built, opened for editing and built again is the same record; a valid form makes a configuration, with a mode its engine offers; what the driver then refuses is what its rows ask for, never a text of a hidden row |
| snippets | 2 names that differ in case, 2 scopes, 4 operations | `SnippetsStayThemselves`: what the editor holds is in the list under any renames, and the list on file |
| timers | 3 keys with 1 to 3 to a sequence, 4 presses, 2 toasts kept | `EveryWaitHasItsTimer`, `StaleTimersChangeNothing` |
| outline | 7 typists with 5 characters each, 4 or 5 of them typed, put in and taken out anywhere | `OutlineIsOfTheText`: kept edit by edit, it is what lexing and splitting the text gives; its tokens tile it |
| grid | 3 rows and batches of more; 6 keys | `GridIsOfItsRows`: order, selection, matches, count and copies are of the rows there are |
| palette | 4 kinds of users with 4 to 7 keys; 10 recents kept as in the code | `PaletteRunsWhatItSays`: the list is what matches, the line picked does what it said |

*Bounds and why they are enough.* Three jobs are one in flight, one waiting and
one enqueued between two answers of theirs: no handler looks at more than the
head of the queue, the queue as a whole, and one kept cursor. Two tabs with
three results make the oldest go. Streams of three pages are read to the end, in
the middle and not at all. One finished job kept of three
(in `one_connection` and the registry's part) puts the trim in the middle of everything; where it is not the
question, more are kept than are made. One command past the queue is enough to
have a statement wait in a channel, two to find a dead worker and reconnect. In
the browser and the parts the bound is what a user still may do (`left`), and there are kinds of users, each
with a set of operations (`may`): what interacts is in one user's set, what does
not is not multiplied. Each set was chosen so that the hazard it is for is reached
with operations to spare: every property of `parts` and `schema_browser` is violated
by a plausible bug (`mutants`) within the same bounds. Seven rows with batches of
up to three put a limit before, on and after every batch's end. Two sessions are
enough for a password, a prompt or a tab to be of the other one; two connections
for a password to be for the other.

All bounds are the constants marked "bound" in the modules: `MaxMade`, `MaxJobs`,
`MaxDirect`, `MaxStream`, `UserOps`, `Runs`, `Patient`, `Users`, `BrowseSessions`,
`Needles`, `ConnSessions`, `ConnUsers`, `Edits`, `HistUsers`, `InFlight`, `Results`,
`ExpUsers`, `SnipLeft`, `Presses`, `Comings`, `MostRows`, `FetchSizes`, `Limits`,
`Editors`, `GridUsers`, `PalUsers`, and the number of session ids. One constraint
stops exploring: `WritesApart` in `parts` follows a behaviour no further once two
writes of the history or the snippet file overlapped, as the two properties about
these files say nothing of what comes then ("Where the code disagrees"). Closing the last
session needs an id for the fresh scratch; with none left it is not offered.

*Deadlock* is not checked: when the user has used up the bounds, or has quit,
nothing moves on.

*Fairness* (`FairSpec`): weak fairness of the worker's steps of each session
(tokio runs a task that has a command, and the server answers in the end), of
handling each session's answers, and of WorkerStopped (`select!` in
`Runtime::run` takes from its channels at random, so none starves). Nothing is
assumed of the user or of cancels. Workers do not panic in that run: after a
panic the code does nothing until another command is sent. `BrowseFairness` in
`schema_browser` is the same for the workers' loads, the handling of their
answers, and the spinner's timer; nothing is assumed of the user.

*Violations.* Each run of `QueryClaims` checks one sentence of the repository
and shows the shortest way in which the code does not keep it:

- `wrong_stream`: run A is in flight, run B is enqueued behind it (which clears
  `cursor`), A's answer sets `cursor` again and sends B. `L` on A's tab is now
  offered; its `FetchMore` reads on in B's stream and appends B's rows to A's tab.
- `trimmed_away`: a statement is cancelled, enough other jobs end to trim its
  registry entry, and its late result is shown in a tab. Two sessions and one
  finished job kept show it; the code keeps 50.
- `closed_write`: the confirm says that closing cancels the query; only an
  export is cancelled, an `UPDATE` takes effect.
- `relabelled`: a write waits in the queue, the session reconnects to its record
  that was edited to `prod`, and the write runs there unasked.
- `never_quits`: quitting waits for two rollbacks, the last busy session is
  closed, and nobody looks again whether all are idle.
- `reruns_unasked` (MCExport): the export dialog is opened on a `SELECT`, a
  write's result comes meanwhile and its tab becomes the active one; Enter asks
  nothing, as the subject of the dialog only reads, and runs the write again.

## Where the code disagrees

The violation runs are above. Further disagreements met while modelling have no
run of their own: those of the core were confirmed with TLC on the same modules,
and the others are left out of a property by a named condition (`calm`,
`snipCalm`, `world.spoiled`, `misled`, `moved`, `panicked`), or follow from the
lines quoted.

*Core.* A cancel carried out late stops the next statement (sessions.rs:92), one
carried out before its statement left the worker's channel stops nothing; a worker
that was let go takes all commands in its channel first (sessions.rs:98 says it
"finishes the command it is running, if any, then ends"); a failure drops later
runs too (run.rs:632: "the rest of the run"); an answer overtaken by WorkerStopped
makes a tab of no statement (run.rs:700: "answers nothing more").

*Export.* The answer the dialog waits for is matched by its session alone
(reducer/export.rs, `answer`): one to an earlier export, cancelled or sent by the palette, is
taken for it. If that one found its file there, the dialog asks to replace the earlier
file, and a yes replaces the one the form names now (`misled`). So does a yes that was
asked for one path while the form had taken on another. An attempt to prove
`ReplacedIfAgreed` found the first of these; the run had not reached it. Two exports to one path each check before either
renames, so the second replaces the first unasked.

*Schema.* DDL clears the cache of its own session only; a cancelled DDL that
finished on the server all the same returns before `schema.clear()` (run.rs:523);
after a failed first load of the catalogs the session's own catalog is never
opened (tree.rs, `schema_loaded`); a worker that dies with a load in flight leaves
its node loading. A filter that leaves no row, since it matches nothing or since DDL or
`R` cleared what it matched, makes the program forget the selected node
(tree.rs:483-489): when rows come back, the selection is on the first, not on its node. If
`/` is pressed again before that, Esc has nothing to go back to, though
the comment on `clear_filter` says that it goes back (tree.rs:428).

*Connections.* A password that was typed again after a failure is never stored
(db.rs:361-367). Failing to connect to a connection that was edited takes it out of the tree
(tree.rs:689, where the comment says "a saved one stays") and, at the next save, out of
the file; and a new one that is still connecting is written by any
other save. `import_selected` and closing a session close the modal without the
next password prompt coming up; Esc on a prompt leaves its session connecting; the
preview of an import replaces any modal. A password stored after it was forgotten
stays in the keychain. Overlapping saves share one temporary file; a malformed
file is replaced by the next save. The dialog's test note stays after the form was
changed, and a record with a DSN validates where the driver does not open it.
Valid is not accepted: the dialog offers `require`, `verify-ca` and `verify-full` on every
engine with a server (connspec.rs:172-187), and Postgres, MySQL and MariaDB refuse all three when
they connect (postgres.rs:98, mysql.rs:72, mariadb.rs:71, by shared.rs:35-40); and
for Oracle it shows the wallet at `allow` and `prefer`, where a wallet is refused
(oracle.rs:103-111). `FormsBuildRecords` says that these, `Refused`, are the only refusals
left and that each is about rows the form shows. Not in it: `OracleConfig::check`
also refuses a host over TLS that no certificate can name; the hosts here are names
one can.

*History.* Reading the file keeps `DEFAULT_CAP` entries whatever `max_entries`
says; a statement recorded before the file is read is pushed again behind it; a
deletion or compaction before that writes what there is and loses the file; a
rewrite that finds the lock taken is dropped, a deletion's too (history_store.rs:192), and appends
around a rewrite are lost or doubled; the line after half a line is lost with it.
The dialog's rows name entries by place and are not gathered again when a
statement is recorded: at the limit all places shift, and ctrl-d deletes another
entry than the one shown (reducer/history.rs:280).

*Snippets.* One saved before the file is read overwrites it, and overlapping saves
share one temporary file.

*Grid.* Sorting a result without columns panics (`panicked` in Grid): the sorted
column's name is looked up (results.rs:191), where src/tasks/T303-results-grid.md:147
has "Zero columns: the DML view." The next match is
looked for in the order of the data, even under a sort.

*Palette.* Snippets and sessions are picked by their place (palette.rs:58, 99): if
the snippets were read or a session closed while the palette was open, another
line runs (`moved`). An action picked while a password prompt came up underneath
replaces that prompt.

*Keys.* A half-typed sequence is not cleared by a dialog that opens by itself: the
next key goes on with it there.

*SQL.* `is_read_only` takes `EXPLAIN ANALYZE DELETE`, and a `SELECT` of a function
that writes, for reads.

## What is proved

The theorems hold for all values of the constants: any sessions, any runs, any
bounds, any number kept. Their assumptions are those named in the modules, which
the runs evaluate (sets of users finite or their bounds naturals, `FinishedKept \in Nat`,
`Sessions` finite, at least one format and one batch, rows, batches and limits naturals, the
four backends, no snippet without a name), and, where stated, the hypotheses of the theorem.

| theorem | run's property | in words |
|---|---|---|
| `JobsProofs!RegistryInvariant` | `OneRunning` | the registry is typed, runs one job per session, keeps a bounded number of finished ones |
| `JobsProofs!FinishedJobsAreFinal` | `FinishedForGood` | no call changes a finished job but to drop it |
| `QueryRunProofs!TypesHold` | `TypeOK` | sessions, tabs, jobs, commands and answers stay what they are declared to be |
| `QueryRunProofs!DrawerIsRight` | `DrawerAgrees` | registry and sessions agree at every moment |
| `QueryRunProofs!OnlyRunningIsSent` | `SentAreRunning` | what is sent to a worker is running in the drawer |
| `AnswersProofs!HeldIsAskedFor` | `HeldAwaitAConfirm` | what the prod confirm holds can still be confirmed |
| `AnswersProofs!OneIsOut` | `OneOutstanding` | a session has its statement in flight out once, and no other |
| `AnswersProofs!TransactionStaysShown` | `OpenTransactionIsShown` | an open session at rest shows the transaction its connection has |
| `StatementLineProofs!ResultsInOrder`, `OneLineEach` | | what the promise is worth: results in order; no statement in two lines |
| `LineProofs!KeepsThePromise`, `CancelsAreRemembered`, `ImplementsThePromise` | `ImplementsLine` | QueryRun implements StatementLine |
| `LineProofs!ShowsInOrder` | | so its tabs are in the order the statements were run |
| `LineProofs!TabsStayTheirOwn` | `TabsShowTheirOwnRows` | every tab shows its statement's rows, from the first on |
| `LineProofs!OffersStayKept` | `OfferedStreamIsKept` | at rest, what offers to load on has its stream |
| `SchemaBrowserProofs!LoadsStayAwaited` | `LoadsAreAwaited` | what shows as loading will be answered |
| `SchemaBrowserProofs!ChildrenStayNewer` | `ChildrenAreNewer` | what is below a list is newer than the list |
| `SchemaBrowserProofs!TreeStaysFresh` | `TreeIsFresh` | what was read before a change of the schema is read again |
| `SchemaBrowserProofs!SpinnerStaysOne` | `OneSpinner` | one spinner turns, and while anything waits |
| `SchemaBrowserProofs!SelectionAlwaysStays` | `SelectionStays` | no answer moves the selection off its node while that shows; else it goes up, or off a tree that a filter leaves empty |
| `SchemaBrowserProofs!BrowserIsSound` | | the inductive invariant the five rest on |
| `PartsProofs!WaitsEnd` | `EveryWaitHasItsTimer` | every wait has a timer that ends it |
| `PartsProofs!OldTimersEndNothing` | `StaleTimersChangeNothing` | no timer ends a later wait |
| `PartsProofs!SnippetsAlwaysStay` | `SnippetsStayThemselves` | the snippet an editor holds is in the list, the list on file |
| `PartsProofs!FormsAlwaysBuild` | `FormsBuildRecords` | what the dialog builds survives being edited, makes a configuration, and is refused only for what shows |
| `PartsProofs!ReadsStayWhole` | `ReadsAreWhole` | the answers hold a statement's rows, each once and in order |
| `ExportProofs!FilesAreWhole` | `TargetsAreWhole` | a target is what was there or a whole export |
| `ExportProofs!OnlyAgreedIsReplaced` | `ReplacedIfAgreed` | a file goes only if the user agreed to that file |

*The registry.* The invariant is inductive as it stands, but needs the registry's
domain to be finite, which `TypeOK` gives. The heart is the lemma on `Trim`: among
the finished jobs kept each has fewer than `FinishedKept` after it, so the least of
them bounds the number of all.

*Running SQL*, six invariants. Each of the first three is a hypothesis of the next, the
last three rest on all of them.

- `Typed` adds to `TypeOK` the types of the channels: what a session shows it took
  from an answer, and what it sends it made of a job.
- `Agreed` says of each session that its part of the registry is its queue, in
  ascending ids behind what is in flight, and that what it has running there is in
  flight and was not cancelled. `DrawerAgrees` by itself does not carry over a step:
  no id in it may be above the last one made, or a new job could take it; no
  queued job may have been cancelled while it ran, nor be open in another session; nothing
  may wait where nothing is in flight; and what a confirm is about must be live.
- `Answering` says where the statement in flight is: one command, the command being run, or one
  answer, in that order, with everything ahead of it on the channel answering
  nothing. `OneOutstanding` counts, and counting is not inductive: an answer taken for that of
  another statement would make both wrong at once. It is stated for
  workers that are alive; what a dead one leaves behind is `Aside`.
- `TxInv` says of a session not what it shows but what it will show once the answers
  on their way are heard (`Latched`: the last of them that turns a flag decides it):
  that must be the transaction its connection has now. A worker that ends a command
  changes the two together, and an answer that is heard changes neither. It speaks of
  sessions no connection is on its way to, since connecting leaves
  the old transaction behind and its answer says so later. Four things make it
  inductive: what is counted in `txChanges` is the change of the one statement in
  flight (`Answering`), so an answer heard never takes the change of another; an
  export run again is of a read, so it ends no transaction unseen (`ItemsSound`);
  what a worker tells early is only of its stream; and a dead worker has no
  connection.
- `Ready` adds what the line of StatementLine needs: ids that rise through tabs, flight
  and queue, no statement in two lines, a session that is not open blank. Each
  action of QueryRun is then an action of the promise or a stutter: most handlers
  are `Settles`, one statement leaving the line and perhaps the head shown.

- `TabInv` speaks of a session's tabs together with what the session has yet to hear
  (`Unheard`: the answers sent, then those its running command gives early) and with
  the stream its worker keeps. Neither property is inductive: an answer that is late
  can turn the offer of a stream on, or off, or add rows, when the worker has long
  gone on to something else. So it says what each of them is worth when it is heard.
  The rows of an answer are its statement's, from the first on. A read that says it
  has more (`Offering`), and rows read on that have more, stand where the worker's stream stands, or
  it will be heard after them that the stream is gone (`Serves`). The tab that can
  load on (`Offered`) stands where the stream does, or will hear that it is gone.
  The tab that is loading on (`Awaits`, `Continues`) has no stream or its own before
  its rows are read, and gets its own next rows after. And where a session hears last
  that its stream is gone, it is (`Streaming`). `Sendable` beside it says that all that
  waits on the channels is a command. Before they were proved TLC checked both on the
  instance of `one_session`, with a user who also reconnects, closes and quits.

`TabInv` has two hypotheses. `Patient`, the user waits for an idle session to run more
on it: without it an answer can offer a stream that a run enqueued meanwhile has
replaced, and `wrong_stream` shows the rows of one statement in the tab of another.
Runs of several statements, loads, drops and cancels while busy, and other sessions
are not restricted. A load is then asked of an idle session only, so none waits in a
queue behind a read that takes its stream (`Plain`). And `Panics = FALSE`, as a session
that was given up with its worker still hears what that worker answered, and shows
it in a tab of no statement. Both are the constants of `one_session`.

The refinement has two hypotheses, and both are needed. With `Panics = TRUE` a session
may be given up with its worker while answers of it are still to come, and such an
answer is shown in a tab of no statement ("Where the code disagrees", overtaken by WorkerStopped). And
the registry must remember that the statement in flight was cancelled
(`Remembered`): `trimmed_away` shows that it may not. `CancelsAreRemembered` shows that
it does as long as `MaxJobs <= FinishedKept`, which is what the run of
`ImplementsLine` has.

*The schema browser.* None of the five properties is inductive, since a cache alone
does not say what its answers will do to it. `BrowseInv` therefore speaks of a cache
together with its way: the answers that wait in the session's `outbox` followed by
the commands in its `inbox`, which are handled in that order. Along it (`Good`):

- the loads are numbered upwards and none is above the cache's generation
  (`Numbered`), so an answer that is not the one awaited is of an overtaken load;
- every entry that loads has the load with its number there (`Awaits`); with
  `Numbered` it is the only one;
- what is loaded or loading below a loaded list has a higher number than the list
  (`Newer`), which `finish` needs, as it drops what is below and a load that
  comes later could bring an older child;
- what is loaded was read since the session last heard of a change (`ReadSince`),
  and the answers on the way are in the order they were read.

Beside this, tabs and sessions agree (`AppOK`, whence the schema session is one of the
sessions), and a session that was never opened has nothing on its way
(`UnopenedIsQuiet`), so that a new one starts empty. Beginning, finishing,
invalidating and clearing each have a lemma on one cache, and one lemma, `AfterIs`, says
what `tree::after` does behind every handler; each event is then one application of
these. For the selection the invariant has one part more, `SelectionOK`: the selection
is on a row that shows, or on nothing, and that only while a filter leaves no row. `Find` goes up
`Line`, whose last is the connection; every row is of a node (`IsRows`), the first is the
connection's, and that one always shows without a filter (`FlattenShape`).

*Timers.* A timer is told by its number. So `WaitsTimed` says that no timer has a number
still to be given out, and that the one of a half-typed sequence was started with
the last key looked up. Notices and the spinner need less: a timer of theirs that
runs out too early is not theirs by its number, and theirs starts the next one.

*Snippets.* `SnippetsFit` says, while no save overlaps another or the load, that until
the file was read there is nothing but the file, and that from then on the list is
on file or is the one being saved. Without that a list read late could bring a second
snippet of one name. The theorem starts from files that have no two snippets of
one name in a scope; a file edited by hand may (`from_json` does not look), and then
the list has them too.

*The connection dialog.* What a list offers depends on the engine, and a record keeps only
what is not a default. So the invariant, `Fits`, is that a value chosen from a list is
on the list of the engine the form is on; `Switch` and `Editing` keep it. Then each
text is followed through `Build`, `Editing` and `Build` (`TextKept`), and the password by
itself (`SecretKept`). That a valid form makes a configuration, and that a driver
refuses it just for what shows, are then read off its texts: `SslBuilt` has what `Build`
stores of the mode, which is the one the form shows. The number of changes is any; a text is one of those the
actions type.

*Exports.* A writer takes all that came, of a query that ended well, into a temporary
file that is its own. For that the exports on their way must differ in their
numbers (`Apart`), a temporary file that is nobody's must have been left by a kill, and each
writer's must be one (`TempsOk`). For `ReplacedIfAgreed`, `Spared`: what stood where an export
without leave goes was gone when the worker looked, and does not come back, since
the numbers of files are none to be given out (`Numbers`); and a form with leave is
about the file the user agreed to (`FormOk`), through every edit of its fields.
What the proof found wrong, and now is the condition `misled`, is above.

*Rows.* After each read, what the cursor carries over goes on right after the last
answer, and what is on its way flows on from there (`Reading`): perhaps the columns, then
batches whose last rows are a growing list of numbers that ends at the statement's
last row, unless it fails (`Flows`). So neither the batches nor the answers have to be
joined, which would be an induction: each answer is told by the row it goes on
after and by its length (`AnswerFits`). That every driver's stream flows (`StreamedFlows`)
is division with remainder: full batches, then the rest.

*What stays with TLC, and why.*

- Liveness (`EveryJobEnds`, `QuitsOnceIdle`, `TreeComesToRest`): out of the prover's
  reach.
- `OutlineIsOfTheText`, `GridIsOfItsRows`: their modules use RECURSIVE operators, of
  which tlapm proves nothing, and what they compute is an induction over data.
- `ProdWritesAreConfirmed` does not hold for every `UserOps`: a session that reconnects to a record
  relabelled `prod` runs what it had queued (`relabelled`). It is checked in
  `one_session`, whose user does not reconnect.
- `CloseIsOneByOne`, `PaletteRunsWhatItSays`, `HistoryReadsBack` and the properties of
  Connections: what their models compute by folds over a list (jobs ended, lines matched,
  lines of the file, effects carried out) has to be proved by induction over that list.

## Not modelled

- In the core: the mark of a failed statement in the editor, tab labels,
  notices, row counts and progress, the history entry of a statement, which
  session and tab is active (the user may act on any), the schema a statement
  invalidates (SchemaBrowser has that), modals that only wait, the refusal to
  cancel on Oracle, backends that do not stream, exporting or fetching again what
  is not a read (Export has that), passwords between `Connect` and its answer
  (Connections has them), quitting on a terminal too small to draw on, which asks
  nothing (keys.rs:35).
- In the parts: the text of exports, copies and files; merging the connection
  file into what was opened before it was read; the history dialog across all
  connections, and redacting passwords from recorded statements (a rewriting of text
  by patterns, of which no property here speaks); parsing key bindings and the
  mouse; which field of a dialog has the focus; tags and SQL of snippets; the
  category a palette query is also matched against.
- `is_read_only`, `is_ddl`, `tx_change` and `table_name` judge a statement by its
  words. The models have their outcome (four kinds of statements), not the judging.
- Completion, the text area (a library), help and messages, views, theme and
  terminal: drawing, or local to one key. Config, command line, logging and the
  parsing of imported formats: read once or pure conversions. Wire protocols,
  values' types and servers: external. The test doubles.

## Plan

Done: registry, running SQL, workers; the schema browser; connections and
passwords; export; history and snippet files; timers; row streams; the SQL text;
grid; palette. Proved: the registry, the core's types, drawer, channels,
transactions, tabs and streams, and refinement, the schema browser, timers, snippets,
the connection dialog, row streams, exports. What is left, in this order:

1. The files of History, if the prover learns induction over lists.
2. In the model: the judging of statements, completion.

Instances stay small enough for a run to take a few minutes. A new component that
shares state with another is composed with it; one that does not becomes a part.
