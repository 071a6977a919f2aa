----------------------------- MODULE Connections -----------------------------
(***************************************************************************)
(* Saved connections and their passwords: the connection dialog, the       *)
(* prompts, tests, imports and backups of the reducer                      *)
(* (reducer/connections.rs, dialogs.rs, tree.rs, files.rs), the workers'   *)
(* side of opening one (db.rs), the stash and the keychain (secrets.rs),   *)
(* and the tasks that write the connection file (connections.rs).          *)
(*                                                                         *)
(* `app` is the reducer's state; a handler returns the state it leaves     *)
(* with the effects it pushed in `fx`, and Execute carries those out on    *)
(* `world`: workers, stash, keychain, tasks and files.                     *)
(***************************************************************************)
EXTENDS Naturals, Sequences, SequencesExt, FiniteSetsExt

CONSTANTS
  ConnSessions,     \* ids of sessions
  ConnIds,          \* ids of connections, 1 saved at first, the others to be made
  ConnUsers         \* what one user does: [may |-> operations, left |-> how many (bound)]

VARIABLES app, world, user
connVars == <<app, world, user>>

Scratch == 0
NoPassword == [none |-> TRUE]
NoSession == 0

\* A typed password: for which connection the user typed it, and whether the
\* server takes it.
Typed(c) == {[for |-> c, good |-> g] : g \in BOOLEAN}

\* A record: its id, what it points at, where its password lives.
Record(c, at, secret) == [id |-> c, at |-> at, secret |-> secret]
ScratchRecord == Record(Scratch, "scratch", "none")
Ephemeral(r) == r.id = Scratch

NoModal == [kind |-> "none"]
NotAwaiting == <<"none">>
Connect(s) == <<"connect", s>>

-----------------------------------------------------------------------------
(* The reducer's state *)

Node(r, unsaved) == [rec |-> r, unsaved |-> unsaved]
NodesOf(a, c) == {i \in DOMAIN a.nodes : a.nodes[i].rec.id = c}
Position(a, c) == CHOOSE i \in NodesOf(a, c) : TRUE
Known(a, c) == NodesOf(a, c) # {}

TabOf(a, s) == CHOOSE i \in DOMAIN a.tabs : a.tabs[i].id = s
IsOpen(a, s) == \E i \in DOMAIN a.tabs : a.tabs[i].id = s
SetStatus(a, s, status) ==
  IF IsOpen(a, s) THEN [a EXCEPT !.tabs[TabOf(a, s)].status = status] ELSE a

Push(a, effect) == [a EXCEPT !.fx = Append(@, effect)]

\* The records worth writing: all but the scratch database's.
ToSave(a) ==
  LET kept == SelectSeq(a.nodes, LAMBDA n : ~Ephemeral(n.rec))
  IN  [i \in DOMAIN kept |-> kept[i].rec]
Save(a) == Push(a, [do |-> "save", list |-> ToSave(a)])

\* The session to use for connection c: the active one, else the first on it.
ForConnection(a, c) ==
  LET on == SelectSeq(a.tabs, LAMBDA t : t.conn = c)
  IN  IF on = <<>> THEN NoSession
      ELSE IF \E i \in DOMAIN on : on[i].id = a.active THEN a.active ELSE on[1].id

\* A mutant: the answer the old one waited for is still waited for.
OpenModalWaiting(a, modal) == [a EXCEPT !.modal = modal]

\* A modal takes the place of any other, and of what that one waited for.
OpenModal(a, modal) == [a EXCEPT !.modal = modal, !.awaiting = NotAwaiting]
CloseModal(a) == [a EXCEPT !.modal = NoModal]

PromptFor(request) ==
  [kind |-> "password", session |-> request.session, conn |-> request.conn, pending |-> FALSE]

\* The modal closes; a prompt that waited its turn comes up.
Close(a) ==
  LET closed == [CloseModal(a) EXCEPT !.awaiting = NotAwaiting]
  IN  IF a.prompts = <<>> THEN closed
      ELSE OpenModal([closed EXCEPT !.prompts = Tail(@)], PromptFor(Head(a.prompts)))

Done(a, answer) == IF a.awaiting = answer THEN Close(a) ELSE a
Failed(a, answer) ==
  IF a.awaiting # answer THEN a
  ELSE [a EXCEPT !.awaiting = NotAwaiting,
                 !.modal = IF @ = NoModal THEN @ ELSE [@ EXCEPT !.pending = FALSE]]

-----------------------------------------------------------------------------
(* Sessions *)

CanOpen(a) == a.nextSession \in ConnSessions
\* Bound: an id is left for the scratch that closing these sessions may open.
MayClose(a, on(_)) == CanOpen(a) \/ \E i \in DOMAIN a.tabs : ~on(a.tabs[i])

OpenSession(a, r) ==
  [Push(a, [do |-> "open", session |-> a.nextSession, rec |-> r])
     EXCEPT !.tabs = Append(@, [id |-> a.nextSession, conn |-> r.id, status |-> "connecting"]),
            !.active = a.nextSession, !.nextSession = @ + 1]

Reconnect(a, s, r) ==
  Push(SetStatus(a, s, "connecting"), [do |-> "connect", session |-> s, rec |-> r])

Switch(a, s) == [a EXCEPT !.active = s]

OpenOrSwitch(a, r) ==
  LET s == ForConnection(a, r.id)
  IN  IF s = NoSession THEN OpenSession(a, r)
      ELSE IF a.tabs[TabOf(a, s)].status = "failed" THEN Reconnect(Switch(a, s), s, r)
      ELSE Switch(a, s)

\* A mutant: the prompts of a closed session stay.
CloseSessionKeepingPrompts(a, s) ==
  IF ~IsOpen(a, s) THEN a
  ELSE LET i == TabOf(a, s)
           rest == RemoveAt(a.tabs, i)
           gone == [Push(a, [do |-> "close", session |-> s]) EXCEPT !.tabs = rest]
       IN  IF rest = <<>> THEN OpenSession(gone, ScratchRecord)
           ELSE IF a.active # s THEN gone
           ELSE [gone EXCEPT !.active = rest[IF i <= Len(rest) THEN i ELSE Len(rest)].id]

\* Session s closes: its prompts go with it, and the last one leaves a scratch.
CloseSession(a, s) ==
  IF ~IsOpen(a, s) THEN a
  ELSE LET i == TabOf(a, s)
           rest == RemoveAt(a.tabs, i)
           gone == [Push(a, [do |-> "close", session |-> s])
                      EXCEPT !.tabs = rest,
                             !.prompts = SelectSeq(@, LAMBDA p : p.session # s)]
           unasked == IF a.modal.kind = "password" /\ a.modal.session = s
                      THEN [CloseModal(gone) EXCEPT !.awaiting = NotAwaiting] ELSE gone
       IN  IF rest = <<>> THEN OpenSession(unasked, ScratchRecord)
           ELSE IF a.active # s THEN unasked
           ELSE [unasked EXCEPT !.active = rest[IF i <= Len(rest) THEN i ELSE Len(rest)].id]

-----------------------------------------------------------------------------
(* The tree's connections *)

\* The record about to be opened is remembered: a new one is added, an edited
\* one taken on; both are worth writing once they open.
Attempt(a, r) ==
  IF ~Known(a, r.id)
  THEN [a EXCEPT !.nodes = Append(@, Node(r, ~Ephemeral(r)))]
  ELSE LET i == Position(a, r.id)
           was == a.nodes[i].rec
           edited == [a EXCEPT !.nodes[i] = Node(r, ~Ephemeral(r))]
       IN  IF was = r THEN a
           ELSE IF was.secret = "keyring" /\ r.secret # "keyring"
           THEN Push(edited, [do |-> "forget", conn |-> r.id]) ELSE edited

ForgetNode(a, i) == [a EXCEPT !.nodes = RemoveAt(@, i)]

\* The dialog's connection opens: on the session that is on it, or on a new one.
ConnectTo(a, r) ==
  LET tried == Attempt(a, r)
      s == ForConnection(tried, r.id)
  IN  IF s = NoSession THEN OpenSession(tried, r) ELSE Reconnect(Switch(tried, s), s, r)

\* A mutant: what opened is not written.
ConnectedUnsaved(a, s) ==
  LET open == Done(SetStatus(a, s, "open"), Connect(s))
      c == a.tabs[TabOf(a, s)].conn
  IN  IF ~Known(a, c) THEN open ELSE [open EXCEPT !.nodes[Position(a, c)].unsaved = FALSE]

\* Session s is open: its connection works, so it is worth keeping.
Connected(a, s) ==
  LET open == Done(SetStatus(a, s, "open"), Connect(s))
      c == a.tabs[TabOf(a, s)].conn
  IN  IF ~Known(a, c) THEN open
      ELSE LET i == Position(a, c)
           IN  IF open.nodes[i].unsaved
               THEN Save([open EXCEPT !.nodes[i].unsaved = FALSE]) ELSE open

\* Session s could not connect: an entry that was never written goes.
ConnectFailed(a, s) ==
  LET failed == Failed(SetStatus(a, s, "failed"), Connect(s))
      c == a.tabs[TabOf(a, s)].conn
  IN  IF ~Known(a, c) THEN failed
      ELSE LET i == Position(a, c)
           IN  IF failed.nodes[i].unsaved THEN CloseSession(ForgetNode(failed, i), s)
               ELSE failed

\* The worker asks for a password; another session's open prompt goes first.
NeedPassword(a, s, c) ==
  LET request == [session |-> s, conn |-> c]
  IN  IF a.modal.kind = "password" /\ a.modal.session # s
      THEN [a EXCEPT !.prompts = Append(@, request)]
      ELSE OpenModal(a, PromptFor(request))

\* The keychain would not take it: the record says so, on file too.
SecretNotStored(a, c) ==
  IF ~Known(a, c) THEN a
  ELSE Save([a EXCEPT !.nodes[Position(a, c)].rec.secret = "prompt"])

Delete(a, c, forgetSecret) ==
  IF ~Known(a, c) THEN a
  ELSE LET i == Position(a, c)
           r == a.nodes[i].rec
           on == SelectSeq(a.tabs, LAMBDA t : t.conn = c)
           closed == FoldLeft(LAMBDA x, t : CloseSession(x, t.id), a, on)
           gone == ForgetNode(closed, i)
           unkept == IF forgetSecret /\ r.secret = "keyring"
                     THEN Push(gone, [do |-> "forget", conn |-> c]) ELSE gone
       IN  IF Ephemeral(r) THEN unkept ELSE Save(unkept)

-----------------------------------------------------------------------------
(* The modals *)

ConnDialog(c, edit, r) ==
  [kind |-> "connection", conn |-> c, edit |-> edit, was |-> r, pending |-> FALSE,
   test |-> "idle", number |-> 0, asked |-> r, shown |-> r]

\* What can be typed into the connection dialog: the record it builds and the
\* password beside it.  A keychain password left be keeps what it used.
Drafts(d) ==
  LET c == d.conn
      ats == IF d.edit THEN {d.was.at, "moved"} ELSE {"new"}
      left == IF d.edit /\ d.was.secret # "none" THEN {d.was.secret} ELSE {"prompt"}
  IN  {<<Record(c, at, x), NoPassword>> : at \in ats, x \in left}
      \cup {<<Record(c, at, x), p>> : at \in ats, x \in {"keyring", "prompt"}, p \in Typed(c)}

SubmitConnection(a, r, p) ==
  LET stashed == IF p = NoPassword THEN a
                 ELSE Push(a, [do |-> "stash", key |-> <<"open", r.id>>, password |-> p])
      tried == ConnectTo([stashed EXCEPT !.modal.pending = TRUE], r)
      s == ForConnection(tried, r.id)
  IN  [tried EXCEPT !.awaiting = Connect(s)]

SubmitPassword(a, p) ==
  LET m == a.modal
      stashed == Push(a, [do |-> "stash", key |-> <<"open", m.conn>>, password |-> p])
  IN  [Push(stashed, [do |-> "password", session |-> m.session])
         EXCEPT !.modal.pending = TRUE, !.awaiting = Connect(m.session)]

\* A mutant: each dialog counts its own tests.
StartTestOfDialog(a, r, p) ==
  IF r.secret = "prompt" /\ p = NoPassword THEN [a EXCEPT !.modal.test = "failed"]
  ELSE LET n == a.modal.number + 1
           tested == [a EXCEPT !.modal.test = "running", !.modal.number = n, !.modal.asked = r,
                                  !.testsMade = @ + 1]
           stashed == IF p = NoPassword THEN tested
                      ELSE Push(tested, [do |-> "stash", key |-> <<"test", r.id>>,
                                         password |-> p])
       IN  Push(stashed, [do |-> "test", number |-> n, rec |-> r])

\* The dialog tests what it holds, numbered across all dialogs.
StartTest(a, r, p) ==
  IF r.secret = "prompt" /\ p = NoPassword THEN [a EXCEPT !.modal.test = "failed"]
  ELSE LET n == a.testsMade + 1
           tested == [a EXCEPT !.modal.test = "running", !.modal.number = n, !.modal.asked = r,
                                  !.testsMade = n]
           stashed == IF p = NoPassword THEN tested
                      ELSE Push(tested, [do |-> "stash", key |-> <<"test", r.id>>,
                                         password |-> p])
       IN  Push(stashed, [do |-> "test", number |-> n, rec |-> r])

\* Test n came back; what it was of (`shown`) is a ghost, as `asked` is.
TestedAs(a, n, r, passed) ==
  IF a.modal.kind # "connection" THEN a
  ELSE IF a.modal.test # "running" \/ a.modal.number # n THEN a
  ELSE [a EXCEPT !.modal.test = IF passed THEN "passed" ELSE "failed", !.modal.shown = r]

SameTarget(r, q) == r.at = q.at
IsIn(list, r) == \E i \in DOMAIN list : list[i].id = r.id \/ SameTarget(list[i], r)

\* What a file held that the tree has not, once each.
Preview(a, records) ==
  LET known == [i \in DOMAIN a.nodes |-> a.nodes[i].rec]
      new(list, r) == IF IsIn(known, r) \/ IsIn(list, r) THEN list ELSE Append(list, r)
  IN  [kind |-> "preview", list |-> FoldLeft(new, <<>>, records), pending |-> FALSE]

\* The file was read: the preview takes the place of any modal.
Imported(a, records) == LET done == Done(a, <<"import">>) IN OpenModal(done, Preview(done, records))

\* What may be ticked in the preview, in its order.
Picks(preview) == {SelectSeq(preview.list, LAMBDA r : r \in picked) : picked \in SUBSET ToSet(preview.list)}

\* What was selected in the preview is added and saved once.
ImportSelected(a, records) ==
  LET add(x, r) == IF IsIn([i \in DOMAIN x.nodes |-> x.nodes[i].rec], r) THEN x
                   ELSE [x EXCEPT !.nodes = Append(@, Node(r, FALSE))]
      added == FoldLeft(add, CloseModal(a), records)
  IN  IF added.nodes = a.nodes THEN added ELSE Save(added)

Export(a, ids, overwrite) ==
  LET list == SelectSeq(ToSave(a), LAMBDA r : r.id \in ids)
  IN  IF list = <<>> THEN Failed(a, <<"export">>)
      ELSE Push(a, [do |-> "export", list |-> list, overwrite |-> overwrite])

\* The backup is there already: ask, if the dialog that asked for it still waits.
ExportExists(a) ==
  IF a.awaiting # <<"export">> \/ a.modal.kind # "backup" THEN a
  ELSE OpenModal(a, [kind |-> "overwrite", ids |-> a.modal.ids, pending |-> FALSE])

-----------------------------------------------------------------------------
(* Workers, the stash and the keychain *)

Nothing == [is |-> "nothing"]
NoWorker == [cmds |-> <<>>, asked |-> Nothing, attempt |-> Nothing, mail |-> <<>>]

\* A mutant: whoever asks takes what was typed last.
OneStash(w, key) ==
  IF DOMAIN w.stash = {} THEN NoPassword ELSE w.stash[CHOOSE k \in DOMAIN w.stash : TRUE]

\* What was left under a key; an attempt and a test have keys of their own.
Stashed(w, key) == IF key \in DOMAIN w.stash THEN w.stash[key] ELSE NoPassword
TakeStash(w, key) == [w EXCEPT !.stash = [k \in DOMAIN @ \ {key} |-> @[k]]]
Stash(w, key, p) ==
  [w EXCEPT !.stash = [k \in DOMAIN @ \cup {key} |-> IF k = key THEN p ELSE @[k]]]

\* The worker of session s has a password in hand and tries to open r.
Trying(w, s, r, p, typed) ==
  [w EXCEPT !.worker[s].attempt = [is |-> "opening", rec |-> r, password |-> p, typed |-> typed]]
Ask(w, s, r) ==
  [w EXCEPT !.worker[s].asked = r, !.worker[s].mail = Append(@, <<"need password", r.id>>)]

\* `Connect`: a typed password first, then what the record says.
WorkerConnects(w, s, r) ==
  LET key == <<"open", r.id>>
      p == Stashed(w, key)
  IN  IF p # NoPassword THEN Trying(TakeStash(w, key), s, r, p, TRUE)
      ELSE IF r.secret = "none" THEN Trying(w, s, r, NoPassword, FALSE)
      ELSE IF r.secret = "keyring" /\ w.keychain[r.id] # NoPassword
           THEN Trying(w, s, r, w.keychain[r.id], FALSE)
      ELSE Ask(w, s, r)

\* `PasswordEntered`: only if a record is waiting for one.
WorkerHears(w, s) ==
  LET r == w.worker[s].asked
      key == <<"open", r.id>>
  IN  IF r = Nothing THEN w
      ELSE Trying([TakeStash(w, key) EXCEPT !.worker[s].asked = Nothing], s, r,
                  Stashed(w, key), TRUE)

Take(w, s) ==
  LET c == Head(w.worker[s].cmds)
      taken == [w EXCEPT !.worker[s].cmds = Tail(@)]
  IN  IF c.do = "connect" THEN WorkerConnects(taken, s, c.rec) ELSE WorkerHears(taken, s)

Accepts(r, p) == r.secret = "none" \/ (p # NoPassword /\ p.good)

\* The attempt ends.  A password that was just typed and worked is kept in the
\* keychain, if that is where the record says it lives; `kept` says whether the
\* keychain takes it.
AttemptFails(w, s) ==
  [w EXCEPT !.worker[s].attempt = Nothing, !.worker[s].mail = Append(@, <<"failed">>)]
AttemptOpens(w, s, kept) ==
  LET t == w.worker[s].attempt
      keeps == t.typed /\ t.rec.secret = "keyring" /\ t.password # NoPassword
      opened == [w EXCEPT !.worker[s].attempt = Nothing,
                          !.worker[s].mail = Append(@, <<"connected">>)]
  IN  IF ~keeps THEN opened
      ELSE IF kept THEN [opened EXCEPT !.keychain[t.rec.id] = t.password]
      ELSE [opened EXCEPT !.worker[s].mail = Append(@, <<"not stored", t.rec.id>>)]

-----------------------------------------------------------------------------
(* The connection file *)

Torn == [whole |-> FALSE, list |-> <<>>]
Whole(list) == [whole |-> TRUE, list |-> list]

\* Files are inodes: `file` and `temp` name one each (0 names none).
NoDisk == [file |-> 1, temp |-> 0, data |-> <<Whole(<<Record(1, "one", "keyring")>>)>>]

\* A mutant: the file itself is opened and written.
SaveCreatesInPlace(d) == [d EXCEPT !.temp = d.file, !.data[d.file] = Torn]

\* A save creates the temporary file, or truncates the one that is there.
SaveCreates(d) ==
  IF d.temp # 0 THEN [d EXCEPT !.data[d.temp] = Torn]
  ELSE [d EXCEPT !.temp = Len(d.data) + 1, !.data = Append(@, Torn)]

\* It writes to the inode it opened, whatever that is called by now; over
\* another's text the two may mix.
SaveWrites(d, inode, list) ==
  {[d EXCEPT !.data[inode] = Whole(list)]}
    \cup (IF d.data[inode] = Torn THEN {} ELSE {[d EXCEPT !.data[inode] = Torn]})

SaveRenames(d) == IF d.temp = 0 THEN d ELSE [d EXCEPT !.file = d.temp, !.temp = 0]

-----------------------------------------------------------------------------
(* Effects *)

Execute(w, e) ==
  CASE e.do = "stash" -> Stash(w, e.key, e.password)
    [] e.do = "open" ->
         [w EXCEPT !.worker[e.session] =
            [NoWorker EXCEPT !.cmds = <<[do |-> "connect", rec |-> e.rec]>>]]
    [] e.do = "connect" ->
         [w EXCEPT !.worker[e.session].cmds = Append(@, [do |-> "connect", rec |-> e.rec])]
    [] e.do = "password" ->
         [w EXCEPT !.worker[e.session].cmds = Append(@, [do |-> "password"])]
    [] e.do = "close" ->
         [w EXCEPT !.worker[e.session].cmds = <<>>, !.worker[e.session].mail = <<>>]
    [] e.do = "forget" -> [w EXCEPT !.forgets = @ \cup {e.conn}]
    [] e.do = "test" ->
         LET key == <<"test", e.rec.id>>
         IN  [TakeStash(w, key) EXCEPT !.tests = @ \cup
                {[number |-> e.number, rec |-> e.rec, password |-> Stashed(w, key)]}]
    [] e.do = "save" ->
         [w EXCEPT !.saves = Append(@, [list |-> e.list, at |-> "asked", inode |-> 0]),
                   !.spoiled = @ \/ w.saves # <<>>]
    [] e.do = "import" -> [w EXCEPT !.imports = @ + 1]
    [] e.do = "export" ->
         [w EXCEPT !.exports = Append(@, [list |-> e.list, overwrite |-> e.overwrite])]

\* The handler's state is taken on and its effects are carried out, in order.
Carry(a, w) ==
  /\ app' = [a EXCEPT !.fx = <<>>]
  /\ world' = FoldLeft(Execute, w, a.fx)

-----------------------------------------------------------------------------
(* The user *)

ConnInit ==
  /\ app = [nodes |-> <<Node(ScratchRecord, FALSE), Node(Record(1, "one", "keyring"), FALSE)>>,
            tabs |-> <<[id |-> 1, conn |-> Scratch, status |-> "open"]>>, active |-> 1,
            nextSession |-> 2, nextConn |-> 2, testsMade |-> 0, modal |-> NoModal,
            awaiting |-> NotAwaiting, prompts |-> <<>>, fx |-> <<>>]
  /\ world = [worker |-> [s \in ConnSessions |-> NoWorker], stash |-> << >>,
              keychain |-> [c \in ConnIds |-> NoPassword], forgets |-> {}, tests |-> {},
              saves |-> <<>>, disk |-> NoDisk, imports |-> 0, exports |-> <<>>,
              backup |-> FALSE, spoiled |-> FALSE]
  /\ user \in ConnUsers

UserMay(op) == /\ op \in user.may /\ user.left > 0
               /\ user' = [user EXCEPT !.left = @ - 1]

\* Keys of the tree: no modal is over it.
OnTree(op) == app.modal = NoModal /\ UserMay(op)

\* A new connection, or a copy of one: an id of its own, no password.
NewConnection ==
  /\ OnTree("New") /\ app.nextConn \in ConnIds /\ CanOpen(app)
  /\ LET c == app.nextConn
         d == ConnDialog(c, FALSE, Record(c, "new", "prompt"))
     IN  Carry([OpenModal(app, d) EXCEPT !.nextConn = @ + 1], world)

Edit ==
  /\ OnTree("Edit") /\ CanOpen(app)
  /\ \E i \in DOMAIN app.nodes :
       LET r == app.nodes[i].rec
       IN  ~Ephemeral(r) /\ Carry(OpenModal(app, ConnDialog(r.id, TRUE, r)), world)

Open ==
  /\ OnTree("Open") /\ CanOpen(app)
  /\ \E i \in DOMAIN app.nodes : Carry(OpenOrSwitch(app, app.nodes[i].rec), world)

OpenAnother ==
  /\ OnTree("Another") /\ CanOpen(app)
  /\ \E i \in DOMAIN app.nodes : Carry(OpenSession(app, app.nodes[i].rec), world)

Disconnect ==
  /\ OnTree("Disconnect")
  /\ \E i \in DOMAIN app.tabs :
       /\ MayClose(app, LAMBDA t : t = app.tabs[i])
       /\ Carry(CloseSession(app, app.tabs[i].id), world)

\* The box to forget the password is there for a connection that keeps one in the
\* keychain.
DeleteConfirm(r) ==
  [kind |-> "delete", conn |-> r.id, pending |-> FALSE,
   forgets |-> IF r.secret = "keyring" THEN BOOLEAN ELSE {FALSE}]

AskDelete ==
  /\ OnTree("Delete")
  /\ \E i \in DOMAIN app.nodes :
       Carry(OpenModal(app, DeleteConfirm(app.nodes[i].rec)), world)

AskImport ==
  OnTree("Import") /\ Carry(OpenModal(app, [kind |-> "import", pending |-> FALSE]), world)

\* All are in the backup at first; each may be taken out, and put back, while it
\* is written, too.
BackupForm(records) ==
  LET ids == {r.id : r \in ToSet(records)}
  IN  [kind |-> "backup", offered |-> ids, ids |-> ids, pending |-> FALSE]

OpenExport ==
  /\ OnTree("Export")
  /\ Carry(OpenModal(app, BackupForm(ToSave(app))), world)

Include ==
  /\ UserMay("Include") /\ app.modal.kind = "backup"
  /\ \E c \in app.modal.offered :
       LET ids == IF c \in app.modal.ids THEN app.modal.ids \ {c} ELSE app.modal.ids \cup {c}
       IN  Carry([app EXCEPT !.modal.ids = ids], world)

Cancel == UserMay("Cancel") /\ app.modal # NoModal /\ Carry(Close(app), world)

Test ==
  /\ UserMay("Test") /\ app.modal.kind = "connection" /\ ~app.modal.pending
  /\ \E d \in Drafts(app.modal) : Carry(StartTest(app, d[1], d[2]), world)

\* Enter in each of the modals; one that waits takes no second one.
Submit ==
  /\ app.modal # NoModal /\ app.awaiting = NotAwaiting
  /\ \/ /\ app.modal.kind = "connection" /\ UserMay("Submit")
        /\ CanOpen(app) \/ ForConnection(app, app.modal.conn) # NoSession
        /\ \E d \in Drafts(app.modal) : Carry(SubmitConnection(app, d[1], d[2]), world)
     \/ /\ app.modal.kind = "password" /\ UserMay("Submit")
        /\ \E p \in Typed(app.modal.conn) : Carry(SubmitPassword(app, p), world)
     \/ /\ app.modal.kind = "import" /\ UserMay("Submit")
        /\ Carry(Push([app EXCEPT !.modal.pending = TRUE, !.awaiting = <<"import">>],
                      [do |-> "import"]), world)
     \/ /\ app.modal.kind = "preview" /\ UserMay("Submit")
        /\ \E records \in Picks(app.modal) : Carry(ImportSelected(app, records), world)
     \/ /\ app.modal.kind = "delete" /\ UserMay("Submit")
        /\ MayClose(app, LAMBDA t : t.conn = app.modal.conn)
        /\ \E forget \in app.modal.forgets : Carry(Delete(Close(app), app.modal.conn, forget), world)
     \/ /\ app.modal.kind = "backup" /\ UserMay("Submit") /\ app.modal.ids # {}
        /\ Carry(Export([app EXCEPT !.modal.pending = TRUE, !.awaiting = <<"export">>],
                        app.modal.ids, FALSE), world)
     \/ /\ app.modal.kind = "overwrite" /\ UserMay("Submit")
        /\ Carry(Export(Close(app), app.modal.ids, TRUE), world)

-----------------------------------------------------------------------------
(* Everything else *)

WorkerTakes(s) ==
  /\ world.worker[s].cmds # <<>> /\ world.worker[s].attempt = Nothing
  /\ world' = Take(world, s)
  /\ UNCHANGED <<app, user>>

\* What a session that was closed meanwhile comes to is heard by nobody.
Heard(w, s) == IF IsOpen(app, s) THEN w ELSE [w EXCEPT !.worker[s].mail = <<>>]

AttemptEnds(s) ==
  /\ world.worker[s].attempt # Nothing
  /\ \/ world' = Heard(AttemptFails(world, s), s)
     \/ /\ Accepts(world.worker[s].attempt.rec, world.worker[s].attempt.password)
        /\ \E kept \in BOOLEAN : world' = Heard(AttemptOpens(world, s, kept), s)
  /\ UNCHANGED <<app, user>>

\* The reducer takes the worker's next answer.
Answer(a, s, m) ==
  CASE m[1] = "connected" -> Connected(a, s)
    [] m[1] = "failed" -> ConnectFailed(a, s)
    [] m[1] = "need password" -> NeedPassword(a, s, m[2])
    [] m[1] = "not stored" -> SecretNotStored(a, m[2])

HearWorker(s) ==
  /\ world.worker[s].mail # <<>>
  /\ MayClose(app, LAMBDA t : t.id = s)
  /\ Carry(Answer(app, s, Head(world.worker[s].mail)),
           [world EXCEPT !.worker[s].mail = Tail(@)])
  /\ UNCHANGED user

TestEnds ==
  \E t \in world.tests, passed \in BOOLEAN :
    /\ passed => Accepts(t.rec, IF t.password = NoPassword THEN world.keychain[t.rec.id]
                                ELSE t.password)
    /\ Carry(TestedAs(app, t.number, t.rec, passed), [world EXCEPT !.tests = @ \ {t}])
    /\ UNCHANGED user

SecretForgotten ==
  \E c \in world.forgets :
    /\ world' = [world EXCEPT !.forgets = @ \ {c}, !.keychain[c] = NoPassword]
    /\ UNCHANGED <<app, user>>

\* A file to import holds one connection that is here, and one that is not twice.
ImportEnds ==
  /\ world.imports > 0
  /\ LET read == [world EXCEPT !.imports = @ - 1]
         new == Record(Max(ConnIds), "imported", "prompt")
         list == <<new, Record(1, "one", "keyring"), new>>
     IN  \/ Carry(Imported(app, list), read)
         \/ Carry(Failed(app, <<"import">>), read)
  /\ UNCHANGED user

ExportEnds ==
  /\ world.exports # <<>>
  /\ LET e == Head(world.exports)
         rest == [world EXCEPT !.exports = Tail(@)]
     IN  \/ /\ world.backup /\ ~e.overwrite
            /\ Carry(ExportExists(app), rest)
         \/ /\ e.overwrite \/ ~world.backup
            /\ Carry(Done(app, <<"export">>), [rest EXCEPT !.backup = TRUE])
         \/ Carry(Failed(app, <<"export">>), rest)
  /\ UNCHANGED user

\* A save's task takes its next step; any of those under way may.
SaveSteps ==
  \E i \in DOMAIN world.saves :
    LET t == world.saves[i]
        created == SaveCreates(world.disk)
    IN  /\ \/ /\ t.at = "asked"
              /\ world' = [world EXCEPT !.disk = created,
                     !.saves[i] = [t EXCEPT !.at = "created", !.inode = created.temp]]
           \/ /\ t.at = "created"
              /\ \E d \in SaveWrites(world.disk, t.inode, t.list) :
                   world' = [world EXCEPT !.disk = d, !.saves[i].at = "written"]
           \/ /\ t.at = "written"
              /\ world' = [world EXCEPT !.disk = SaveRenames(@), !.saves = RemoveAt(@, i)]
        /\ UNCHANGED <<app, user>>

\* A save that fails is said; what it was to write is written with the next.
SaveFails ==
  \E i \in DOMAIN world.saves :
    /\ world.saves[i].at = "asked"
    /\ world' = [world EXCEPT !.saves = RemoveAt(@, i), !.spoiled = TRUE]
    /\ UNCHANGED <<app, user>>

ConnNext ==
  \/ NewConnection \/ Edit \/ Open \/ OpenAnother \/ Disconnect \/ AskDelete \/ AskImport
  \/ OpenExport \/ Include \/ Cancel \/ Test \/ Submit
  \/ \E s \in ConnSessions : WorkerTakes(s) \/ AttemptEnds(s) \/ HearWorker(s)
  \/ TestEnds \/ SecretForgotten \/ ImportEnds \/ ExportEnds \/ SaveSteps \/ SaveFails

ConnSpec == ConnInit /\ [][ConnNext]_connVars

-----------------------------------------------------------------------------
(* Properties *)

\* A password typed for a connection is tried on, tested with and kept for that
\* connection and no other, whichever sessions, dialogs and tests ask at once
\* (secrets.rs: "each worker takes only the password typed for its own
\* connection").
PasswordsStayWithTheirConnection ==
  /\ \A s \in ConnSessions :
       LET t == world.worker[s].attempt
       IN  t # Nothing /\ t.password # NoPassword => t.password.for = t.rec.id
  /\ \A t \in world.tests : t.password # NoPassword => t.password.for = t.rec.id
  /\ \A c \in ConnIds :
       world.keychain[c] # NoPassword => world.keychain[c].for = c /\ world.keychain[c].good

\* A prompt, on screen or waiting its turn, is of an open session, and one only
\* waits behind another modal: nobody is asked for a password nothing takes.
PromptsAreForOpenSessions ==
  /\ app.modal.kind = "password" => IsOpen(app, app.modal.session)
  /\ \A i \in DOMAIN app.prompts : IsOpen(app, app.prompts[i].session)

\* A modal waits for an answer exactly while it shows that it does: no answer,
\* close or other modal leaves one that takes no Enter, or one that takes two.
ModalWaitsAsShown ==
  (app.awaiting # NotAwaiting) <=> (app.modal # NoModal /\ app.modal.pending)

\* A test that passed, as the dialog shows it, is the one it last asked for,
\* however many dialogs and tests there were before it.
TestShownIsTheLatest ==
  app.modal.kind = "connection" /\ app.modal.test = "passed" => app.modal.shown = app.modal.asked

\* The file is never half-written, wherever a crash stops a save; and once
\* nothing is being saved, every connection that opened, was imported or was on
\* file is on file as the tree has it.  Unless a save failed or two overlapped.
WhatWorksIsOnFile ==
  LET onFile == world.disk.data[world.disk.file]
      kept == SelectSeq(app.nodes, LAMBDA n : ~Ephemeral(n.rec) /\ ~n.unsaved)
  IN  ~world.spoiled =>
        /\ onFile.whole
        /\ world.saves = <<>> => \A i \in DOMAIN kept : Contains(onFile.list, kept[i].rec)

=============================================================================
