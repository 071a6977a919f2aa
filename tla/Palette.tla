------------------------------ MODULE Palette ------------------------------
(***************************************************************************)
(* The command palette (app/reducer/palette.rs, palette/mod.rs, fuzzy.rs): *)
(* its items are gathered once, when it opens, and name connections,       *)
(* tables and sessions by id but snippets and tabs by their place.  While  *)
(* it takes the keys, workers answer and files are read.                   *)
(* Labels, queries and names are sequences of characters in lower case.    *)
(***************************************************************************)
EXTENDS Integers, SequencesExt

CONSTANT
  PalUsers    \* what users do, [may : the keys they press, types : the characters they
              \* type, left : how many keys]

VARIABLES
  palette,    \* the palette, or Hidden
  recent,     \* the labels of the items run lately, newest first
  palApp,     \* the connections, sessions, snippets and modal
  ran,        \* ghost: what the last pick meant and what it did
  palLeft     \* bound: the keys still pressed

palVars == <<palette, recent, palApp, ran, palLeft>>

Recent == 10
Page == 17

-----------------------------------------------------------------------------
(* The fuzzy match *)

Separators == {" ", ":", "_", ".", "-", "/"}
StartsWord(text, i) == i = 1 \/ text[i - 1] \in Separators

Points(text, places) ==
  FoldLeft(LAMBDA sum, k :
             LET p == places[k]
             IN  sum + 16 + (IF p = 1 THEN 18 ELSE IF StartsWord(text, p) THEN 10 ELSE 0)
                 + (IF k = 1 THEN 0
                    ELSE IF p = places[k - 1] + 1 THEN 15 ELSE places[k - 1] + 1 - p),
           0, [k \in DOMAIN places |-> k])

NoPlaces == <<0>>

\* From a first place on: each next character at the nearest place, or at the
\* nearest that starts a word unless it is right there.
Places(query, text, start, words) ==
  FoldLeft(LAMBDA ps, q :
             LET next == {i \in Last(ps) + 1..Len(text) : text[i] = q}
                 starts == {i \in next : StartsWord(text, i)}
                 among == IF words /\ Last(ps) + 1 \notin next /\ starts # {} THEN starts ELSE next
             IN  IF ps = NoPlaces \/ next = {} THEN NoPlaces ELSE Append(ps, Min(among)),
           <<start>>, Tail(query))

NoMatch == -1000

\* The best score of a query in a text.
Score(query, text) ==
  IF query = <<>> THEN 0
  ELSE LET ways == {Places(query, text, i, w) :
                      i \in {j \in DOMAIN text : text[j] = query[1]}, w \in BOOLEAN} \ {NoPlaces}
       IN  Max({NoMatch} \cup {Points(text, ps) : ps \in ways})

-----------------------------------------------------------------------------
(* Items *)

Means(what, of, session) == [what |-> what, of |-> of, session |-> session]
NoMeaning == Means("nothing", <<>>, 0)

\* `means` is a ghost: what the line says it does; `place` is how the code finds it.
Item(label, means, place) == [label |-> label, means |-> means, place |-> place, prefix |-> <<>>]

NewConnection == <<"c">>
NextSession == <<"x">>
Actions == <<NewConnection, NextSession>>
Digits == <<"1", "2", "3">>
Goto == <<"g", " ">>
Commands == <<<<"e", " ">>, Goto>>

Here(app) == app.order[app.active]
NameOf(session) == <<session.conn>>

\* The snippets offered on a connection, with their places in the whole list: its
\* own first, then the global ones, by name.
ForConnection(snips, conn) ==
  SortSeq(SelectSeq([i \in DOMAIN snips |-> i], LAMBDA i : snips[i].conn \in {conn, "global"}),
    LAMBDA i, j : LET global(k) == snips[k].conn = "global"
                  IN  \/ ~global(i) /\ global(j)
                      \/ global(i) = global(j) /\ snips[i].order < snips[j].order)

\* A mutant: the place among those offered, for the place in the list.
PlaceOffered(offered, k) == k

PlaceOf(offered, k) == offered[k]

Items(app) ==
  LET actions == [k \in DOMAIN Actions |-> Item(Actions[k], Means("action", Actions[k], 0), k)]
      conns == [k \in DOMAIN app.conns |->
                  Item(<<"o", " ">> \o <<app.conns[k].id>>, Means("connection", <<app.conns[k].id>>, 0), 0)]
      sessions == [k \in DOMAIN app.order |->
                     Item(<<"s", Digits[k], " ">> \o NameOf(app.order[k]),
                          Means("session", NameOf(app.order[k]), app.order[k].id), k)]
      tables == [k \in DOMAIN Here(app).tables |->
                   Item(<<"t", " ", Here(app).tables[k]>>,
                        Means("table", <<Here(app).tables[k]>>, Here(app).id), 0)]
      offered == ForConnection(app.snips, Here(app).conn)
      snips == [k \in DOMAIN offered |->
                  LET s == app.snips[offered[k]]
                  IN  Item(<<"n", " ", s.name>>, Means("snippet", <<s.name, s.conn>>, 0),
                           PlaceOf(offered, k))]
      arguments == [k \in DOMAIN Commands |->
                      [Item(Append(Commands[k], "?"), Means("argument", Commands[k], 0), k)
                         EXCEPT !.prefix = Commands[k]]]
  IN  actions \o conns \o sessions \o tables \o snips \o arguments

-----------------------------------------------------------------------------
(* The palette *)

Hidden == [input |-> <<>>, cursor |-> 0, items |-> <<>>, matches |-> <<>>, selected |-> 0,
           error |-> FALSE, moved |-> FALSE]

\* The commands that the query has started to fill in.
Arguments(p) ==
  {i \in DOMAIN p.items : p.items[i].prefix # <<>> /\ IsPrefix(p.items[i].prefix, p.input)}

Recency(p, i) ==
  LET at == {k \in DOMAIN recent : recent[k] = p.items[i].label}
  IN  IF at = {} THEN Recent + 1 ELSE Min(at)

Refiltered(p) ==
  LET scores == [i \in DOMAIN p.items |-> Score(p.input, p.items[i].label)]
      before(i, j) ==
        \/ scores[i] > scores[j]
        \/ scores[i] = scores[j] /\ Recency(p, i) < Recency(p, j)
        \/ scores[i] = scores[j] /\ Recency(p, i) = Recency(p, j) /\ i < j
  IN  [p EXCEPT !.selected = 0, !.error = FALSE,
         !.matches = IF Arguments(p) # {} THEN <<Min(Arguments(p))>>
                     ELSE SortSeq(SelectSeq([i \in DOMAIN p.items |-> i],
                                           LAMBDA i : scores[i] # NoMatch), before)]

Typed(p, c) ==
  [p EXCEPT !.input = InsertAt(@, p.cursor + 1, c), !.cursor = @ + 1]

\* The keys that move the cursor, or delete at it.
Edited(p, key) ==
  LET n == Len(p.input)
  IN  CASE key = "left" -> [p EXCEPT !.cursor = Max({@ - 1, 0})]
        [] key = "right" -> [p EXCEPT !.cursor = Min({@ + 1, n})]
        [] key = "home" -> [p EXCEPT !.cursor = 0]
        [] key = "end" -> [p EXCEPT !.cursor = n]
        [] key = "back" -> Refiltered(IF p.cursor = 0 THEN p
                                      ELSE [p EXCEPT !.input = RemoveAt(@, p.cursor), !.cursor = @ - 1])
        [] key = "forward" -> Refiltered(IF p.cursor = n THEN p
                                         ELSE [p EXCEPT !.input = RemoveAt(@, p.cursor + 1)])

MovedBy(p, n) == [p EXCEPT !.selected = Max({Min({@ + n, Len(p.matches) - 1}), 0})]

Selected(p) == p.items[p.matches[p.selected + 1]]

Filled(p) ==
  IF p.matches = <<>> \/ Selected(p).prefix = <<>> THEN p
  ELSE LET prefix == Selected(p).prefix
       IN  Refiltered([p EXCEPT !.input = prefix, !.cursor = Len(prefix)])

\* What is typed after the prefix of the command, without the blanks around it.
Argument(p, item) ==
  LET typed == {i \in Len(item.prefix) + 1..Len(p.input) : p.input[i] # " "}
  IN  IF typed = {} THEN <<>> ELSE SubSeq(p.input, Min(typed), Max(typed))

IsRow(argument) == ToSet(argument) \subseteq {"0", "1", "2"} /\ ToSet(argument) # {"0"}

\* An argument must be there, and a row a number from 1.
Refused(p) ==
  \/ p.matches = <<>>
  \/ LET item == Selected(p)
     IN  /\ item.prefix # <<>>
         /\ \/ Arguments(p) = {} \/ Argument(p, item) = <<>>
            \/ item.prefix = Goto /\ ~IsRow(Argument(p, item))

Remembered(label) ==
  LET others == SelectSeq(recent, LAMBDA l : l # label)
      all == <<label>> \o others
  IN  SubSeq(all, 1, Min({Len(all), Recent}))

-----------------------------------------------------------------------------
(* What picking one does *)

IndexOf(app, id) == SelectInSeq(app.order, LAMBDA s : s.id = id)
NodeOf(app, conn) == SelectInSeq(app.conns, LAMBDA c : c.id = conn)
OpenSession(app, conn) ==
  [app EXCEPT !.order = Append(@, [id |-> app.next, conn |-> conn, status |-> "connecting", tables |-> <<>>]),
              !.active = Len(app.order) + 1, !.next = @ + 1]

\* The session to use for a connection, connected again if it failed; or a new one.
OpenOrSwitch(app, conn) ==
  LET on == {k \in DOMAIN app.order : app.order[k].conn = conn}
      k == IF app.active \in on THEN app.active ELSE Min(on)
  IN  IF on = {} THEN OpenSession(app, conn)
      ELSE [app EXCEPT !.active = k,
                       !.order[k].status = IF @ = "failed" THEN "connecting" ELSE @]

\* The modal, replaced by another.
Acted(app, action) ==
  IF action = NewConnection THEN [app EXCEPT !.dialog = [kind |-> "connection", session |-> 0]]
  ELSE [app EXCEPT !.active = (@ % Len(app.order)) + 1]

\* What becomes of the app, and what it comes to.
Run(app, item) ==
  LET outcome(a, did) == [app |-> a, did |-> did]
      m == item.means
      k == item.place
  IN  CASE m.what = "action" -> outcome(Acted(app, Actions[k]), Means("action", Actions[k], 0))
        [] m.what = "connection" ->
             IF NodeOf(app, m.of[1]) = 0 THEN outcome(app, NoMeaning)
             ELSE LET a == OpenOrSwitch(app, m.of[1])
                  IN  outcome(a, Means("connection", NameOf(Here(a)), 0))
        [] m.what = "session" ->
             LET a == [app EXCEPT !.active = IF k \in DOMAIN app.order THEN k ELSE @]
             IN  outcome(a, IF k \in DOMAIN app.order
                            THEN Means("session", NameOf(Here(a)), Here(a).id) ELSE NoMeaning)
        [] m.what = "table" ->
             LET at == IndexOf(app, m.session)
             IN  IF at = 0 THEN outcome(app, NoMeaning)
                 ELSE outcome([app EXCEPT !.active = at], Means("table", m.of, app.order[at].id))
        [] m.what = "snippet" ->
             outcome(app, IF k \in DOMAIN app.snips
                          THEN Means("snippet", <<app.snips[k].name, app.snips[k].conn>>, 0)
                          ELSE NoMeaning)
        [] m.what = "argument" -> outcome(app, Means("argument", Commands[k], 0))

-----------------------------------------------------------------------------
(* Keys *)

Hits(key) ==
  /\ palLeft.left > 0 /\ key \in palLeft.may
  /\ palLeft' = [palLeft EXCEPT !.left = @ - 1]

Opened == palette # Hidden

\* It takes the place of every other overlay, a modal stays below it; a modal on
\* top takes the keys itself.
Toggle ==
  /\ ~Opened /\ palApp.dialog.kind = "none" /\ Hits("open")
  /\ palette' = Refiltered([Hidden EXCEPT !.items = Items(palApp)])
  /\ UNCHANGED <<recent, palApp, ran>>

TypeChar ==
  /\ Opened /\ Hits("type")
  /\ \E c \in palLeft.types : palette' = Refiltered(Typed(palette, c))
  /\ UNCHANGED <<recent, palApp, ran>>

RunKey ==
  /\ Opened
  /\ \/ \E key \in {"left", "right", "home", "end", "back", "forward"} :
          Hits(key) /\ palette' = Edited(palette, key)
     \/ Hits("up") /\ palette' = MovedBy(palette, -1)
     \/ Hits("down") /\ palette' = MovedBy(palette, 1)
     \/ Hits("page down") /\ palette' = MovedBy(palette, Page)
     \/ Hits("fill") /\ palette' = Filled(palette)
     \/ Hits("cancel") /\ palette' = Hidden
  /\ UNCHANGED <<recent, palApp, ran>>

Submit ==
  /\ Opened /\ Hits("submit")
  /\ IF Refused(palette)
     THEN palette' = [palette EXCEPT !.error = TRUE] /\ UNCHANGED <<recent, palApp, ran>>
     ELSE LET item == Selected(palette)
          IN  \E outcome \in {Run(palApp, item)} :
                /\ palette' = Hidden
                /\ recent' = Remembered(item.label)
                /\ palApp' = outcome.app
                /\ ran' = [means |-> item.means, did |-> outcome.did, moved |-> palette.moved]

\* Esc in a modal; a prompt that waited comes up.
CloseDialog ==
  /\ ~Opened /\ palApp.dialog.kind # "none" /\ Hits("cancel")
  /\ palApp' = [palApp EXCEPT
       !.dialog = IF palApp.prompts = <<>> THEN [kind |-> "none", session |-> 0]
                  ELSE [kind |-> "password", session |-> Head(palApp.prompts)],
       !.prompts = IF @ = <<>> THEN @ ELSE Tail(@)]
  /\ UNCHANGED <<palette, recent, ran>>

-----------------------------------------------------------------------------
(* What comes meanwhile *)

Comes == UNCHANGED <<recent, ran, palLeft>>
Moves == palette' = IF Opened THEN [palette EXCEPT !.moved = TRUE] ELSE palette

\* What was saved before the file came is kept unless the file has it.
SnippetsLoaded ==
  /\ palApp.file # <<>> /\ Comes /\ Moves
  /\ LET has(s) == \E k \in DOMAIN palApp.file : palApp.file[k] = s
     IN  palApp' = [palApp EXCEPT
           !.snips = palApp.file \o SelectSeq(@, LAMBDA s : ~has(s)), !.file = <<>>]

Connected(k) ==
  /\ palApp.order[k].status = "connecting" /\ Comes
  /\ palApp' = [palApp EXCEPT
       !.order[k].status = "open",
       !.conns = [c \in DOMAIN @ |->
                    IF @[c].id = palApp.order[k].conn THEN [@[c] EXCEPT !.unsaved = FALSE] ELSE @[c]]]
  /\ palette' = palette

SchemaLoaded(k) ==
  /\ palApp.order[k].status = "open" /\ palApp.order[k].tables = <<>> /\ Comes
  /\ palApp' = [palApp EXCEPT !.order[k].tables = <<"a">>]
  /\ palette' = palette

\* One prompt at a time, under the palette.  What is typed there, Connections has.
NeedPassword(k) ==
  /\ palApp.order[k].status = "connecting" /\ Comes
  /\ LET id == palApp.order[k].id
         asked == [palApp EXCEPT !.order[k].status = "asked"]
     IN  palApp' = IF palApp.dialog.kind = "password" THEN [asked EXCEPT !.prompts = Append(@, id)]
                   ELSE [asked EXCEPT !.dialog = [kind |-> "password", session |-> id]]
  /\ palette' = palette

Closed(app, k) ==
  LET id == app.order[k].id
  IN  [app EXCEPT
        !.order = RemoveAt(@, k),
        !.active = IF @ > k \/ @ = Len(app.order) THEN @ - 1 ELSE @,
        !.prompts = SelectSeq(@, LAMBDA s : s # id),
        !.dialog = IF @.session = id THEN [kind |-> "none", session |-> 0] ELSE @]

\* A connection that never worked goes, and its session with it.
ConnectFailed(k) ==
  /\ palApp.order[k].status = "connecting" /\ Comes
  /\ LET at == NodeOf(palApp, palApp.order[k].conn)
     IN  IF at # 0 /\ palApp.conns[at].unsaved
         THEN palApp' = Closed([palApp EXCEPT !.conns = RemoveAt(@, at)], k) /\ Moves
         ELSE palApp' = [palApp EXCEPT !.order[k].status = "failed"] /\ palette' = palette

-----------------------------------------------------------------------------

Snippet(name, conn, order) == [name |-> name, conn |-> conn, order |-> order]
Session(id, conn, status) == [id |-> id, conn |-> conn, status |-> status, tables |-> <<>>]

\* The scratch and one connection added just now, whose modal was left with Esc.
PalInit ==
  /\ palette = Hidden /\ recent = <<>>
  /\ ran = [means |-> NoMeaning, did |-> NoMeaning, moved |-> FALSE]
  /\ palLeft \in PalUsers
  /\ palApp =
       [conns |-> <<[id |-> "m", unsaved |-> FALSE], [id |-> "p", unsaved |-> FALSE],
                    [id |-> "q", unsaved |-> TRUE]>>,
        order |-> <<Session(1, "m", "open"), Session(2, "q", "connecting")>>,
        active |-> 2, next |-> 3,
        snips |-> <<Snippet("a", "p", 1), Snippet("b", "global", 2)>>,
        file |-> <<Snippet("b", "q", 2), Snippet("a", "global", 1)>>,
        dialog |-> [kind |-> "none", session |-> 0], prompts |-> <<>>]

PalNext ==
  \/ Toggle \/ TypeChar \/ RunKey \/ Submit \/ CloseDialog \/ SnippetsLoaded
  \/ \E k \in DOMAIN palApp.order :
       Connected(k) \/ SchemaLoaded(k) \/ NeedPassword(k) \/ ConnectFailed(k)

PalSpec == PalInit /\ [][PalNext]_palVars

-----------------------------------------------------------------------------
(* Properties *)

Gone(means) ==
  \/ means.what = "connection" /\ NodeOf(palApp, means.of[1]) = 0
  \/ means.what = "table" /\ IndexOf(palApp, means.session) = 0

\* What Enter does is what the line said when the palette opened, whatever came since,
\* or nothing if what it names is gone; but a snippet or a tab, which are found by their
\* place, only while no other took that place (README, "Where the code disagrees").
RunsWhatItSays ==
  ran.did # ran.means =>
    \/ ran.did = NoMeaning /\ Gone(ran.means)
    \/ ran.moved /\ ran.means.what \in {"snippet", "session"}

Within(query, text) ==
  \E places \in [DOMAIN query -> DOMAIN text] :
    /\ \A k \in DOMAIN query : text[places[k]] = query[k]
    /\ \A k \in DOMAIN query : k > 1 => places[k - 1] < places[k]

\* The list is of every item with the query's characters in their order, each once, or
\* of the command that the query fills in; one is selected unless there is none.
ListsWhatMatches ==
  Opened =>
    LET p == palette
    IN  /\ p.selected < Len(p.matches) \/ (p.selected = 0 /\ p.matches = <<>>)
        /\ IF Arguments(p) # {} THEN p.matches = <<CHOOSE i \in Arguments(p) : TRUE>>
           ELSE /\ IsInjective(p.matches)
                /\ ToSet(p.matches) = {i \in DOMAIN p.items : Within(p.input, p.items[i].label)}

PaletteRunsWhatItSays == RunsWhatItSays /\ ListsWhatMatches
=============================================================================
