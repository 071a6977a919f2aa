------------------------------- MODULE MCParts -------------------------------
(***************************************************************************)
(* The parts of the program that stand by themselves, side by side: which  *)
(* one a behaviour is of is chosen at the start and the others rest.  Here *)
(* are the small instances they are checked on, and for each part that is  *)
(* not extended the properties of it that are checked.                     *)
(***************************************************************************)
EXTENDS Jobs, History, Export, RowStream, Timers, Snippets, ConnForm, SequencesExt, TLC

-----------------------------------------------------------------------------
(* The registry of jobs: two sessions, more jobs made than finished ones kept *)

CONSTANTS s1, s2
MCSessions == {s1, s2}

\* Ending the jobs of a session one by one, with a trim after each, as the
\* code does (jobs.rs:226), leaves what CloseSession says.
OneByOne(s) ==
  FoldLeft(LAMBDA js, id : End(js, id, "cancelled"), jobs,
           SetToSortSeq(JobsOf(jobs, s) \ Finished(jobs), <))

CloseIsOneByOne == \A s \in Sessions : CloseSession(jobs, s) = OneByOne(s)

JobsVars == <<jobs, made>>
JobsRest == Init

-----------------------------------------------------------------------------
(* History: `a2` is `a` in another layout; one who works until the app dies, one *)
(* who deletes, one who searches, picks and recalls                              *)

Layout(s) == IF s = "a2" THEN "a" ELSE s
HistFiles == {<<>>, <<Entry("a2", 0), Entry("b", 0), Entry("a", 0)>>}
Recorders == {[may |-> {"Record", "Crash"}, left |-> 5],
              [may |-> {"Record", "Open", "Delete", "Move"}, left |-> 6],
              [may |-> {"Record", "Open", "Type", "Move", "Pick", "Recall"}, left |-> 4]}

HistRest ==
  /\ book = NoBook /\ disk = 0 /\ tasks = <<>> /\ dialog = Closed
  /\ editor = 0 /\ clock = 0 /\ calm = FALSE

-----------------------------------------------------------------------------
(* Export: one who fills in the dialog while a write ends, one who exports at     *)
(* once and from the dialog, one who exports at once from two sessions to one     *)
(* file while it changes and the app is killed                                    *)

ThatFile(input, format) == input
AllRead(sql) == sql = "read"
AWrite == <<"write">>
Exporters == {[may |-> {"Export", "Edit", "Enter", "Yes", "Cancel"}, left |-> 6],
              [may |-> {"Quick", "Export", "Edit", "Enter", "Yes"}, left |-> 5],
              [may |-> {"Quick", "Outside", "Killed", "Switch"}, left |-> 4]}

ExpRest ==
  /\ tabs = 0 /\ activeSession = 0 /\ modal = NoModal /\ awaitingExport = 0 /\ probes = {}
  /\ inbox = 0 /\ writer = [s \in ExpSessions |-> NoWriter] /\ outbox = 0
  /\ files = [t \in Targets |-> Nothing] /\ temps = {} /\ reruns = {} /\ expLeft = 0

-----------------------------------------------------------------------------
(* Reading rows *)

StreamRest ==
  /\ source = [fails |-> TRUE] /\ stream = <<>> /\ channel = <<>>
  /\ cursor = [phase |-> "none"] /\ answers = <<>>

-----------------------------------------------------------------------------
(* Saved connections: one who types passwords, one who edits and deletes, one who *)
(* tests, one who imports and exports                                             *)

VARIABLES app, world, user
ConnSessions == 1..4
ConnIds == 1..2
ConnUsers == {[may |-> {"New", "Open", "Another", "Submit", "Cancel"}, left |-> 4],
              [may |-> {"Edit", "Submit", "Delete", "Disconnect"}, left |-> 4],
              [may |-> {"Edit", "New", "Test", "Cancel"}, left |-> 5],
              [may |-> {"Import", "Export", "Include", "Delete", "Another", "Submit", "Cancel"},
               left |-> 4]}
Conns == INSTANCE Connections
ConnRest == app = 0 /\ world = 0 /\ user = 0

-----------------------------------------------------------------------------
(* The connection dialog's form *)

FormRest == FormInit

-----------------------------------------------------------------------------
(* Snippets: two names that differ in case, two scopes *)

LowerCase(name) == IF name = "A" THEN "a" ELSE name
FirstSnippets == {<<>>, <<[name |-> "a", conn |-> "global"], [name |-> "A", conn |-> "c1"]>>}
SnipRest ==
  /\ snippets = 0 /\ editing = 0 /\ snipDialog = 0 /\ here = 0 /\ snipDisk = 0
  /\ snipLeft = 0 /\ snipCalm = FALSE

-----------------------------------------------------------------------------
(* Timers: keys that are bound alone and that start longer sequences *)

MCKeys == {"g", "z", "c"}
MCBindings ==
  [pane |-> (<<"g", "g">> :> "open") @@ (<<"z">> :> "say") @@ (<<"z", "z">> :> "dismiss")
            @@ (<<"g", "z", "g">> :> "say"),
   global |-> (<<"c">> :> "open"),
   dialog |-> (<<"z">> :> "next field") @@ (<<"c">> :> "cancel") @@ (<<"g">> :> "submit")
              @@ (<<"g", "g">> :> "cancel")]
TimersRest == TimersInit

-----------------------------------------------------------------------------
(* The editor's outline: who types what the lexer of each dialect looks ahead for *)

VARIABLES typist, outline
Types(dialects, chars, most, recalls) ==
  [dialects |-> dialects, chars |-> chars, most |-> most, recalls |-> recalls]
Editors ==
  {Types({"postgres"}, {"'", "nl", "-", ";", "a"}, 4, {<<"a", ";", "a">>}),
   Types({"postgres", "sqlite"}, {"/", "*", "$", "[", "a"}, 4, {}),
   Types({"postgres"}, {"1", ".", "$", "a"}, 4, {}),
   Types({"mysql"}, {"delimiter", "sp", "nl", ";", "a"}, 5, {<<"delimiter", "sp", "a", "nl">>}),
   Types({"mysql"}, {"'", "\\", "#", "nl", ";"}, 4, {}),
   Types({"oracle"}, {"begin", "sp", "nl", ";", "/"}, 5, {}),
   Types({"oracle"}, {"q", "'", "[", "]", ";"}, 4, {<<"create", "sp", "procedure", ";", "nl", "/">>})}
Outlines == INSTANCE Outline WITH editor <- typist
OutlineRest == typist = 0 /\ outline = 0

-----------------------------------------------------------------------------
(* The grid: rows with equal, missing and mixed values; and a result of no columns *)

CONSTANT Null
VARIABLES batches, acts, types, grid, gridLeft
SearchBudget == 2
ProfileBudget == 1
ProfileCap == 3
GridUsers ==
  LET a == <<97>>  B == <<66>>  two == <<50>>  ten == <<49, 48>>  zeroTwo == <<48, 50>>
      nan == <<78, 97, 78>>
  IN {[columns |-> <<TRUE, FALSE>>, rows |-> <<<<ten, a>>, <<two, Null>>>>,
       batches |-> {<<<<zeroTwo, B>>, <<Null, a>>>>},
       acts |-> {"sort", "add sort", "right", "down", "inspector"}, types |-> {}, left |-> 6],
      [columns |-> <<TRUE>>, rows |-> <<<<ten>>, <<nan>>, <<two>>>>,
       batches |-> {<<<<a>>>>, <<<<zeroTwo>>>>},
       acts |-> {"sort", "search", "next match", "previous match", "up", "bottom", "goto", "left"},
       types |-> {97, 50, 13, 27, 8}, left |-> 6],
      [columns |-> <<>>, rows |-> <<>>, batches |-> {},
       acts |-> {"sort", "search", "down", "inspector"}, types |-> {13}, left |-> 3]}
Grids == INSTANCE Grid
GridRest == batches = 0 /\ acts = 0 /\ types = 0 /\ grid = 0 /\ gridLeft = 0

-----------------------------------------------------------------------------
(* The palette: one who searches, one who fills in commands, one who picks what is  *)
(* listed, and one who picks far down the list                                      *)

VARIABLES palette, recent, palApp, ran, palLeft
PalUsers ==
  {[may |-> {"open", "type", "submit", "back"}, types |-> {"a", "n", " "}, left |-> 4],
   [may |-> {"open", "type", "fill", "submit", "left", "forward"}, types |-> {"g", " ", "1"},
    left |-> 5],
   [may |-> {"open", "up", "down", "page down", "submit", "cancel"}, types |-> {}, left |-> 4],
   [may |-> {"open", "down", "submit"}, types |-> {}, left |-> 7]}
Palettes == INSTANCE Palette
PalRest == palette = 0 /\ recent = 0 /\ palApp = 0 /\ ran = 0 /\ palLeft = 0

-----------------------------------------------------------------------------
(* Side by side *)

VARIABLE part
Parts == {"jobs", "history", "export", "rows", "connections", "form", "snippets", "timers",
          "outline", "grid", "palette"}
connVars == <<app, world, user>>
outlineVars == <<typist, outline>>
gridVars == <<batches, acts, types, grid, gridLeft>>
palVars == <<palette, recent, palApp, ran, palLeft>>
partsVars ==
  <<part, JobsVars, histVars, expVars, streamVars, connVars, formVars, snipVars, timerVars,
    outlineVars, gridVars, palVars>>

PartsInit ==
  /\ part \in Parts
  /\ IF part = "jobs" THEN Init ELSE JobsRest
  /\ IF part = "history" THEN HistInit ELSE HistRest
  /\ IF part = "export" THEN ExpInit ELSE ExpRest
  /\ IF part = "rows" THEN StreamInit ELSE StreamRest
  /\ IF part = "connections" THEN Conns!ConnInit ELSE ConnRest
  /\ IF part = "form" THEN FormInit ELSE FormRest
  /\ IF part = "snippets" THEN SnipInit ELSE SnipRest
  /\ IF part = "timers" THEN TimersInit ELSE TimersRest
  /\ IF part = "outline" THEN Outlines!OutlineInit ELSE OutlineRest
  /\ IF part = "grid" THEN Grids!GridInit ELSE GridRest
  /\ IF part = "palette" THEN Palettes!PalInit ELSE PalRest

JobsStep ==
  /\ part = "jobs" /\ Next
  /\ UNCHANGED <<part, histVars, expVars, streamVars, connVars, formVars, snipVars, timerVars,
                 outlineVars, gridVars, palVars>>
HistoryStep ==
  /\ part = "history" /\ HistNext
  /\ UNCHANGED <<part, JobsVars, expVars, streamVars, connVars, formVars, snipVars, timerVars,
                 outlineVars, gridVars, palVars>>
ExportStep ==
  /\ part = "export" /\ ExpNext
  /\ UNCHANGED <<part, JobsVars, histVars, streamVars, connVars, formVars, snipVars, timerVars,
                 outlineVars, gridVars, palVars>>
RowsStep ==
  /\ part = "rows" /\ StreamNext
  /\ UNCHANGED <<part, JobsVars, histVars, expVars, connVars, formVars, snipVars, timerVars,
                 outlineVars, gridVars, palVars>>
ConnectionsStep ==
  /\ part = "connections" /\ Conns!ConnNext
  /\ UNCHANGED <<part, JobsVars, histVars, expVars, streamVars, formVars, snipVars, timerVars,
                 outlineVars, gridVars, palVars>>
FormStep ==
  /\ part = "form" /\ FormNext
  /\ UNCHANGED <<part, JobsVars, histVars, expVars, streamVars, connVars, snipVars, timerVars,
                 outlineVars, gridVars, palVars>>
SnippetsStep ==
  /\ part = "snippets" /\ SnipNext
  /\ UNCHANGED <<part, JobsVars, histVars, expVars, streamVars, connVars, formVars, timerVars,
                 outlineVars, gridVars, palVars>>
TimersStep ==
  /\ part = "timers" /\ TimersNext
  /\ UNCHANGED <<part, JobsVars, histVars, expVars, streamVars, connVars, formVars, snipVars,
                 outlineVars, gridVars, palVars>>
OutlineStep ==
  /\ part = "outline" /\ Outlines!OutlineNext
  /\ UNCHANGED <<part, JobsVars, histVars, expVars, streamVars, connVars, formVars, snipVars,
                 timerVars, gridVars, palVars>>
GridStep ==
  /\ part = "grid" /\ Grids!GridNext
  /\ UNCHANGED <<part, JobsVars, histVars, expVars, streamVars, connVars, formVars, snipVars,
                 timerVars, outlineVars, palVars>>
PaletteStep ==
  /\ part = "palette" /\ Palettes!PalNext
  /\ UNCHANGED <<part, JobsVars, histVars, expVars, streamVars, connVars, formVars, snipVars,
                 timerVars, outlineVars, gridVars>>

PartsNext ==
  \/ JobsStep \/ HistoryStep \/ ExportStep \/ RowsStep \/ ConnectionsStep \/ FormStep
  \/ SnippetsStep \/ TimersStep \/ OutlineStep \/ GridStep \/ PaletteStep

PartsSpec == PartsInit /\ [][PartsNext]_partsVars

\* Bound: writes that overlap, which HistoryReadsBack and SnippetsStayThemselves say
\* nothing of, are not followed any further.
WritesApart == (part = "history" => calm) /\ (part = "snippets" => snipCalm)

-----------------------------------------------------------------------------
(* Properties of the parts that are instances *)

\* A password the user typed reaches only the connection it was typed for: see
\* Connections.
PasswordsStayWithTheirConnection ==
  part = "connections" => Conns!PasswordsStayWithTheirConnection

\* A prompt on screen is for a session that is open and connecting: see Connections.
PromptsAreForOpenSessions == part = "connections" => Conns!PromptsAreForOpenSessions

\* The modal that shows it waits is the one whose answer is awaited: see Connections.
ModalWaitsAsShown == part = "connections" => Conns!ModalWaitsAsShown

\* The outcome a dialog shows is that of its last test: see Connections.
TestShownIsTheLatest == part = "connections" => Conns!TestShownIsTheLatest

\* A connection that worked is saved, and the file is whole: see Connections.
WhatWorksIsOnFile == part = "connections" => Conns!WhatWorksIsOnFile

\* The outline kept edit by edit is the outline of the text: see Outline.
OutlineIsOfTheText == part = "outline" => Outlines!OutlineIsOfTheText

\* The grid's order, selection, matches, counts and copies are those of its rows: see
\* Grid.
GridIsOfItsRows == part = "grid" => Grids!GridIsOfItsRows

\* The palette lists what matches, and does what the line picked said: see Palette.
PaletteRunsWhatItSays == part = "palette" => Palettes!PaletteRunsWhatItSays
=============================================================================
