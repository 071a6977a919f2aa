SPECIFICATION PartsSpec
CONSTANTS
  s1 = s1
  s2 = s2
  Sessions <- MCSessions
  FinishedKept = 1
  MaxMade = 3
  Statements = {"a", "a2", "b"}
  Norm <- Layout
  Cap = 2
  FileCap = 3
  FirstFiles <- HistFiles
  HistUsers <- Recorders
  InFlight = 3
  ExpSessions = {1, 2}
  Inputs = {"", "a", "b"}
  Formats = {"csv"}
  FileOf <- ThatFile
  Batches = 2
  ReadOnly <- AllRead
  Results <- AWrite
  ExpUsers <- Exporters
  Backends = {"postgres", "mysql", "sqlite", "oracle"}
  MostRows = 7
  FetchSizes = {0, 1, 2, 3}
  Limits = {0, 1, 2, 3, 4}
  KeyNames <- MCKeys
  Bindings <- MCBindings
  Levels = {"info", "error"}
  QueueCapacity = 2
  Presses = 4
  Comings = 2
  SnipNames = {"a", "A"}
  Lower <- LowerCase
  Scopes = {"c1", "c2"}
  SnipFiles <- FirstSnippets
  SnipLeft = 4
  Edits = 6
  Null = Null
CONSTRAINT WritesApart
INVARIANTS
  OneRunning
  CloseIsOneByOne
  HistoryReadsBack
  TargetsAreWhole
  ReadsAreWhole
  PasswordsStayWithTheirConnection
  PromptsAreForOpenSessions
  ModalWaitsAsShown
  TestShownIsTheLatest
  WhatWorksIsOnFile
  FormsBuildRecords
  SnippetsStayThemselves
  EveryWaitHasItsTimer
  OutlineIsOfTheText
  GridIsOfItsRows
  PaletteRunsWhatItSays
PROPERTIES
  FinishedForGood
  OpenNeverTrimmed
  ReplacedIfAgreed
  StaleTimersChangeNothing
CHECK_DEADLOCK FALSE
