SPECIFICATION ExpSpec
CONSTANTS
  ExpSessions = {1}
  Inputs = {"", "a", "b"}
  Formats = {"csv"}
  FileOf <- ThatFile
  Batches = 2
  ReadOnly <- AllRead
  Results <- AWrite
  ExpUsers <- Redoer
INVARIANT RerunsAreAgreed
CHECK_DEADLOCK FALSE
