SPECIFICATION Spec
CONSTANTS
  Length = 2
  Connections = {1}
  RangeSupport = {TRUE}
  Answers = {"partial", "broken"}
  MayReplan = FALSE
  MaxRetries = 1
  MaxRuns = 1
  NoFile = NoFile
CHECK_DEADLOCK FALSE
INVARIANT
  FileExact
