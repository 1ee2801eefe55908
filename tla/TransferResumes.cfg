SPECIFICATION FairSpec
CONSTANTS
  Length = 5
  Connections = {2}
  RangeSupport = {TRUE, FALSE}
  Answers = {"refused", "partial", "whole"}
  MayReplan = FALSE
  MaxRetries = 1
  MaxRuns = 3
  NoFile = NoFile
CHECK_DEADLOCK FALSE
INVARIANTS
  TypeOK
  PartsArePrefixes
  FileExact
PROPERTY
  TransferEnds
