SPECIFICATION Spec
CONSTANTS
  Length = 3
  Connections = {2}
  RangeSupport = {TRUE, FALSE}
  Answers = {"refused", "wrong", "partial", "whole", "short", "broken"}
  MayReplan = FALSE
  MaxRetries = 1
  MaxRuns = 3
  NoFile = NoFile
CHECK_DEADLOCK FALSE
INVARIANTS
  DoneNotShort
  ProgressBounded
