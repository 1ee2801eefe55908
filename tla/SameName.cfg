SPECIFICATION Spec
CONSTANTS
  d1 = d1
  d2 = d2
  d3 = d3
  Downloads = {d1, d2}
  Requested <- SameNames
  Policy <- BothUnique
  Checked = {}
  Parts = 2
  Existing = {}
  Nobody = Nobody
  AtOnce = 2
  MaxRuns = 2
  MaxRemovals = 0
  MaxCrashes = 0
INVARIANTS
  EachKeepsItsFile
CHECK_DEADLOCK FALSE
