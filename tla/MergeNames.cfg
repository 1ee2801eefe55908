SPECIFICATION Spec
CONSTANTS
  d1 = d1
  d2 = d2
  d3 = d3
  Downloads = {d1, d2, d3}
  Requested <- MCRequested
  Policy <- MCPolicy
  Checked = {d1}
  Parts = 2
  Existing <- MCExisting
  Nobody = Nobody
  AtOnce = 2
  MaxRuns = 2
  MaxRemovals = 1
  MaxCrashes = 1
INVARIANTS
  TypeOK
  
  
PROPERTIES
  ForeignKept
CHECK_DEADLOCK FALSE
