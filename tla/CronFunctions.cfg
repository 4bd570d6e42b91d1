SPECIFICATION Spec
CONSTANTS
  Replicas = {r1}
  Kind = "function"
  e1 = e1
  e2 = e2
  bad = bad
  None = None
  Exprs <- MCExprs
  Invalid = {bad}
  Occurs <- MCOccurs
  MissedCap = 1000
  MaxTime = 3
  MaxEdits = 0
  MaxCrashes = 0
INVARIANT FiredIsRun
CHECK_DEADLOCK FALSE
