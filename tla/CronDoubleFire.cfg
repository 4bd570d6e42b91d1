SPECIFICATION Spec
CONSTANTS
  Replicas = {r1, r2}
  Kind = "workflow"
  e1 = e1
  e2 = e2
  bad = bad
  None = None
  Exprs <- MCExprs
  Invalid = {bad}
  Occurs <- MCOccurs
  MissedCap = 1000
  MaxTime = 3
  MaxEdits = 0
  MaxCrashes = 0
INVARIANT FiredOnce
CHECK_DEADLOCK FALSE
