SPECIFICATION Spec
CONSTANTS
  Replicas = {r1}
  Kind = "workflow"
  e1 = e1
  e2 = e2
  bad = bad
  None = None
  Exprs = {e1}
  Invalid = {}
  Occurs <- MCOccursDaily
  MissedCap = 1000
  MaxTime = 3
  MaxEdits = 2
  MaxCrashes = 0
PROPERTY NoWindowNobodyAskedFor
CHECK_DEADLOCK FALSE
