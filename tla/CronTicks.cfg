SPECIFICATION FairSpec
CONSTANTS
  Replicas = {r1, r2}
  Kind = "workflow"
  e1 = e1
  e2 = e2
  bad = bad
  None = None
  Exprs <- MCExprs
  Invalid = {bad}
  Occurs <- MCOccurs
  MissedCap = 1000
  MaxTime = 2
  MaxEdits = 1
  MaxCrashes = 1
INVARIANTS ClaimedOncePerSeed ClaimedOnce NextRunOnSchedule EveryRunCounted
PROPERTY AlwaysCatchesUp
CHECK_DEADLOCK FALSE
