SPECIFICATION Spec
CONSTANTS
  Workers = {w1}
  Flows = {"early"}
  Roots = {"early"}
  Def <- MCDef
  NoNode = NoNode
  MaxRetries = 1
  MaxEarly = 0
  MaxDepth = 1
  MaxSubs = 1
  Slow = {}
  MaxFaults = 0
INVARIANT CatchTargetExecuted
CHECK_DEADLOCK FALSE
