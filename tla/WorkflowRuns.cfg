SPECIFICATION FairSpec
CONSTANTS
  Workers = {w1, w2}
  Flows = {"branches", "switched", "tried", "early", "late", "calls", "again", "dangling"}
  Roots = {"branches", "switched", "tried", "early", "late", "calls", "dangling"}
  Def <- MCDef
  NoNode = NoNode
  MaxRetries = 2
  MaxEarly = 1
  MaxDepth = 1
  MaxSubs = 2
  Slow = {"switched", "dangling"}
  MaxFaults = 1
INVARIANTS DependenciesFirst CaughtIsHandled EffectsOncePerRun
PROPERTIES PrunesDeadBranches ExecutionSettles
CHECK_DEADLOCK FALSE
