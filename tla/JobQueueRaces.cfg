SPECIFICATION Spec
CONSTANTS
  Jobs = {j1}
  Procs = {p1, p2}
  MaxRetries = 2
  NackDeadline = 5
  MaxFaults = 0
  MaxClock = 2
  None = None
INVARIANTS NoJobLost DuplicationBounded
PROPERTY ImplementsPromise
CHECK_DEADLOCK FALSE
