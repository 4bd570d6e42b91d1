SPECIFICATION Spec
CONSTANTS
  Jobs = {j1}
  Procs = {p1}
  MaxRetries = 2
  NackDeadline = 5
  MaxFaults = 1
  MaxClock = 3
  None = None
INVARIANT AtLeastOnce
CHECK_DEADLOCK FALSE
