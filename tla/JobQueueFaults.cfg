SPECIFICATION FairSpec
CONSTANTS
  Jobs = {j1}
  Procs = {p1}
  MaxRetries = 2
  NackDeadline = 5
  MaxFaults = 1
  MaxClock = 8
  None = None
PROPERTIES LostOnlyFromMemory EventuallySettled
CHECK_DEADLOCK FALSE
