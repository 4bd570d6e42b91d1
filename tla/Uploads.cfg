SPECIFICATION Spec
CONSTANTS
  Procs = {p1}
  MaxVersion = 2
  Ids = {f1}
  Chunks = {k1}
  Callers = {c1, c2}
  ProcOf <- MCOneProcess
  Settings <- MCSettings
  MaxClaims = 1
  MaxCompletes = 2
  MaxFaults = 1
INVARIANTS CommittedReadable WholeIfCompletedOnce OneActiveKey
CHECK_DEADLOCK FALSE
SYMMETRY MCSymmetry
