SPECIFICATION FairSpec
CONSTANTS
  Messages = {m1}
  Recipients = {r1}
  Lists = {{r1}}
  Sweepers = {s1}
  BatchLimit = 1
  MaxTime = 1
  MaxFaults = 0
CHECK_DEADLOCK FALSE
PROPERTIES ProcessingEnds
