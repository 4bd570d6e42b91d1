SPECIFICATION FairSpec
CONSTANTS
  Messages = {m1, m2}
  Recipients = {r1, r2}
  Lists = {{r1, r2}}
  Sweepers = {s1, s2}
  BatchLimit = 1
  MaxTime = 1
  MaxFaults = 1
CHECK_DEADLOCK FALSE
INVARIANTS DeliveredOnce WithdrawnNeverDelivered SentReachedAll
PROPERTY DueIsTaken
