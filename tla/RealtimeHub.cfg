SPECIFICATION HubFairSpec
CONSTANTS
  i1 = i1
  i2 = i2
  c1 = c1
  c2 = c2
  Instances = {i1, i2}
  Clients = {c1}
  HubOf <- MCHubOf
  SendBuffer = 1
  BroadcastBuffer = 1
  MaxEvents = 2
  MaxLosses = 1
INVARIANTS NeverSendsOnClosed InOrderPerPublisher
PROPERTY DepartedForgotten
CHECK_DEADLOCK FALSE
