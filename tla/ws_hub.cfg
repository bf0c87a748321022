SPECIFICATION HubFairSpec
CONSTANTS
  Client = {c1, c2}
  Subscriber = {i1, i2}
  MaxSessions = 3
  MaxEvents = 2
  Cap = 1
INVARIANTS
  HubTypeOK
  NoPanic
PROPERTIES
  InOrder
  SessionEnds
CHECK_DEADLOCK FALSE
