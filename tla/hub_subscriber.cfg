SPECIFICATION HubSpec
CONSTANTS
  Client = {c1, c2}
  Subscriber = {i1, i2}
  MaxSessions = 3
  MaxEvents = 1
  Cap = 1
INVARIANTS
  OncePerOrg
CHECK_DEADLOCK FALSE
