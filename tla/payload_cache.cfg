SPECIFICATION CacheSpec
CONSTANTS
  Payload = {p1, p2}
  Key = {k1, k2}
  Second <- MCSecond
  MaxRows = 3
  MaxTries = 2
  BatchSize = 2
  MaxPushes = 5
SYMMETRY MCSymmetry
CONSTRAINT PushesBounded
INVARIANTS
  Bounded
  OneFate
