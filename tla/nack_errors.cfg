\* Refuted: Nack as its comment describes it.
SPECIFICATION UncheckedSpec
CONSTANTS
  Payload = {p1, p2}
  Key = {k1, k2}
  Second <- MCSecond
  MaxRows = 3
  MaxTries = 2
  BatchSize = 2
  MaxPushes = 3
CONSTRAINT PushesBounded
PROPERTIES
  MovesRow
