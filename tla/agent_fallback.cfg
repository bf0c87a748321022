\* Refuted: the fallback of main.go's comment.
SPECIFICATION Spec
CONSTANTS
  Payload = {p1, p2}
  Key = {k1, k2}
  Second <- MCSecond
  MaxRows = 3
  MaxTries = 1
  BatchSize = 2
  ScanJob = {s1}
  FlushJob = {f1}
  NoPayload = none
PROPERTIES
  FallsBackToCache
