\* Two flush jobs on the same rows, each row with two attempts; one refresh that
\* succeeds, and a restart after it leaves a row that cannot be decrypted.
SPECIFICATION FairSpec
CONSTANTS
  Payload = {p1, p2}
  Key = {k1, k2}
  Second <- MCSecond
  MaxRows = 3
  MaxTries = 2
  BatchSize = 2
  ScanJob = {s1}
  FlushJob = {f1, f2}
  NoPayload = none
CONSTRAINT FirstComesFirst
INVARIANTS
  DeadMeansExhausted
PROPERTIES
  Drains
