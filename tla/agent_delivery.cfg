SPECIFICATION Spec
CONSTANTS
  Payload = {p1, p2, p3}
  Key = {k1, k2}
  Second <- MCSecond
  MaxRows = 3
  MaxTries = 1
  BatchSize = 2
  ScanJob = {s1, s2}
  FlushJob = {f1}
  NoPayload = none
SYMMETRY MCSymmetry
INVARIANTS
  AgentTypeOK
  SinglePlace
PROPERTIES
  KeepsContract
