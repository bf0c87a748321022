\* Refuted: a failed record's offset is not committed.
SPECIFICATION Spec
CONSTANTS
  Member = {m1}
  Nobody = nobody
  Partition = {a}
  MaxRecords = 3
  MaxPoll = 2
INVARIANTS
  FailedNotCommitted
