SPECIFICATION FairSpec
CONSTANTS
  Member = {m1, m2}
  Nobody = nobody
  Partition = {a}
  MaxRecords = 3
  MaxPoll = 2
INVARIANTS
  TypeOK
  CommittedWasSeen
  SeenInOrder
PROPERTIES
  KeepsLog
  CatchesUp
