SPECIFICATION Spec
CONSTANTS
  Reading <- MCReading
  MaxScans = 3
INVARIANTS
  TypeOK
  HistoryReplays
  GraphAgrees
  FindingsReal
  DeviationsFound
