\* Two servers; the second is of a later version, with one more migration.
SPECIFICATION FairSpec
CONSTANTS
  s1 = s1
  s2 = s2
  none = none
  Server <- MCServer
  FilesOf <- MCFilesOf
  NoServer = none
  MaxFailures = 3
INVARIANTS
  MigratesInOrder
  WorksOnSchema
  OneCA
PROPERTIES
  Starts
