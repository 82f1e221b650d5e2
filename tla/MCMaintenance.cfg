CONSTANTS
  NULL = NULL
  silver = silver
  gold = gold
  Table <- MCTable
  MOR_TABLES <- MCMOR
  Invocations <- MCInvocations
  LongestWrite = 1
  MaxTime = 2
  MaxRuns = 2
  MaxWrites = 1
SPECIFICATION Spec
INVARIANTS
  TypeOK
  SnapshotsAreWhole
  FinishedTablesAreClean
PROPERTIES
  RemovesOnlyOlder
  ImplementsTableVersions
\* The bounds are reached.
CHECK_DEADLOCK FALSE
