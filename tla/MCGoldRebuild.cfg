CONSTANTS
  Event <- MovingRow
  Session <- MCSessions
  Product <- MCProducts
  User <- MCUsers
  MaxDates = 366
  NULL = NULL
  Retries = 1
  MaxRuns = 4
SPECIFICATION Spec
PROPERTY
  FullRebuildRefreshesTable
\* After MaxRuns runs nobody starts another one.
CHECK_DEADLOCK FALSE
