CONSTANTS
  Event <- AcrossMidnight
  Session <- MCSessions
  Product <- MCProducts
  User <- MCUsers
  MaxDates = 366
  NULL = NULL
  Retries = 1
  MaxRuns = 2
SPECIFICATION Spec
INVARIANT
  IncrementalEqualsRebuild
\* After MaxRuns runs nobody starts another one.
CHECK_DEADLOCK FALSE
