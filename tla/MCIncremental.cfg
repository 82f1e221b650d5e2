CONSTANTS
  Event <- LateEvents
  Session <- MCSessions
  Product <- MCProducts
  User <- MCUsers
  MaxDates = 366
  NULL = NULL
  Retries = 1
  MaxRuns = 2
SPECIFICATION Spec
INVARIANTS
  TypeOK
  UniqueFunnelKeys
  FunnelFreshUnlessOwed
  NothingMergedIsForgotten
  StaleGoldIsAccountedFor
  GoldSettlesRun
PROPERTIES
  RowsKeepTheirHistory
  RetriedMergeWritesNothing
\* After MaxRuns runs nobody starts another one.
CHECK_DEADLOCK FALSE
