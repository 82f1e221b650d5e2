CONSTANTS
  Event <- TwoPurchases
  Session <- MCSessions
  Product <- MCProducts
  User <- MCUsers
  MaxDates = 1
  NULL = NULL
  Retries = 1
  MaxRuns = 3
SPECIFICATION Spec
PROPERTIES
  ImplementsDerivedLayers
  RunsEnd
\* After MaxRuns runs nobody starts another one.
CHECK_DEADLOCK FALSE
