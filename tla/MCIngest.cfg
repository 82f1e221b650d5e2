CONSTANTS
  NULL = NULL
  Text <- MCText
  Blanks <- MCBlanks
  Times <- MCTimes
  Prices <- MCPrices
  Rows <- MCRows
  Limits <- MCLimits
  Topic = "ecommerce.view"
  MaxFailovers = 1
  MaxSubmissions = 2
  Earlier <- MCEarlier
SPECIFICATION Spec
INVARIANTS
  TypeOK
  SuccessMeansDelivered
  RecordsAreKept
  RestartsWriteOnce
  IdsTellEventsApart
PROPERTIES
  RecordsArrive
\* The file ends, and a stopped job may stay so.
CHECK_DEADLOCK FALSE
