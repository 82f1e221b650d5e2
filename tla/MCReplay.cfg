CONSTANTS
  NULL = NULL
  Text <- MCText
  Blanks <- MCBlanks
  Times <- MCTimes
  Prices <- MCPrices
  Partition = 0
  Invocations <- MCInvocations
  Rejections <- MCRejections
  MaxDlq = 2
  MaxRuns = 2
SPECIFICATION Spec
INVARIANTS
  TypeOK
  ReportTells
  SentAsItsLineSays
  RepeatsSendTheSame
  SentIsAccepted
  RangeIsCompleteUnlessExpired
PROPERTIES
  ReplayEnds
\* Nobody has to run the replayer again.
CHECK_DEADLOCK FALSE
