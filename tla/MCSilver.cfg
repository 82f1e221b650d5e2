CONSTANTS
  resent = resent
  single = single
  NULL = NULL
  Id <- MCId
  Record <- MCRecord
  EventDate <- MCEventDate
  Interval = 3
  Overlap = 1
  MaxDelay = 1
  Retries = 1
  MaxTime = 7
  MaxCopies = 2
  WindowsTried <- MCWindows
  MaxByHand = 1
SPECIFICATION Spec
INVARIANTS
  TypeOK
  DatedEventsAreUnique
  WindowsCoverBronze
  RetrySeesWhatItMerged
PROPERTY
  InOrderMergesGoForward
\* The clock and the numbers of copies and of runs are bounded.
CHECK_DEADLOCK FALSE
