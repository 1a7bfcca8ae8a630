SPECIFICATION Spec
CONSTANTS
  Verified = FALSE
  Amount = 2
  MaxChanges = 4
  MaxWrites = 2
  Window = 1
  Threshold = 2
  MaxOccurrences = 2
  MaxClock = 2
  MaxErrors = 4
  MaxStarts = 1
  MaxWork = 4
INVARIANTS
  TypeOK
  RowWasTrue
  RowFollowsProvider
  AlertsWhereBurstsBegin
CHECK_DEADLOCK FALSE
