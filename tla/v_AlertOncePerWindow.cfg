SPECIFICATION Spec
CONSTANTS
  Verified = TRUE
  Amount = 1
  MaxChanges = 0
  MaxWrites = 0
  Window = 2
  Threshold = 3
  MaxOccurrences = 3
  MaxClock = 4
  MaxErrors = 5
  MaxStarts = 0
  MaxWork = 5
INVARIANT AlertOncePerWindow
CHECK_DEADLOCK FALSE
