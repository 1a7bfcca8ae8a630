SPECIFICATION FairSpec
CONSTANTS
  Applicants = {a1}
  Answers <- EveryAnswer
  Attempts = 3
  None = None
INVARIANTS
  TypeOK
  VerdictIsEarned
PROPERTIES
  ScreenedOnce
  JobsEnd
CHECK_DEADLOCK FALSE
