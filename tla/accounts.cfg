SPECIFICATION Spec
CONSTANTS
  Calls = {c1, c2, c3}
  None = None
  MaxSessions = 1
  Drift = 1
  ReplayTTL = 3
  MaxLag = 0
  EnrollTTL = 2
  ChallengeTTL = 1
  StepUpTTL = 1
  MaxTime = 3
SYMMETRY Symmetry
INVARIANTS
  TypeOK
  SessionCap
  OneSessionPerLogin
  EndedStaysEnded
  OtpSingleUse
  SpentIsDead
  BrowserHoldsLiveToken
PROPERTIES
  MigrationSettles
CHECK_DEADLOCK FALSE
