SPECIFICATION Spec
CONSTANTS
  Calls = {c1, c2, c3}
  None = None
  MaxSessions = 1
  Drift = 0
  ReplayTTL = 1
  MaxLag = 0
  EnrollTTL = 1
  ChallengeTTL = 1
  StepUpTTL = 1
  MaxTime = 0
SYMMETRY Symmetry
INVARIANTS
  CurrentSessionKept
CHECK_DEADLOCK FALSE
