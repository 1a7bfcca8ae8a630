SPECIFICATION FairSpec
CONSTANTS
  Gigs = {g1, g2}
  Freelancers = {}
  Requests = {r1, r2}
  Callbacks = {c1, c2}
  Workers = {w1, w2}
  Amounts = {2}
  StartBalance = 1
  Attempts = 3
  MaxFaults = 2
  None = None
PROPERTIES
  PaidCallbackFunds
CHECK_DEADLOCK FALSE
