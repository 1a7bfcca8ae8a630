SPECIFICATION Spec
CONSTANTS
  Gigs = {g1}
  Freelancers = {f1}
  Requests = {r1, r2}
  Callbacks = {c1, c2}
  Workers = {w1, w2}
  Amounts = {2}
  StartBalance = 1
  Attempts = 3
  MaxFaults = 2
  None = None
INVARIANT
  WebhookIdempotent
CHECK_DEADLOCK FALSE
