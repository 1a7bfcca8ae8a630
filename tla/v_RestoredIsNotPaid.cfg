SPECIFICATION Spec
CONSTANTS
  Milestones = {m1}
  Approvals = {a1}
  Withdrawals = {x1}
  Amounts = {1300}
  Requested = {9}
  Currencies = {"ETB", "USD"}
  MaxJobs = 3
  Concurrency = 2
  Attempts = 3
  MaxFaults = 1
  None = None
INVARIANT
  RestoredIsNotPaid
CHECK_DEADLOCK FALSE
