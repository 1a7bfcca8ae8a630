SPECIFICATION FairSpec
CONSTANTS
  Milestones = {m1}
  Approvals = {a1, a2}
  Withdrawals = {x1}
  Amounts = {1300}
  Requested = {9}
  Currencies = {"ETB", "USD"}
  MaxJobs = 5
  Concurrency = 2
  Attempts = 3
  MaxFaults = 1
  None = None
INVARIANTS
  TypeOK
  WalletConserved
  PaidOncePlusFaults
PROPERTIES
  HoldIsKept
  QueuedIsPaid
CHECK_DEADLOCK FALSE
