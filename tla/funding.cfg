SPECIFICATION Spec
CONSTANTS
  Gigs = {g1}
  Freelancers = {f1, f2}
  Requests = {r1, r2}
  Callbacks = {c1, c2}
  Workers = {w1, w2}
  Amounts = {1, 2}
  StartBalance = 1
  Attempts = 3
  MaxFaults = 1
  None = None
SYMMETRY Symmetry
INVARIANTS
  TypeOK
  AcceptedBidIsContracted
  FundedOnlyIfPaid
  DebitsBoundedByWorkers
  WalletAccounted
PROPERTIES
  ContractIsFinal
  AuctionSpec
CHECK_DEADLOCK FALSE
