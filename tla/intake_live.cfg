SPECIFICATION FairSpec
CONSTANTS
  NumAddresses = 2
  NumDeposits = 3
  NumTxs = 1
  Window = 2
  Cooldown = 1
  Recent = 1
  MaxAttempts = 1
  MaxTime = 3
  Detectors = {w1}
  Sweepers = {"expirer"}
  Cancellable = {}
  DbFaults = FALSE
  Crashes = 0
  w1 = w1
  w2 = w2
INVARIANTS UniqueOpenAddress
PROPERTIES PaymentNoticed
CHECK_DEADLOCK FALSE
