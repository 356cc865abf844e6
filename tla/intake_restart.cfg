SPECIFICATION Spec
CONSTANTS
  NumAddresses = 1
  NumDeposits = 2
  NumTxs = 2
  Window = 1
  Cooldown = 1
  Recent = 1
  MaxAttempts = 1
  MaxTime = 2
  Detectors = {w1}
  Sweepers = {"expirer", "maintenance"}
  Cancellable = {1}
  DbFaults = TRUE
  Crashes = 1
  w1 = w1
  w2 = w2
INVARIANTS TypeOK
PROPERTIES PaymentNotOverwritten
CHECK_DEADLOCK FALSE
