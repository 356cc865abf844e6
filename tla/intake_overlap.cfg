SPECIFICATION Spec
CONSTANTS
  NumAddresses = 1
  NumDeposits = 2
  NumTxs = 1
  Window = 1
  Cooldown = 1
  Recent = 1
  MaxAttempts = 1
  MaxTime = 3
  Detectors = {w1, w2}
  Sweepers = {"expirer", "maintenance"}
  Cancellable = {}
  DbFaults = TRUE
  Crashes = 0
  w1 = w1
  w2 = w2
INVARIANTS MatchedInWindow OneDepositPerTx TrackedWasMatched 
SYMMETRY Symmetry
CHECK_DEADLOCK FALSE
