SPECIFICATION Spec
CONSTANTS
  NumDeposits = 3
  Users = {u1, u2}
  Recipients = {r1, r2}
  Unit = 2
  Processors = {p1, p2}
  Expirable = {2}
  Relocatable = {1}
  DbFaults = TRUE
  Crashes = 0
  u1 = u1
  u2 = u2
  r1 = r1
  r2 = r2
  p1 = p1
  p2 = p2
  UserOf <- UserOfDeposit
  PurposeOf <- MixedPurposes
  AmountOf <- OddAmounts
  PackageOf <- Packages
  RecipientOf <- FirstRecipient
INVARIANTS DeliveriesMatchBalances LedgerMatchesBalance
SYMMETRY Symmetry
CHECK_DEADLOCK FALSE
