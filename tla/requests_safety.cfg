SPECIFICATION Spec
CONSTANTS
  Callers = {c1, c2, c3, c4}
  Keys = {k1, k2}
  Wallets = {t1}
  MaxTopups = 2
  DbFaults = TRUE
  Crashes = 1
  c1 = c1
  c2 = c2
  c3 = c3
  c4 = c4
  k1 = k1
  k2 = k2
  t1 = t1
  KeyOf <- SharedKey
  WalletOf <- OneWallet
INVARIANTS TypeOK ChargedOncePerKey FinalStatusMatchesCharge BalanceMatchesLedger
PROPERTIES ImplementsAccount
CHECK_DEADLOCK FALSE
