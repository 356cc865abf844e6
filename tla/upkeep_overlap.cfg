SPECIFICATION Spec
CONSTANTS
  a1 = a1
  t1 = t1
  Addresses = {a1}
  Trackers = {t1}
  Amounts = {1}
  MaxDeliveries = 2
  MaxTransfers = 1
  MaxHalfDays = 2
  SetCounts = {}
  Audits = FALSE
  OtherUse = FALSE
  Incidents = 1
  Overlap = TRUE
INVARIANTS
  TypeOK
  NeverMoreThanBought
  DeliveredWithinTotal
CHECK_DEADLOCK FALSE
