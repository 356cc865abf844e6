SPECIFICATION LiveSpec
CONSTANTS
  a1 = a1
  t1 = t1
  Addresses = {a1}
  Trackers = {t1}
  Amounts = {1, 2}
  MaxDeliveries = 2
  MaxTransfers = 1
  MaxHalfDays = 2
  SetCounts = {1}
  Audits = TRUE
  OtherUse = TRUE
  Incidents = 1
  Overlap = FALSE
INVARIANTS
  CountWithinDeliveries
  
  FinePerDay
PROPERTIES
  
  LowEnergyRefilled
  EmptyReclaimed
CHECK_DEADLOCK FALSE
