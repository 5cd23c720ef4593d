CONSTANTS
  r1 = r1
  r2 = r2
  t1 = t1
  t2 = t2
  d1 = d1
  d2 = d2
  Runs = {r1}
  NoRun = NoRun
  Tasks = {t1, t2}
  DraftIds = {d1, d2}
  Numbers = {r1, r2}
  PurchaseNumber <- DistinctNumbers
  Limit = 2
  MaxRetries = 3
  MaxManualRetries = 5
  MaxChats = 1
  Requests = {"upload", "retry"}
  Faults = {"model"}
  MaxAutoRetries = 2
  BatchSize = 1
  MaxCrashes = 1
SPECIFICATION RecoverySpec
INVARIANTS Exclusive
CHECK_DEADLOCK FALSE
