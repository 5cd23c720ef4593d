CONSTANTS
  r1 = r1
  r2 = r2
  t1 = t1
  t2 = t2
  d1 = d1
  d2 = d2
  Runs = {r1, r2}
  NoRun = NoRun
  Tasks = {t1, t2}
  DraftIds = {d1}
  Numbers = {r1, r2}
  PurchaseNumber <- DistinctNumbers
  Limit = 2
  MaxRetries = 2
  MaxManualRetries = 1
  MaxChats = 1
  Requests = {"upload", "delete"}
  Faults = {"model", "db"}
  MaxAutoRetries = 2
  BatchSize = 1
  MaxCrashes = 1
SPECIFICATION FairRecoverySpec
PROPERTIES ImplementsContract Settles
CHECK_DEADLOCK FALSE
