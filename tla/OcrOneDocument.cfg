CONSTANTS
  r1 = r1
  r2 = r2
  r3 = r3
  t1 = t1
  t2 = t2
  t3 = t3
  d1 = d1
  d2 = d2
  Runs = {r1}
  NoRun = NoRun
  Tasks = {t1, t2, t3}
  DraftIds = {d1, d2}
  Numbers = {r1, r2, r3}
  PurchaseNumber <- SharedNumber
  Limit = 2
  MaxRetries = 3
  MaxManualRetries = 5
  MaxChats = 1
  Requests = {"upload", "retry", "delete", "simulate", "approve", "legacyDelete", "removePurchase", "chat"}
  Faults = {"model", "db", "ack", "storage"}
SPECIFICATION Spec
SYMMETRY Symmetry
INVARIANTS Exclusive OneDraftPerRun ChargedOnce RetryOverrun
CHECK_DEADLOCK FALSE
