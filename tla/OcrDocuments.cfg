CONSTANTS
  r1 = r1
  r2 = r2
  r3 = r3
  t1 = t1
  t2 = t2
  t3 = t3
  d1 = d1
  d2 = d2
  Runs = {r1, r2, r3}
  NoRun = NoRun
  Tasks = {t1, t2}
  DraftIds = {d1, d2}
  Numbers = {r1, r2, r3}
  PurchaseNumber <- SharedNumber
  Limit = 1
  MaxRetries = 1
  MaxManualRetries = 1
  MaxChats = 1
  Requests = {"upload", "retry", "delete", "simulate", "approve", "removePurchase"}
  Faults = {"model", "storage"}
SPECIFICATION Spec
SYMMETRY Symmetry
INVARIANTS QuotaOverrun DocumentKept
PROPERTIES ImplementsContract
CHECK_DEADLOCK FALSE
