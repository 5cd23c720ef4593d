CONSTANTS
  p1 = p1
  p2 = p2
  l1 = l1
  l2 = l2
  i1 = i1
  i2 = i2
  u1 = u1
  x1 = x1
  t1 = t1
  t2 = t2
  t3 = t3
  None = None
  Products = {p1}
  Locations = {l1, l2}
  Opening <- TwoEach
  Orders <- SomeOrders
  Quantities = {1}
  Invoices = {i1, i2}
  Purchases = {u1}
  Transfers = {x1}
  Tasks = {t1, t2}
  AllowNegativeStock = FALSE
  Requests = {"setInvoice", "removeInvoice", "purchase", "movement", "transfer", "audit", "receipt"}
  MaxMovements = 3
  MaxEntries = 1
SPECIFICATION MixSpec
SYMMETRY Symmetry
INVARIANTS TypeOK SalesCovered NumbersBooked KardexAgrees
CHECK_DEADLOCK FALSE
