CONSTANTS
  k1 = k1
  n1 = n1
  n2 = n2
  q1 = q1
  f1 = f1
  f2 = f2
  h1 = h1
  h2 = h2
  s1 = s1
  w1 = w1
  c1 = c1
  c2 = c2
  c3 = c3
  y1 = y1
  y2 = y2
  r1 = r1
  r2 = r2
  g1 = g1
  o1 = o1
  o2 = o2
  u1 = u1
  u2 = u2
  l1 = l1
  l2 = l2
  x1 = x1
  x2 = x2
  b1 = b1
  b2 = b2
  NoValue = NoValue
  NoDay = NoDay
  NoHook = NoHook
  NoKey = NoKey
  NoCompany = NoCompany
  NoTransaction = NoTransaction
  NoTenant = NoTenant
  Tenants = {n1, n2}
  Requests = {q1}
  Tokens = {k1}
  Roles = {"Contador"}
  Routes <- SomeRoutes
  Subscriptions <- Enterprise
  Cap <- Caps
  MaxUsed = 0
  Profiles <- Required
  RateKeys = {"n1"}
  Limit = 2
  Window = 2
  MaxClock = 7
  FirstDay = 20000
  MaxDays = 3
  RETENTION_DAYS = 1
  RETENTION_WEEKLY = 1
  DaysPerWeek = 2
  Firms = {f1, f2}
  Chats = {h1, h2}
  Keys = {s1}
  Plan <- SomePlan
  Hooks = {w1}
  Sends = {c1, c2, c3}
  MaxRetries = 2
  KeyIds = {y1, y2}
  Names = {"a"}
  Creators = {r1, r2}
  Callers = {g1}
  Lives = {0, 1}
  LastDay = 3
  Companies = {o1, o2}
  People = {u1, u2}
  Owners = {}
  FirstMembers <- SomeMembers
  Marks = {"updatedAt"}
  Demands = {l1, l2}
  Transactions = {x1, x2}
  Deliveries = {b1, b2}
  MaxComplaints = 1
  i1 = i1
  t1 = t1
  t2 = t2
  m1 = m1
  m2 = m2
  d1 = d1
  d2 = d2
  p1 = p1
  z1 = z1
  j1 = j1
  v1 = v1
  v2 = v2
  e1 = e1
  e2 = e2
  a1 = a1
  a2 = a2
  None = None
  NoId = NoId
  Invoices = {i1}
  Tasks = {t1, t2}
  Pins = {m1, m2}
  Mixes <- SomeMixes
  MaxDocs = 2
  MaxEvents = 4
  MaxFaults = 1
  Sales = {d1}
  Bought = {d2}
  Total <- Totals
  Subtotal <- Subtotals
  Tax <- Taxes
  Times = {1}
  Amounts = {3}
  Payments = {p1}
  Expensed = {z1}
  Manual = {j1}
  Nits = {v1, v2}
  DefaultNit = v1
  PartyIds = {e1, e2}
  Runs = {"r1"}
  Approvals = {a1, a2}
  Kinds = {"provider"}
  Imports <- SomeFiles
SPECIFICATION OfficeSpec
VIEW Moving
INVARIANTS
  RoleHeld
  RateFair
  RestoreReplaces
  ChatAccounted
  KeyAlive
  ClosedOnce
  EffectsOnce
  StatusIsBacked RecordComplete
  BooksAgree
  ApprovalSound
PROPERTIES
  GivenUpForCause
CHECK_DEADLOCK FALSE
