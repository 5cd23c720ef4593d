CONSTANTS
  n1 = n1
  n2 = n2
  x1 = x1
  x2 = x2
  x3 = x3
  t1 = t1
  t2 = t2
  t3 = t3
  Tenants = {n1, n2}
  NoTenant = NoTenant
  Transactions = {x1, x2}
  NoTransaction = NoTransaction
  TenantOf <- TwoTenants
  CycleOf <- Monthly
  Tasks = {t1, t2}
  Requests = {}
  MailFails = FALSE
  MaxLosses = 0
  MaxTime = 0
SPECIFICATION Spec
INVARIANTS AckedIsBooked
CHECK_DEADLOCK FALSE
