CONSTANTS
  n1 = n1
  n2 = n2
  x1 = x1
  x2 = x2
  x3 = x3
  t1 = t1
  t2 = t2
  t3 = t3
  Tenants = {n1, n2}
  NoTenant = NoTenant
  Transactions = {x1, x2, x3}
  NoTransaction = NoTransaction
  TenantOf <- TwoTenants
  CycleOf <- Monthly
  Tasks = {t1, t2}
  Requests = {}
  MailFails = TRUE
  MaxLosses = 1
  MaxTime = 3
  Mixes = {"payments", "dunning"}
SPECIFICATION MixSpec
INVARIANTS BookedOnce IssuedOnce OwnNumberFree
PROPERTIES OverdueSuspended
CHECK_DEADLOCK FALSE
