CONSTANTS
  n1 = n1
  n2 = n2
  x1 = x1
  x2 = x2
  x3 = x3
  t1 = t1
  t2 = t2
  t3 = t3
  Tenants = {n1}
  NoTenant = NoTenant
  Transactions = {x1, x2}
  NoTransaction = NoTransaction
  TenantOf <- OneTenant
  CycleOf <- Mixed
  Tasks = {t1, t2}
  Requests = {"admin", "cancel"}
  MailFails = TRUE
  MaxLosses = 1
  MaxTime = 1
  Mixes = {"all"}
SPECIFICATION MixSpec
INVARIANTS AnswersBooked
PROPERTIES PaymentsArrive
CHECK_DEADLOCK FALSE
