CONSTANTS
  n1 = n1
  n2 = n2
  q1 = q1
  k1 = k1
  NoValue = NoValue
  Tenants = {n1, n2}
  Requests = {q1}
  Tokens = {k1}
  Roles = {"Contador"}
  Routes <- SomeRoutes
  Subscriptions <- Enterprise
  Cap <- Caps
  MaxUsed = 0
  Profiles <- Required
SPECIFICATION AccessSpec
PROPERTIES PlanAdmits
CHECK_DEADLOCK FALSE
