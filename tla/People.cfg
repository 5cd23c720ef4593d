CONSTANTS
  t1 = t1
  t2 = t2
  n1 = n1
  d1 = d1
  x1 = x1
  p1 = p1
  p2 = p2
  p3 = p3
  c1 = c1
  c2 = c2
  c3 = c3
  u1 = u1
  q1 = q1
  q2 = q2
  e1 = e1
  e2 = e2
  e3 = e3
  f1 = f1
  None = None
  Nobody = Nobody
  Tasks = {t1, t2}
  Mixes <- SomeMixes
  Tenants = {n1}
  Devices = {d1}
  Secrets = {x1}
  Passwords = {p1, p2, p3}
  Threshold = 2
  HistorySize = 1
  TrustLimit = 1
  Expiry = 1
  MaxSessions = 2
  MaxFails = 2
  MaxTime = 1
  MaxCutoffs = 1
  Calls = {c1, c2, c3}
  CallMixes <- SomeCallMixes
  Home = Home
  Staff = {u1}
  EmailOf <- StaffEmail
  Demos = {q1, q2}
  DemoEmail <- DemoEmails
  DemoPrefix <- DemoPrefixes
  Emails = {e1, e2, e3}
  TenantPrefixes = {f1}
SPECIFICATION PeopleSpec
VIEW Moving
SYMMETRY Symmetry
INVARIANTS
  PeopleTypeOK
  ConsentFirst HistoryKeepsApart CutOffIsFinal LockEarned
  OneCompanyPerDemo NoOrphans ReviewFindsThem
PROPERTIES
  SharedStay
CHECK_DEADLOCK FALSE
