CONSTANTS
  a1 = a1
  a2 = a2
  k1 = k1
  t1 = t1
  d1 = d1
  d2 = d2
  c1 = c1
  c2 = c2
  c3 = c3
  e1 = e1
  s1 = s1
  None = None
  Agent = {a1, a2}
  Key = {k1}
  Token = {t1}
  Did = {d1, d2}
  Call = {c1, c2}
  GivenExec = {e1}
  GivenSettlement = {s1}
  Requests <- GuardedRequests
  Registered = {a1, a2}
  Capable = {a2}
  Grants <- TokenGrants
  MaxMint = 1
CHECK_DEADLOCK FALSE
SPECIFICATION Spec
INVARIANTS ExecutedWithPermission LateIsRefused SettlementIsReported
