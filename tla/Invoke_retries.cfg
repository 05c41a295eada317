CONSTANTS
  a1 = a1
  a2 = a2
  k1 = k1
  t1 = t1
  d1 = d1
  d2 = d2
  c1 = c1
  c2 = c2
  c3 = c3
  e1 = e1
  s1 = s1
  None = None
  Agent = {a1, a2}
  Key = {k1}
  Token = {}
  Did = {d1, d2}
  Call = {c1, c2}
  GivenExec = {}
  GivenSettlement = {s1}
  Requests <- RetriedRequests
  Registered = {a1, a2}
  Capable = {a1, a2}
  Grants <- NoGrants
  MaxMint = 1
CHECK_DEADLOCK FALSE
SPECIFICATION FairSpec
INVARIANTS SettledWithPermission RunOnce ReplyIsStored
PROPERTIES CallsEnd
