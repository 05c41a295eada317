CONSTANTS
  o1 = o1
  o2 = o2
  w1 = w1
  w2 = w2
  c1 = c1
  c2 = c2
  c3 = c3
  c4 = c4
  api = api
  mcp = mcp
  None = None
  Owner = {o1, o2}
  Address = {w1, w2}
  Call = {c1, c2, c3, c4}
  Server = {api, mcp}
  ServerOf <- TwoServers
CHECK_DEADLOCK FALSE
SPECIFICATION Spec
INVARIANTS OneOwner VerifiedByOwnCall NoLateReplay
