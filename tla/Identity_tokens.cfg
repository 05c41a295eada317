CONSTANTS
  a1 = a1
  f1 = f1
  f2 = f2
  c1 = c1
  c2 = c2
  c3 = c3
  api = api
  mcp = mcp
  None = None
  Service = Service
  Agent = {a1}
  Field = {f1, f2}
  Call = {c1, c2, c3}
  Server = {api, mcp}
  ServerOf <- TwoServers
  MaxStarts = 2
  PinnedKey <- TwoKeys
SYMMETRY Alike
CHECK_DEADLOCK FALSE
SPECIFICATION Spec
INVARIANTS ServiceTokensHold SignedByIssuer
PROPERTIES UpdatesKeepTheRest
