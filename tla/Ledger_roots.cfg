CONSTANTS
  None = None
  api = api
  mcp = mcp
  w1 = w1
  w2 = w2
  w3 = w3
  w4 = w4
  Writer = {w1, w2, w3, w4}
  Server = {api, mcp}
  ServerOf <- TwoServers
  MaxRows = 4
  MaxTime = 1
SYMMETRY Writers
CHECK_DEADLOCK FALSE
SPECIFICATION Spec
INVARIANTS RootsArePast IndexIsCurrent ProofsHold RootsCommit
