CONSTANTS
  a = a
  b = b
  s1 = s1
  s2 = s2
  t1 = t1
  t2 = t2
  c1 = c1
  c2 = c2
  api = api
  mcp = mcp
  None = None
  Did = {a, b}
  SettlementId = {s1, s2}
  Server = {api, mcp}
  Tx = {t1}
  Call = {c1}
  ServerOf <- OneEach
  Instruction <- LiveInstructions
  MaxMint = 0
CHECK_DEADLOCK FALSE
SPECIFICATION Spec
INVARIANTS FailedIsNotCompleted
