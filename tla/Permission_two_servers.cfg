CONSTANTS
  o = o
  a1 = a1
  a2 = a2
  c1 = c1
  c2 = c2
  c3 = c3
  api = api
  mcp = mcp
  read = read
  pay = pay
  normal = normal
  confirm = confirm
  usdc = usdc
  eth = eth
  base = base
  None = None
  Owner = {o}
  Agent = {a1}
  OwnerOf <- Owners
  Action = {read, pay}
  Context = {normal, confirm}
  Asset = {usdc, eth}
  Chain = {base}
  HighRisk = {pay}
  Confirming = {confirm}
  Elevated = 75
  Call = {c1, c2}
  Server = {api, mcp}
  ServerOf <- OneEach
  Requests <- SpendingRequests
  Pool <- SpendingPolicies
CHECK_DEADLOCK FALSE
SPECIFICATION Spec
INVARIANTS TotalBudgetKept
