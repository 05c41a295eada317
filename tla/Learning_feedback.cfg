CONSTANTS
  a1 = a1
  a2 = a2
  e1 = e1
  e2 = e2
  e3 = e3
  c1 = c1
  c2 = c2
  c3 = c3
  c4 = c4
  api = api
  mcp = mcp
  None = None
  Agent = {a1, a2}
  Execution = {e1, e2, e3}
  AgentOf <- Agents
  Call = {c1, c2, c3}
  Server = {api, mcp}
  ServerOf <- TwoServers
  Score <- GivenScores
SYMMETRY Calls
CHECK_DEADLOCK FALSE
SPECIFICATION Spec
INVARIANTS TypeOK ReputationExplained NoneForgotten ShownIsApplied
