CONSTANTS
  a = a
  b = b
  s1 = s1
  s2 = s2
  t1 = t1
  t2 = t2
  c1 = c1
  c2 = c2
  api = api
  mcp = mcp
  None = None
  Did = {a, b}
  SettlementId = {s1, s2}
  Server = {api, mcp}
  Tx = {t1, t2}
  Call = {c1, c2}
  ServerOf <- OneEach
  Instruction <- MixedInstructions
  MaxMint = 1
CHECK_DEADLOCK FALSE
SPECIFICATION FairSpec
INVARIANTS BalancesExplained AccountsJustified ReplyIsStored FailedIsFinal
PROPERTIES ImplementsLedger CallsEnd
