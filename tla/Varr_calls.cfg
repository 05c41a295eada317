CONSTANTS
  a1 = a1
  a2 = a2
  g1 = g1
  g2 = g2
  g3 = g3
  x1 = x1
  x2 = x2
  w1 = w1
  w2 = w2
  f1 = f1
  f2 = f2
  draft = draft
  publish = publish
  shell = shell
  n1 = n1
  n2 = n2
  r1 = r1
  c1 = c1
  c2 = c2
  c3 = c3
  server = server
  None = None
  AgentId = {a1, a2}
  GrantId = {g1, g2, g3}
  ContextId = {x1, x2}
  WorkflowId = {w1, w2}
  FeedbackId = {f1, f2}
  Action = {draft, publish, shell}
  Namespace = {n1, n2}
  Resource = {r1}
  NamespaceOf <- ResourceNamespace
  Risk <- ActionRisk
  Grant <- GrantTable
  Context <- ContextTable
  Workflow <- WorkflowTable
  Call = {c1, c2, c3}
  Server = server
  Homes <- BothHomes
  ServerRequests <- ServerAsks
  CliRequests <- CliAsks
  Seeds <- Start
SYMMETRY CallSymmetry
CHECK_DEADLOCK FALSE
SPECIFICATION Spec
INVARIANTS WellNumbered ReceiptsTrue AloneIsReceipted SignalsJustified RanWithinBounds SuspendedStaysOut SavedIsKept
PROPERTIES EvidenceKept
