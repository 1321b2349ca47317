SPECIFICATION Spec
CONSTANTS
  r1 = r1
  r2 = r2
  n1 = n1
  n2 = n2
  p1 = p1
  s1 = s1
  q1 = q1
  None = None
  Run <- MCRun
  Node <- MCNode
  Provider <- MCProvider
  Sweeper <- MCSweeper
  Request <- MCRequest
  AsOf <- MCAsOf
  Graph <- MCGraph
  ToolUser <- MCToolUser
  MaxNodes = 2
  MaxDepth = 1
  MaxAttempts = 2
  SystemLimit = 2
  RunLimit = 1
  ProviderLimit = 2
  ToolLimit = 1
  MaxAgents = 2
  MaxConcurrentAgents = 2
  ProbesRouted = FALSE
SYMMETRY MCSymmetry
CHECK_DEADLOCK FALSE
INVARIANTS
  RunsAgree
  WithinConcurrency
PROPERTIES
  NoSuccessAfterCancel
