SPECIFICATION Spec
CONSTANTS
  n1 = n1
  n2 = n2
  n3 = n3
  q1 = q1
  why1 = why1
  why2 = why2
  None = None
  Node <- MCSingleNode
  Request <- MCRequest
  Reason <- MCTwoReasons
  MaxNodes = 3
  MaxDepth = 2
  MaxAttempts = 2
CHECK_DEADLOCK FALSE
INVARIANT
  PausedCanResume
