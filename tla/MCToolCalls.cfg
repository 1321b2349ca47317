SPECIFICATION Spec
CONSTANTS
  q1 = q1
  q2 = q2
  q3 = q3
  None = None
  Request <- MCRequest
  MaxAttempt = 2
  MaxPolicy = 1
  MaxCalls = 2
  DeniedPolicy <- MCDeniedPolicy
SYMMETRY MCSymmetry
CHECK_DEADLOCK FALSE
INVARIANTS
  RefusalsHold
  RecordsAreTrue
PROPERTIES
  StartsHaveAuthority
