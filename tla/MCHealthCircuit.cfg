SPECIFICATION HealthSpec
CONSTANTS
  p = p
  m1 = m1
  m2 = m2
  l1 = l1
  l2 = l2
  Nil = Nil
  Provider <- p
  Model <- MCModel
  Lease <- MCLease
  Term <- MCTerm
  RetryAfter <- MCRetryAfter
  FailureWindow = 1
  DegradeAfter = 1
  OpenAfter = 2
  RecoverySuccesses = 2
  Cooldown = 1
  Skew = 1
  MaxTime = 2
SYMMETRY MCSymmetry
INVARIANTS
  LeasesCoverHalfOpen
  StateFitsWindow
PROPERTIES
  OnlyProbesClose
CHECK_DEADLOCK FALSE
