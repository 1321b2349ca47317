SPECIFICATION Spec
CONSTANTS
  a1 = a1
  c1 = c1
  c2 = c2
  i1 = i1
  i2 = i2
  h1 = h1
  h2 = h2
  None = None
  Call <- MCCall
  Attempt <- MCAttempt
  AttemptOf <- MCAttemptOf
  Invoker <- MCInvoker
  Reconciler <- MCReconciler
  Usage <- MCUsage
  Time <- MCTime
  Envelope = 2
  Owned = TRUE
CHECK_DEADLOCK FALSE
INVARIANTS
  DispatchedOnce
  RecordsAreTrue
  SettledAsProved
  NoSenderAfterRelease
  AlwaysStartable
PROPERTIES
  ProofsGetSettled
