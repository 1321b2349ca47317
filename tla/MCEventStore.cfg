SPECIFICATION Spec
CONSTANTS
  tA = tA
  tB = tB
  x = x
  k1 = k1
  k2 = k2
  k3 = k3
  once = once
  many = many
  p1 = p1
  p2 = p2
  None = None
  Type <- MCType
  Id <- MCId
  Key <- MCKey
  Body <- MCBody
  OneShot <- MCOneShot
  Drafts <- MCDrafts
  Process <- MCProcess
  MaxLen = 3
  MaxDepth = 2
SYMMETRY MCSymmetry
CHECK_DEADLOCK FALSE
INVARIANTS
  RecordsAreExact
  RecoveryIsReplay
PROPERTIES
  ImplementsLog
