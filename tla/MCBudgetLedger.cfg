SPECIFICATION Spec
CONSTANTS
  r1 = r1
  r2 = r2
  r3 = r3
  rk1 = rk1
  rk2 = rk2
  rk3 = rk3
  sk1 = sk1
  sk2 = sk2
  p1 = p1
  p2 = p2
  Unlimited = Unlimited
  None = None
  Reservation <- MCReservation
  ReserveKey <- MCReserveKey
  SettlementKey <- MCSettlementKey
  Process <- MCProcess
  Dim <- MCDim
  Amount <- MCAmount
  Limit <- MCLimit
SYMMETRY MCSymmetry
INVARIANTS
  AnswersAreTrue
PROPERTIES
  UnknownStaysHeld
  ImplementsEnvelope
