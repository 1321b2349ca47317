SPECIFICATION ArtifactSpec
CONSTANTS
  p1 = p1
  p2 = p2
  d1 = d1
  g1 = g1
  r1 = r1
  r2 = r2
  Nobody = Nobody
  Publication = {p1, p2}
  Digest = {d1}
  Reader = {r1, r2}
  Grant = {g1}
  Of <- MCOf
  For <- MCFor
  MaxFaults = 2
  MaxCuts = 1
INVARIANTS
  PublishedSurvive
  ReportedAreOver
  ReadsAreServedOnce
PROPERTY
  RecoveryEnds
CHECK_DEADLOCK FALSE
