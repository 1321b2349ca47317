SPECIFICATION WriteSpec
CONSTANTS
  o1 = o1
  o2 = o2
  Nothing = Nothing
  Operation <- MCOperation
  Approved <- MCApproved
  Diff <- MCDiff
  MaxFaults = 2
CHECK_DEADLOCK FALSE
INVARIANTS
  TreeIsWhole
  RollbackIsNeverStuck
  RecordsMatchTree
  CandidatesRunAlone
PROPERTIES
  CommitsGetReported
