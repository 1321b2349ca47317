SPECIFICATION UnitSpec
CONSTANTS
    Waiter = w
    Stoppers = {s1, s2}
INVARIANTS ReceiptsAreFinal
PROPERTIES StopsGetProved
CHECK_DEADLOCK FALSE
