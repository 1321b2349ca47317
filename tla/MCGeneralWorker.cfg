SPECIFICATION Spec
CONSTANTS
    c1 = c1
    c2 = c2
    p1 = p1
    p2 = p2
    Calls = {c1, c2}
    Processes = {p1}
    ProcessOf <- OneProcess
    MaxTurns = 3
    MaxFaults = 2
INVARIANTS StartupAuditPasses NothingRunsAfterRelease NoEffectIsTrue
PROPERTIES AckedTurnsStop
