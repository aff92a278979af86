CONSTANTS
    Calls = {c1, c2}
    Tools <- MCTools
    TargetLists <- MCTargetLists
    MaxTargets = 2
SPECIFICATION Spec
CHECK_DEADLOCK FALSE
INVARIANTS
    TypeOK
    ClosedGateIsSilent
    BulkOncePerTarget
    BulkIsComplete
    LogIsTruthful
    ReportedIsLogged
PROPERTIES
    EveryCallAnswered
