CONSTANTS
    Calls = {c1, c2}
    Requests <- MCRequests
    Initial <- MCInitial
    Edits <- MCEdits
    MaxEdits = 1
SPECIFICATION Spec
CHECK_DEADLOCK FALSE
INVARIANTS
    TypeOK
PROPERTIES
    OwnEntryOnly
    OmittedCarriedOver
