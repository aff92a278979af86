CONSTANTS
    Calls = {c1}
    MaxRetries = 4
    Answers <- MCAnswers
    MaxDuration = 63
    Second = 5
    BaseDelay = 2
    MaxDelay = 40
SPECIFICATION Spec
CHECK_DEADLOCK FALSE
INVARIANTS
    TypeOK
    DuplicateOnlyAfterUnavailable
    RefusedMeansUntouched
    WaitFollowsServer
PROPERTIES
    NothingSentAfterCancel
    ImplementsContract
    EveryCallReturns
