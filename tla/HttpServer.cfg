CONSTANTS
    Requests = {r1, r2}
    Users = {alice, bob}
    NoUser = NoUser
    NoRequest = NoRequest
    Background = Background
    Responsive = {alice}
    MaxRetries = 1
    Answers <- MCAnswers
SPECIFICATION ServerSpec
CHECK_DEADLOCK FALSE
INVARIANTS
    ServerTypeOK
    ActsAsOwnUser
    CachedSourceOutlivesRequest
PROPERTIES
    ResponsiveCallsReturn
