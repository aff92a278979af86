CONSTANTS
    Callers = {k1, k2, k3}
    NoCaller = NoCaller
    Background = Background
SPECIFICATION Spec
CHECK_DEADLOCK FALSE
INVARIANTS
    TypeOK
    OwnConsentOnly
    SourceOutlivesCall
PROPERTIES
    ConsentOnce
    EveryCallerAnswered
