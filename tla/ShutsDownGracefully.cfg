CONSTANTS
    Requests = {r1, r2}
    Sessions = {s1, s2}
    Bearers <- MCBearers
    Issuers = {"A", "B"}
    Targets = {"zoe"}
    None = None
SPECIFICATION Spec
CHECK_DEADLOCK FALSE
INVARIANT ShutsDownGracefully
