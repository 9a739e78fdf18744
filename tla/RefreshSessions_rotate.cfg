SPECIFICATION Spec
CONSTANTS
    Requests = {r1, r2}
    Sessions = {s1, s2}
    Tokens = {t1, t2, t3}
    NoRequest = NoRequest
    NoSession = NoSession
    NoToken = NoToken
INVARIANTS
    SessionInv
    RevokedSessionIsDead
    ReuseRevokesSession
CHECK_DEADLOCK FALSE
SYMMETRY Symmetry
