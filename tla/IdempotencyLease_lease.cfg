SPECIFICATION ScopeSpec
CONSTANTS
    Callers = {c1, c2, c3}
    Requests = {q1, q2}
    Tokens = {t1, t2, t3}
    NoToken = NoToken
    NoRequest = NoRequest
    MaxRecords = 2
    MaxCrashes = 1
    Clients = {c1, c2, c3}
    NoClient = NoClient
    Bodies = {q1, q2}
    NoBody = NoBody
    MaxClock = 2
INVARIANTS
    SameAnswer
    EffectsAccountedFor
    OneEffectPerRow
    OneMutationPerLife
    AnswersTellTheTruth
PROPERTIES
    LeaseRespected
CHECK_DEADLOCK FALSE
SYMMETRY Symmetry
