SPECIFICATION Spec
CONSTANTS
    Requests = {r1, r2}
    Emails = {e1, e2, e3}
    NoEmail = NoEmail
    MaxAttempts = 2
    MaxChallenges = 2
    MaxCalls = 5
    MaxAdmin = 1
    MaxFaults = 1
CHECK_DEADLOCK FALSE
INVARIANTS
    AuthInv
    GuessesBounded
    EmailProven
PROPERTIES
    SuspensionHolds
