SPECIFICATION Spec
CONSTANTS
    Events = {e1}
    Relays = {r1}
    Workers = {w1, w2}
    Tokens = {t1, t2}
    NoToken = NoToken
    NoEvent = NoEvent
    NoWorker = NoWorker
    Expirable = {e1}
    MaxGeneration = 1
    MaxAttempts = 2
    MaxStalledCount = 1
    EmailEventsConfigured = FALSE
    FaultBudget <- WorkerFaults
INVARIANTS
    OwnershipInv
    DeliveredMeansHandled
    NoResendAfterRecord
PROPERTIES
    ImplementsLifecycle
CHECK_DEADLOCK FALSE
SYMMETRY Symmetry
