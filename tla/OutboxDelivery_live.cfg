SPECIFICATION FairSpec
CONSTANTS
    Events = {e1}
    Relays = {r1, r2}
    Workers = {w1}
    Tokens = {t1, t2}
    NoToken = NoToken
    NoEvent = NoEvent
    NoWorker = NoWorker
    Expirable = {}
    MaxGeneration = 1
    MaxAttempts = 2
    MaxStalledCount = 1
    EmailEventsConfigured = TRUE
    FaultBudget <- RelayFaults
INVARIANTS
    EnqueuedHasJob
PROPERTIES
    EventuallyQueued
    BackedDeliverySettles
CHECK_DEADLOCK FALSE
