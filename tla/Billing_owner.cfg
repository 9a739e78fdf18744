SPECIFICATION FairSpec
CONSTANTS
    Requests = {r1, r2}
    Handlers = {h1, h2}
    Keys = {k1, k2}
    NoKey = NoKey
    Cards = {c1, c2}
    NoCard = NoCard
    Received = 2
    RefundLimit = 2
    MaxCalls = 3
    MaxCardCalls = 2
    MaxChanges = 1
    MaxFaults = 1
CHECK_DEADLOCK FALSE
INVARIANTS
    BillingInv
    RefundOnce
PROPERTIES
    CustomerStable
    CancellationIsProjected
    DeletionEndsPlan
