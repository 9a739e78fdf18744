SPECIFICATION FairSpec
CONSTANTS
    Slots = {w1, w2}
    NoSlot = NoSlot
    MaxTicks = 2
    Ids = {u1, u2, u3}
    NoId = NoId
    Sent = {u1}
    Requests = {r1, r2}
    StorageQuota = 2
    BandwidthQuota = 1
    MaxAttempts = 2
    MaxLoad = 6
    MaxPuts = 2
    MaxFaults = 1
INVARIANTS
    UploadsInv
    RunHoldsLock
    ServesScannedBytes
    ErasureReachesStorage
PROPERTIES
    DeletedStaysDeleted
    MaliciousIsPurged
CHECK_DEADLOCK FALSE
