SPECIFICATION FairSpec
CONSTANTS
    Calls = {c1}
    Keys = {k1, k2}
    NoKey = NoKey
    Handlers = {h1}
    MaxFailures = 2
PROPERTIES
    PaidIsConsumed
