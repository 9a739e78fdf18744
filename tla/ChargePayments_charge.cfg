SPECIFICATION Spec
CONSTANTS
    Calls = {c1, c2}
    Keys = {k1, k2}
    NoKey = NoKey
    Handlers = {h1}
    MaxFailures = 1
SYMMETRY Symmetry
INVARIANTS
    PaymentHoldsItem
    PaidOnce
