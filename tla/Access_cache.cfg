SPECIFICATION AccessSpec
CONSTANTS
    Users = {u1}
    Callers = {c1, c2}
    Roles = {global, local}
    OrgRoles = {local}
    NoRole = NoRole
    Scopes = {"context"}
    MaxEpoch = 2
    MaxOrgEpoch = 1
    MaxEntries = 1
INVARIANTS
    AccessInv
CHECK_DEADLOCK FALSE
CONSTRAINT NothingMissed
SYMMETRY Symmetry
