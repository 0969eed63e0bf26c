SPECIFICATION Spec
CONSTANTS
    k1 = k1
    k2 = k2
    r1 = r1
    r2 = r2
    NoKey = NoKey
    Key <- Keys
    Request <- Requests
    TTL = 1
    MaxTime = 4
    MaxChanges = 2
    MaxRestarts = 1
SYMMETRY Symmetric
INVARIANTS
    RevokedKeyExpires
CHECK_DEADLOCK FALSE
