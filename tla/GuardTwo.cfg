SPECIFICATION Spec
CONSTANTS
    Pool = {p1, p2}
    Serial = TRUE
    HelperMayFail = FALSE
    Attempts = 1
    ReplayLimit = 3
    MaxEpoch = 2
    MaxCall = 3
SYMMETRY PoolSymmetry
INVARIANTS EachPoolRegistered
