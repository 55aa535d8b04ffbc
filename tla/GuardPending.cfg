SPECIFICATION Spec
CONSTANTS
    Pool = {p1}
    Serial = FALSE
    HelperMayFail = FALSE
    Attempts = 1
    ReplayLimit = 3
    MaxEpoch = 2
    MaxCall = 2
INVARIANT PendingUntilDeadline
