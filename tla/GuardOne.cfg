SPECIFICATION FairSpec
CONSTANTS
    Pool = {p1}
    Serial = FALSE
    HelperMayFail = TRUE
    Attempts = 2
    ReplayLimit = 2
    MaxEpoch = 2
    MaxCall = 3
INVARIANTS TypeOK LoadedIsGuarded
PROPERTIES FencingIsFinal LostPoolUnloaded
