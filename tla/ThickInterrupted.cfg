SPECIFICATION FairSpec
CHECK_DEADLOCK FALSE
CONSTANTS
    Region = {r1, r2}
    Data = {a}
    Zero = Zero
    Junk = Junk
    Snap = {s1, s2}
    Missing = Missing
    MaxGen = 4
    MaxCrash = 2
INVARIANTS TypeOK FrontServesDisk TransitionOwned SnapshotsSealed
PROPERTIES ImplementsVolume HostLossRecovers
