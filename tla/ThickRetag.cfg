SPECIFICATION Spec
CHECK_DEADLOCK FALSE
CONSTANTS
    Region = {r1}
    Data = {a}
    Zero = Zero
    Junk = Junk
    Snap = {s1}
    Missing = Missing
    MaxGen = 3
    MaxCrash = 1
INVARIANT GenerationsAreSnapshots
