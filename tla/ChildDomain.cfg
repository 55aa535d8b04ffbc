SPECIFICATION Spec
CONSTANTS
    Leader = leader
    Descendants = {d1, d2, d3}
    DeadlineNs = 2
    MAX_ADOPTED_RECORDS = 2
    MaxFaults = 1
INVARIANTS
    TypeOK
    DrainedIsTrue
    RecordsExact
PROPERTIES
    OnlyPinnedReaped
    DrainEnds
CHECK_DEADLOCK FALSE
