SPECIFICATION Spec
CONSTANTS
    Deadline = 2
    CleanupBudget = 2
    MaxFaults = 1
    CaptureLimit = 2
INVARIANTS
    TypeOK
    IntentBeforeFork
    SurvivorClassified
    VerifiedIsTrue
    EndpointsAccounted
    PlanIsTrue
    ReleaseIsHonest
PROPERTIES
    ObservedBeforeReaped
    RunEnds
    ImplementsController
    ImplementsRelease
CHECK_DEADLOCK FALSE
