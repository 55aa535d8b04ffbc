SPECIFICATION FairSpec
CONSTANTS
    Node = {n1, n2}
    Vol = {v1, v2}
    None = None
    LeaseMode = "runtime-guard"
    HaTakeover = TRUE
    MaxLapsed = 0
    MaxEpoch = 2
PROPERTY OperationsEnd
