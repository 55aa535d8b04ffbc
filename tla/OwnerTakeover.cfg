SPECIFICATION Spec
CONSTANTS
    Node = {n1, n2, n3}
    Vol = {v1}
    None = None
    LeaseMode = "remote-audit"
    HaTakeover = TRUE
    MaxLapsed = 0
    MaxEpoch = 2
PROPERTY TakeoverKeepsContext
