SPECIFICATION Spec
CONSTANTS
    Node = {n1, n2, n3}
    Vol = {v1}
    None = None
    LeaseMode = "disabled"
    HaTakeover = FALSE
    MaxLapsed = 1
    MaxEpoch = 2
SYMMETRY NodeSymmetry
INVARIANTS TypeOK SingleKernel OwnerCoversRuntime
