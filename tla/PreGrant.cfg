SPECIFICATION Spec
CONSTANTS
    Deadline = 2
    MaxFaults = 1
    MAX_READS_PER_TURN = 3
INVARIANTS
    TypeOK
    ExecWasIssued
    CompletedIsTrue
    ChildNeverForgotten
    WriteNeverForgotten
    AuthorityIsBound
PROPERTY RunEnds
CHECK_DEADLOCK FALSE
