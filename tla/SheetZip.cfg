SPECIFICATION Spec
CONSTANTS
    Workers = {w1, w2}
    Files = {1, 2}
    Sizes <- MCSizes
    MaxZip = 5
    ComposeLimit = 2
    MaxAttempts = 3
    StepLease = 1
    Abandoned = 1
    ReadyTtl = 1
SYMMETRY Symmetry
INVARIANTS
    ReadyComplete
    PartsFit
PROPERTIES
    NoLateWork
CHECK_DEADLOCK FALSE
