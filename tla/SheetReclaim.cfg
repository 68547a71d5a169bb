SPECIFICATION FairSpec
CONSTANTS
    None = None
    Requests = {r1}
    Keys = {k1}
    Legacy = {x, y}
    Shared = {o}
    Jobs = {j1}
    Cleaners = {c1}
    OperationLease = 1
    StagedGrace = 1
    RetiredGrace = 1
    FileLease = 1
PROPERTY Reclaimed
CHECK_DEADLOCK FALSE
