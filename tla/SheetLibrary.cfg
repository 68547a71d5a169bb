SPECIFICATION Spec
CONSTANTS
    None = None
    Requests = {r1, r2}
    Keys = {k1, k2}
    Legacy = {x, y}
    Shared = {o, p}
    Jobs = {j1}
    Cleaners = {c1}
    OperationLease = 1
    StagedGrace = 2
    RetiredGrace = 1
    FileLease = 2
ACTION_CONSTRAINT Bound
SYMMETRY Symmetry
INVARIANTS
    RowsBacked
    PublishedOnce
    ReplyTruthful
    NoOrphan
    LeaseProtects
PROPERTIES
    ImplementsCatalog
    VersionCoversList
CHECK_DEADLOCK FALSE
