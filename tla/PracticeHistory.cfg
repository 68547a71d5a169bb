SPECIFICATION Spec
CONSTANTS
    None = None
    Tabs = {t1, t2}
    Flows = {f1, f2}
    Sessions = {s1}
    Parts = 1
    MaxEpoch = 1
    MaxQueued = 2
SYMMETRY Symmetry
INVARIANTS
    SeriesStaysGone
    ServerForgets
    CompleteIsWhole
    KeptByEqualTabs
CHECK_DEADLOCK FALSE
