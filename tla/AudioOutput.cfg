SPECIFICATION Spec
CONSTANTS
    None = None
    Tabs = {t1, t2}
    Permit = 1
    Stale = 1
    MaxGeneration = 2
    MaxShown = 1
SYMMETRY Symmetry
INVARIANTS
    OneAtATime
PROPERTIES
    HandedOver
CHECK_DEADLOCK FALSE
