SPECIFICATION Spec
CONSTANTS
    None = None
    Members = {m1}
    Calls = {c1, c2}
    MaxVersion = 0
    MaxGeneration = 1
SYMMETRY Symmetry
INVARIANTS
    SignOutAlwaysStays
CHECK_DEADLOCK FALSE
