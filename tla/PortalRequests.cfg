SPECIFICATION Spec
CONSTANTS
    None = None
    Members = {m1}
    Calls = {c1, c2, c3}
    MaxVersion = 1
    MaxGeneration = 2
SYMMETRY Symmetry
INVARIANTS
    SavesAreSeen
    SignOutStays
CHECK_DEADLOCK FALSE
