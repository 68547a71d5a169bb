SPECIFICATION MCSpec
CONSTANTS
    Nobody = Nobody
    MaxTaps = 3
    Settings = {s1, s2}
    Invalid = Invalid
    MaxEdits = 3
    MaxGeneration = 4
    Contexts = {x1, x2, x3}
    Sessions = {1, 2}
    Routes = {11, 12}
    MaxPreps = 2
    MaxSeq = 5
INVARIANTS
    NothingUnasked
    RunHasOutput
    EditorIsPlayed
    TunerSafe
    AsComputedAfterwards
    AnalysisSafe
    EveryBarAsWritten
CHECK_DEADLOCK FALSE
