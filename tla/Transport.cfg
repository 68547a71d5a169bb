SPECIFICATION Spec
CONSTANTS
    None = None
    Snapshots <- Starts
    Edits <- Changes
    CountIns = {1}
    Modes = {"nextPulse", "nextBar"}
    Guard = 1
    Delay = 1
    Horizon = 3
    Permit = 3
    TailFrames = 1
    Capacity = 2
    MaxFrame = 6
    MaxGeneration = 2
    MaxEdits = 1
    MaxLag = 2
    MaxPosts = 2
INVARIANTS
    SteadyBeat
    HeardAsShown
    StandsStill
CHECK_DEADLOCK FALSE
