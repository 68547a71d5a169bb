SPECIFICATION MCSpec
CONSTANTS
    None = None
    Tasks = {t1, t2}
    MaxTicket = 6
    Loads = {l1, l2}
    MaxVersion = 1
    MaxRefresh = 2
    MaxTry = 2
    MaxSaves = 1
SYMMETRY Symmetry
INVARIANTS
    ScreensFollow
    
    LoadsSpeak

    
CHECK_DEADLOCK FALSE
