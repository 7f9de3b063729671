SPECIFICATION MCSpec
CONSTANTS
    MaxAttempts = 2
    a = a
    b = b
    edit1 = edit1
    edit2 = edit2
    Tabs = {a, b}
    Elements = {edit1, edit2}
    MaxHeld = 1
    MaxOffline = 1
    MaxRepairs = 1
    MaxFaults = 2
INVARIANTS TypesOK WorkMatchesPhase
PROPERTIES LateLoadsHarmless RetriesEnd SyncingEnds Converges RepliesEnd
CHECK_DEADLOCK FALSE
