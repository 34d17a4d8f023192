SPECIFICATION Spec
CONSTANTS
    r1 = r1
    r2 = r2
    Readers = {r1, r2}
    Targets <- TwoTargets
    NoSlot = none
    Depth = 2
    QueueCap = 1
    ViewCap = 1
    Threshold = 2
    Lossy = TRUE
    MaxFrames = 3
    MaxFaults = 0
    MaxReallocs = 1
    MaxCrashes = 1
    MaxRestarts = 1
INVARIANT LedgerConsistent
INVARIANT BystandersKeepFrames
CHECK_DEADLOCK FALSE
