SPECIFICATION FairSpec
CONSTANTS
    r1 = r1
    r2 = r2
    Readers = {r1}
    Targets <- OneTarget
    NoSlot = none
    Depth = 3
    QueueCap = 2
    ViewCap = 2
    Threshold = 3
    Lossy = FALSE
    MaxFrames = 7
    MaxFaults = 1
    MaxReallocs = 0
    MaxCrashes = 0
    MaxRestarts = 0
INVARIANT TypeOK
INVARIANT LoanExact
PROPERTY LoansReturn
CHECK_DEADLOCK FALSE
