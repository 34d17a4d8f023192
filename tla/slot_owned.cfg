SPECIFICATION Spec
CONSTANTS
    Readers = {r1, r2}
    Viewers = {r1, r2}
    Lessees = {r1}
    Header = header
    Pixels = {p1, p2}
    MaxFrames = 2
    MaxCrashes = 1
INVARIANT LentIsQuiet
PROPERTY LentIsReadable
PROPERTY RecheckCatchesFinishedWrites
CHECK_DEADLOCK FALSE
