SPECIFICATION Spec
CONSTANTS
    Readers = {r1, r2}
    Viewers = {r2}
    Lessees = {r2}
    Header = header
    Pixels = {p1, p2}
    MaxFrames = 3
    MaxCrashes = 1
INVARIANT TypeOK
INVARIANT NoTornFrame
PROPERTY NeverOlder
PROPERTY ImplementsAtomicSlot
CHECK_DEADLOCK FALSE
