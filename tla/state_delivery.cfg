SPECIFICATION FairSpec
CONSTANTS
    a = a
    b = b
    node = node
    all = all
    Leaves = {a, b}
    Nodes = {node}
    Below <- NodeLeaves
    NoPattern = NoPattern
    Patterns = {all}
    Covers <- OnePattern
    Threads = {processor, monitor}
    Commands = processor
    QueueCap = 1
    MaxRevision = 3
INVARIANT TypeOK
INVARIANT RevisionIsHonest
INVARIANT NoSilentDivergence
PROPERTY SettlesCurrent
CHECK_DEADLOCK FALSE
