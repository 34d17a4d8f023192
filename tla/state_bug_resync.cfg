SPECIFICATION Spec
CONSTANTS
    a = a
    b = b
    node = node
    all = all
    Leaves = {a, b}
    Nodes = {node}
    Below <- NodeLeaves
    NoPattern = NoPattern
    Patterns = {all}
    Covers <- OnePattern
    Threads = {processor}
    Commands = processor
    QueueCap = 1
    MaxRevision = 3
INVARIANT ResyncRepairs
CHECK_DEADLOCK FALSE
