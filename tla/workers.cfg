SPECIFICATION FairSpec
CONSTANTS
    processor = processor
    main = main
    e1 = e1
    e2 = e2
    t1 = t1
    t2 = t2
    Commands = processor
    Main = main
    Entries = {e1, e2}
    Threads = {t1, t2}
    NoEntry = NoEntry
    Unstarted = Unstarted
    MaxRestarts = 1
    MaxCommands = 3
    Modes = {"loop", "task"}
INVARIANT TypeOK
INVARIANT OneRunner
INVARIANT HonestStop
PROPERTY AckedStartRuns
INVARIANT DrainHolds
PROPERTY ToldThreadsEnd
CONSTRAINT Uncrossed
CHECK_DEADLOCK FALSE
