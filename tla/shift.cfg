SPECIFICATION Spec
CONSTANTS
    Keys = {1, 2, 3}
    EntrySize = 2
    Overhead = 1
    StableSort = FALSE
    MaxInputs = 50
    MaxSwitches = 0
    Faults = {"log"}
    MaxFaults = 0
    Workload = "shift"
    maxEntries = 2
    MaxWrites = 4
    MaxClock = 1
INVARIANTS
    TypeOK
    NoKeyLost
    LastWriteKept
    SoleCompactorKeepsInputs
    MissMeansOvertaken
    FlushesReadWithinSecond
    OverlapCountBounds
