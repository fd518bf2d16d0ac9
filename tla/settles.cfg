SPECIFICATION FairSpec
CONSTANTS
    Keys = {1, 2}
    EntrySize = 2
    Overhead = 1
    StableSort = FALSE
    MaxInputs = 2
    MaxSwitches = 1
    Faults = {"append", "mmap"}
    MaxFaults = 1
    Workload = "shift"
    maxEntries = 1
    MaxWrites = 3
    MaxClock = 0
INVARIANTS
    FlagsAlwaysCleared
    SoleCompactorKeepsInputs
PROPERTIES
    CompactionSettles
