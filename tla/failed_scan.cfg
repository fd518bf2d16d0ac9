SPECIFICATION Spec
CONSTANTS
    Keys = {1, 2}
    EntrySize = 2
    Overhead = 1
    StableSort = TRUE
    MaxInputs = 50
    MaxSwitches = 0
    Faults = {"mmap"}
    MaxFaults = 1
    Workload = "pureWrite"
    maxEntries = 1
    MaxWrites = 3
    MaxClock = 0
INVARIANT NoKeyLost
