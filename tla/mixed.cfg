SPECIFICATION Spec
CONSTANTS
    Keys = {1, 2}
    EntrySize = 2
    Overhead = 1
    StableSort = TRUE
    MaxInputs = 50
    MaxSwitches = 0
    Faults = {}
    MaxFaults = 0
    Workload = "mixed"
    maxEntries = 1
    MaxWrites = 3
    MaxClock = 1
INVARIANTS
    SkippedInputsAreObsolete
    NoKeyLost
    FlagsAlwaysCleared
