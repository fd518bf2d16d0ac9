SPECIFICATION Spec
CONSTANTS
    Keys = {1, 2}
    EntrySize = 2
    Overhead = 1
    StableSort = TRUE
    MaxInputs = 50
    MaxSwitches = 0
    Faults = {}
    MaxFaults = 0
    Workload = "shift"
    maxEntries = 1
    MaxWrites = 4
    MaxClock = 0
INVARIANT NewerInputWins
