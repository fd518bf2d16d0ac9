SPECIFICATION Spec
CONSTANTS
    Keys = {1, 2}
    EntrySize = 2
    Overhead = 1
    StableSort = TRUE
    MaxInputs = 50
    MaxSwitches = 0
    Faults = {"append"}
    MaxFaults = 1
    Workload = "client"
    maxEntries = 1
    MaxWrites = 3
    MaxClock = 0
INVARIANTS
    NoKeyLost
    LastWriteDurable
PROPERTIES
    ImplementsVersionStore
