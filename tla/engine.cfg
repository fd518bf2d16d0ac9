SPECIFICATION Spec
CONSTANTS
    Keys = {1, 2}
    ValueLengths <- Lengths
    Clients = {c1, c2}
    maxEntries = 2
    MaxWrites = 4
    MaxFaults = 1
    MaxRestarts = 1
INVARIANTS
    EngineTypeOK
    LogReadsBack
    AckedRecoverable
    ReplayRebuildsMemtable
CHECK_DEADLOCK FALSE
