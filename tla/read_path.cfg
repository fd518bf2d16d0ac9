SPECIFICATION Spec
CONSTANTS
    Keys = {1, 2, 3, 4}
    EntrySize = 2
    Overhead = 1
    StableSort = FALSE
    Stride = 2
    MaxWrites = 4
    MaxClock = 1
INVARIANTS
    LayoutOK
    MemtableIsTable
    GetImplementsLookup
    ScanReturnsBlock
    WalkBounded
    HandlerReadsWithinSecond
CHECK_DEADLOCK FALSE
