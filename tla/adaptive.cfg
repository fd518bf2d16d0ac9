SPECIFICATION Spec
CONSTANTS
    Compactors = {bg}
    MinRewriteInterval = 1
    MinSwitchInterval = 1
    WindowSize = 3
    ReadThreshold = 1
    WriteThreshold = 1
    MaxInputs = 2
    MaxSegments = 2
    MaxClock = 2
    MaxCount = 3
INVARIANT AdaptiveTypeOK
PROPERTY SwitchNeedsAccess
CHECK_DEADLOCK FALSE
