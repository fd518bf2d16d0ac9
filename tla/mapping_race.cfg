SPECIFICATION Spec
CONSTANTS
    Goroutines = {g1, g2}
    MaxAppends = 2
    MaxFailures = 0
    MaxCloses = 0
INVARIANT
    UsesLiveMapping
