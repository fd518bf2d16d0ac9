SPECIFICATION Spec
CONSTANTS
    Goroutines = {g1, g2}
    MaxAppends = 3
    MaxFailures = 1
    MaxCloses = 1
INVARIANTS
    FileTypeOK
    MappingCoversSegment
    NoMappingLeak
PROPERTIES
    RemapNeverShrinks
    ReturnsLiveMapping
