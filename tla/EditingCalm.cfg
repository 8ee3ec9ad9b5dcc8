CONSTANTS
    EmptyLine = "empty"
    Calls = {k1, k2}
    Files <- MCFiles
    Sources <- MCSources
    Types <- MCTypes
    MaxHistory = 2
    MaxEdits = 3
    MaxWork = 4
    Overlap <- MCHarmless
SPECIFICATION FairSpec
CHECK_DEADLOCK FALSE
INVARIANTS
    CapKept
    ViewerCurrent
    CleanMatchesDisk
PROPERTIES
    RefinesTimeline
    OutputsKept
    WorkEnds
