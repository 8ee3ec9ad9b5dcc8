CONSTANTS
    MaxOutputLines = 3
    MimePriority <- MCPriority
    Sixel = TRUE
    Start <- MCStart
    Contents <- MCContents
    NewCell = 3
    Messages <- MCMessages
    MaxWork = 4
    MaxFailures = 1
    Overlap = FALSE
SPECIFICATION FairSpec
CHECK_DEADLOCK FALSE
INVARIANTS
    NoStrand
    Shown
    ClicksLand
    CursorKept
PROPERTIES
    EveryCallerReturns
