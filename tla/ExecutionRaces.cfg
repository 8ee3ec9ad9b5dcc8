CONSTANTS
    c1 = c1
    c2 = c2
    Cells = {c1, c2}
    Notebook <- MCNotebook
    Callers = {"a1"}
    Restarters = {"r1"}
    Races = {"idleFirst", "slowFlush"}
    MaxMsg = 2
    MaxRestarts = 1
    MaxDrops = 1
SPECIFICATION FairSpec
CHECK_DEADLOCK FALSE
INVARIANTS
    AbortedUnregistered
    OutputsComplete
PROPERTIES
    EveryRunEnds
