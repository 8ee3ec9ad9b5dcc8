CONSTANTS
    c1 = c1
    c2 = c2
    Cells = {c1, c2}
    Notebook <- MCNotebook
    Callers = {"a1"}
    Restarters = {"r1"}
    Races = {}
    MaxMsg = 3
    MaxRestarts = 1
    MaxDrops = 1
SPECIFICATION Spec
CHECK_DEADLOCK FALSE
INVARIANTS
    SentHasRun
    Lockstep
    OutputsOfOneRun
PROPERTIES
    RestartFindsNoRequest
