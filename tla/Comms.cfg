SPECIFICATION Spec
CONSTANTS
    KernelIds = {"k1"}
    FrontIds = {"f1"}
    MaxSends = 2
    MaxEvents = 2
INVARIANTS
    ClosedOnce
    InOrder
    Agreement
    Terminated
CHECK_DEADLOCK FALSE
