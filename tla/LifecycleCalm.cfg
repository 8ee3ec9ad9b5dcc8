CONSTANTS
    Keys = {k}
    Clients = {c1, c2}
    Handles = {h1, h2}
    NoHandle = NoHandle
    Exits = TRUE
    Buffers = {b1, b2}
    Calls = {t1, t2, t3, t4}
    NoSession = NoSession
    NoClient = NoClient
    Overlap <- NoOverlap
    Faults = {"session", "install"}
SPECIFICATION Spec
SYMMETRY Symmetry
CHECK_DEADLOCK FALSE
INVARIANTS
    NothingLeaks
