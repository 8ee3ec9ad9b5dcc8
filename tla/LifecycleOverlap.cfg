CONSTANTS
    Keys = {k}
    Clients = {c1, c2}
    Handles = {h1, h2}
    NoHandle = NoHandle
    Exits = TRUE
    Buffers = {b1}
    Calls = {t1, t2}
    NoSession = NoSession
    NoClient = NoClient
    Overlap <- AnyOverlap
    Faults = {"session", "handshake", "install"}
SPECIFICATION FairSpec
CHECK_DEADLOCK FALSE
PROPERTIES
    RefinesPool
    EveryCallEnds
