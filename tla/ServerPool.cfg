CONSTANTS
    Keys = {k1, k2}
    Clients = {a, b, c}
    Handles = {h1, h2, h3}
    NoHandle = NoHandle
    Exits = TRUE
SPECIFICATION PoolFairSpec
CHECK_DEADLOCK FALSE
INVARIANTS
    RefcountExact
PROPERTIES
    RefinesShared
    EveryoneServed
