CONSTANT MaxLog = 1
SPECIFICATION FairSpec
CHECK_DEADLOCK FALSE
INVARIANTS
    BannerNotMissed
PROPERTIES
    ReadyServes
    JupyterEnds
    EveryCallEnds
