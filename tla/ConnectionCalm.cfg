CONSTANTS
    Sockets = {s1, s2, s3, s4, s5}
    NoSocket = NoSocket
    Loops = {l1, l2}
    Restarters = {r1, r2}
    MaxRetries = 2
    MaxRestarts = 2
    MaxLosses = 1
    Races = {}
SPECIFICATION FairSpec
CHECK_DEADLOCK FALSE
INVARIANTS
    CurrentIsHeard
    StateTruthful

    
