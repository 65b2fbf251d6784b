SPECIFICATION GetsSpec
CONSTANTS
    w1 = w1
    w2 = w2
    g1 = g1
    NoWrite = NoWrite
    Writes = {w1, w2}
    Gets = {g1}
    NumPeers = 2
    Mode = "quorum"
    MaxOpen = 2
    MaxFaults = 0
    Restartable = {}
SYMMETRY Symmetry
INVARIANT GetPicksFreshest
CHECK_DEADLOCK FALSE
