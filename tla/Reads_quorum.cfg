SPECIFICATION GetsSpec
CONSTANTS
    w1 = w1
    w2 = w2
    g1 = g1
    g2 = g2
    NoWrite = NoWrite
    Writes = {w1, w2}
    Gets = {g1, g2}
    NumPeers = 2
    Mode = "quorum"
    MaxOpen = 2
    MaxFaults = 1
    Restartable = {0}
SYMMETRY Symmetry
INVARIANT GetsTypeOK
INVARIANT GetsNeverGoBack
INVARIANT SequentialGetIsFresh
INVARIANT GetSeesAckedVersions
CHECK_DEADLOCK FALSE
