SPECIFICATION LoadSpec
CONSTANTS
    w1 = w1
    w2 = w2
    g1 = g1
    NoWrite = NoWrite
    Writes = {w1, w2}
    Reads = {g1}
    NumNodes = 3
    MaxOpen = 2
    MaxFaults = 1
    Restartable = {1, 2}
SYMMETRY Symmetry
INVARIANT LoadTypeOK
INVARIANT CoordinatorVersionsUnique
INVARIANT AckedIsEverywhere
INVARIANT SequentialNodesAgree
INVARIANT OldReadIsStale
INVARIANT StaleReadOverlapsWrite
CHECK_DEADLOCK FALSE
