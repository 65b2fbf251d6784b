SPECIFICATION FairSpec
CONSTANTS
    w1 = w1
    w2 = w2
    NoWrite = NoWrite
    Writes = {w1, w2}
    NumPeers = 3
    Mode = "quorum"
    MaxOpen = 2
    MaxFaults = 2
    Restartable = {0, 2}
INVARIANT TypeOK
INVARIANT LeaderOrdersWrites
INVARIANT AckedIsReplicated
INVARIANT SyncPeersAgree
PROPERTY StoreMovesForward
PROPERTY EveryWriteAnswered
PROPERTY FollowersCatchUp
CHECK_DEADLOCK FALSE
