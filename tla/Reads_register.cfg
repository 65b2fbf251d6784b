SPECIFICATION FairGetsSpec
CONSTANTS
    w1 = w1
    w2 = w2
    g1 = g1
    g2 = g2
    NoWrite = NoWrite
    Writes = {w1, w2}
    Gets = {g1, g2}
    NumPeers = 1
    Mode = "w5r1"
    MaxOpen = 2
    MaxFaults = 1
    Restartable = {1}
PROPERTY ImplementsRegister
CHECK_DEADLOCK FALSE
