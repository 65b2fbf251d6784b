SPECIFICATION FairSpec
CONSTANTS
    u1 = u1
    u2 = u2
    d1 = d1
    s1 = s1
    s2 = s2
    NoUpload = NoUpload
    Uploads = {u1, u2}
    Deletes = {d1}
    Servers = {s1, s2}
    NumWorkers = 1
    QueueDepth = 1
    MaxPuts = 1
    MaxFaults = 2
INVARIANT TypeOK
INVARIANT DeletedStaysDeleted
INVARIANT AcceptedIsVisible
INVARIANT CompletedHasObject
INVARIANT JobsAreKept
INVARIANT SeqUniqueBetweenPuts
PROPERTY EveryUploadEnds
CHECK_DEADLOCK FALSE
