SPECIFICATION Spec
CONSTANTS
    u1 = u1
    d1 = d1
    s1 = s1
    NoUpload = NoUpload
    Uploads = {u1}
    Deletes = {d1}
    Servers = {s1}
    NumWorkers = 1
    QueueDepth = 1
    MaxPuts = 0
    MaxFaults = 0
SYMMETRY Symmetry
INVARIANT DeletedHasNoFile
CHECK_DEADLOCK FALSE
