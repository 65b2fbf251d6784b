SPECIFICATION FairSpec
CONSTANTS
    o1 = o1
    o2 = o2
    Orders = {o1, o2}
    NumWorkers = 2
    MaxFaults = 2
INVARIANT TypeOK
INVARIANT SlotsAreWork
INVARIANT AcceptedIsKept
INVARIANT DoneAgainByFaultsOnly
PROPERTY EveryOrderEnds
