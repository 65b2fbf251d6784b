SPECIFICATION FairSpec
CONSTANTS
    c1 = c1
    c2 = c2
    c3 = c3
    Callers = {c1, c2, c3}
    Threshold = 2
    MaxConcurrent = 2
    MaxHangs = 5
INVARIANT TypeOK
INVARIANT SlotsAreCallers
INVARIANT ClosedBelowThreshold
PROPERTY EveryCallReturns
PROPERTY BreakerRecovers
