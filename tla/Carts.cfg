SPECIFICATION Spec
CONSTANTS
    a1 = a1
    a2 = a2
    a3 = a3
    g1 = g1
    p1 = p1
    p2 = p2
    NoProduct = NoProduct
    Adds = {a1, a2, a3}
    Gets = {g1}
    Product = {p1, p2}
    Quantity = {1, 2}
    MaxAttempts = 2
    MaxFaults = 2
SYMMETRY Symmetry
INVARIANT TypeOK
INVARIANT CartWithinAdds
PROPERTY ImplementsLedger
CHECK_DEADLOCK FALSE
