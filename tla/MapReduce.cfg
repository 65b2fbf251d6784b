SPECIFICATION Spec
CONSTANTS
    r1 = r1
    r2 = r2
    r3 = r3
    Runs = {r1, r2, r3}
    Characters = {" ", "a"}
    MaxText = 3
    MaxChunks = 2
SYMMETRY Symmetry
INVARIANT TypeOK
INVARIANT ResultIsUncutWords
CHECK_DEADLOCK FALSE
