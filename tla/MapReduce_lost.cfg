SPECIFICATION Spec
CONSTANTS
    r1 = r1
    Runs = {r1}
    Characters = {" ", "a"}
    MaxText = 4
    MaxChunks = 2
SYMMETRY Symmetry
INVARIANT WordCountMatches
CHECK_DEADLOCK FALSE
