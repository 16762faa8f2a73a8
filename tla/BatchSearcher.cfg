SPECIFICATION BatchFairSpec
CONSTANTS
    c1 = c1
    c2 = c2
    Callers <- MCCallers
    NumQueries = 2
    NumThreads = 2
INVARIANTS
    ReturnsAreFinal
PROPERTIES
    CallsReturn
CHECK_DEADLOCK FALSE
