SPECIFICATION PublishSpec
CONSTANTS
    p1 = p1
    p2 = p2
    p3 = p3
    p4 = p4
    Previous = Previous
    Absent = Absent
    Runs <- MCRuns
    Overwriters <- MCOverwriters
    Builders <- MCBuilders
    MaxCrashes = 2
INVARIANTS
    OutputIsWhole
    SuccessIsDurable
PROPERTIES
    OnlyOverwritersReplace
CHECK_DEADLOCK FALSE
