SPECIFICATION BuildSpec
CONSTANTS
    Ids <- MCIds
    Scores <- MCScores
    Number <- MCNumber
    Expected <- MCExpected
    Cells = {0, 1, 2, 3, 4}
    MaxRecords = 2
INVARIANTS
    IndexIsExact
    LineIsParsed
    BuiltIsInput
PROPERTIES
    ImplementsMap
CHECK_DEADLOCK FALSE
