SPECIFICATION SearchSpec
CONSTANTS
    Snapshots <- MCSnapshots
    Disturbed <- MCDisturbed
    Cells = {0, 1, 2, 3, 64, 127}
    MaxLevel = 1
    MaxNodes = 15
    MaxWord = 127
    MaxRandom = 2
    MaxChanges = 1
    Queries <- MCQueries
    Widths = {0, 1, 2, 4}
    Counts = {0, 1, 3}
INVARIANTS
    LoadIsSafe
    LoadedIsSaved
    SearchIsComplete
    PlanIsSelectable
PROPERTIES
    SearchEnds
CHECK_DEADLOCK FALSE
