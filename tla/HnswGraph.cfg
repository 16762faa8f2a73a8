SPECIFICATION Spec
CONSTANTS
    i1 = i1
    i2 = i2
    i3 = i3
    i4 = i4
    None = None
    Ids <- MCIds
    MaxNodes = 4
    MaxLevel = 1
    MaxConnections = 2
SYMMETRY MCSymmetry
INVARIANTS
    IndexIsSound
PROPERTIES
    AllOrNothing
CHECK_DEADLOCK FALSE
