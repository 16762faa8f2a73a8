SPECIFICATION FairSpec
CONSTANTS
    c1 = c1
    c2 = c2
    c3 = c3
    Calls <- MCCalls
    Kind <- MCKind
    Configs <- MCConfigs
    MaxFiles = 2
    MaxGenerations = 2
INVARIANTS
    ServerIsConsistent
PROPERTIES
    StopIsObeyed
    NoReloadLost
CHECK_DEADLOCK FALSE
