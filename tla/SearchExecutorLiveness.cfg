SPECIFICATION FairSpec
CONSTANTS
    t1 = t1
    t2 = t2
    o1 = o1
    NoTask = NoTask
    Tasks <- MCTasks
    Deadlined <- MCNoneDeadlined
    Owners <- MCOwners
    Constructor <- o1
    NumWorkers = 2
    QueueCapacity = 1
INVARIANTS
    Bounded
PROPERTIES
    AdmittedIsCollected
    ShutdownReturns
CHECK_DEADLOCK FALSE
