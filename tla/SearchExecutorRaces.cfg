SPECIFICATION Spec
CONSTANTS
    t1 = t1
    t2 = t2
    o1 = o1
    NoTask = NoTask
    Tasks <- MCTasks
    Deadlined <- MCDeadlined
    Owners <- MCOwners
    Constructor <- o1
    NumWorkers = 2
    QueueCapacity = 2
INVARIANTS
    Accounted
    OnePlace
    StopReachesEveryTask
    NoLostWakeup
    OutcomeIsJustified
    JoinedMeansQuiet
PROPERTIES
    FirstComeFirstServed
    SettledOnce
CHECK_DEADLOCK FALSE
