SPECIFICATION Spec
CONSTANTS
    p1 = p1
    p2 = p2
    p3 = p3
    ma = ma
    mb = mb
    m0 = m0
    None = None
    Startup <- MCStartup
    Deployments <- MCDeployments
INVARIANTS
    ReportsAreTrue
    StaleIsNotSuccess
CHECK_DEADLOCK FALSE
