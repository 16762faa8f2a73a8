SPECIFICATION FairSpec
CONSTANTS
    h1 = h1
    h2 = h2
    a = a
    b = b
    r1 = r1
    r2 = r2
    None = None
    Handlers <- MCHandlers
    Manifests <- MCManifests
    Startup <- MCStartup
    StartGeneration = 1
    MaxGeneration = 2
    MaxVersion = 2
    MaxToken = 2
PROPERTIES
    AdmittedFailureClears
CHECK_DEADLOCK FALSE
