SPECIFICATION FairSpec
CONSTANTS
    h1 = h1
    h2 = h2
    a = a
    b = b
    r1 = r1
    r2 = r2
    None = None
    Handlers <- MCHandlers
    Manifests <- MCManifests
    Startup <- MCStartup
    StartGeneration = 1
    MaxGeneration = 3
    MaxVersion = 3
    MaxToken = 4
INVARIANTS
    SlotIsSound
    ServedIsVerified
PROPERTIES
    ReadyIsKept
    ImplementsRegister
    SlotIsReleased
CHECK_DEADLOCK FALSE
