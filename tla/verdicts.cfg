CONSTANTS
    Probers = {p1}
    Keys = {k1}
    None = None
    Torn = Torn
    DiskFails = TRUE
    TrueTTL = 2
    FalseTTL = 1
    PullWindow = 2
    MaxTicks = 2
    MaxProbes = 2
    MaxCrashes = 1
SPECIFICATION Spec
INVARIANTS
    TypeOK
    GenuineVerdicts
PROPERTIES
    NewerWins
    FileKeeps
