CONSTANTS
    Goroutines = {g1, g2}
    Nobody = Nobody
    Locks <- AllMutexes
    Variables <- AllVariables
    Operations <- AllOperations
    Script <- AllScripts
    Depth <- PackageDepth
    Guard <- PackageGuard
SPECIFICATION FairSpec
INVARIANTS
    InDiscipline
    HangIsRelock
    RaceFree
PROPERTIES
    OperationsEnd
CHECK_DEADLOCK FALSE
