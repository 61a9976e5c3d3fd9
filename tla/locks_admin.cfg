CONSTANTS
    Goroutines = {g1, g2}
    Nobody = Nobody
    Locks <- AllMutexes
    Variables <- AllVariables
    Operations <- PageOperations
    Script <- PageScripts
    Depth <- PackageDepth
    Guard <- PackageGuard
SPECIFICATION FairSpec
PROPERTY PageShown
CHECK_DEADLOCK FALSE
