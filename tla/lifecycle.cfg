CONSTANTS
    Apps = {a1, a2, a3}
    NoApp = NoApp
    MaxServers = 3
    Certificates = {TRUE, FALSE}
SPECIFICATION FairSpec
CHECK_DEADLOCK FALSE
INVARIANTS
    TypeOK
    RunningHasServer
    ClosedOnce
PROPERTIES
    FailureSurfaces
    StopReleases
