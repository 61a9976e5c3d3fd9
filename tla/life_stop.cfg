CONSTANTS
    Apps = {a1, a2}
    NoApp = NoApp
    MaxServers = 3
    Certificates = {TRUE}
SPECIFICATION Spec
INVARIANT StopCloses
