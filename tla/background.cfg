CONSTANTS
    Handlers = {h1}
    x = x
    Names = {x}
    NoName = NoName
    Probes = {p1, p2}
    Fetchers = {f1, f2}
    Listed <- ForcedAtFirst
    Unknown = Unknown
    Unreadable = Unreadable
    MaxVersion = 2
    DiskFails = TRUE
    MaxCrashes = 1
SPECIFICATION FairSpec
INVARIANTS
    TypeOK
    OneProbePerName
    GenuineClasses
PROPERTIES
    FileKeepsNames
    AskedIsClassified
    LastListStays
