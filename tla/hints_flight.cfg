CONSTANTS
    Callers = {c1, c2, c3}
    NoCaller = NoCaller
    Keys = {k1}
    p1 = p1
    p2 = p2
    o1 = o1
    o2 = o2
    s1 = s1
    s2 = s2
    r1 = r1
    r2 = r2
    IPs <- BareIPs
    Pool <- NoIPs
    Reach <- NoIPs
    OfficialAnswers <- BareOfficial
    Subnet <- BareSubnet
    MaxDraws = 0
    MaxHints = 1
    MaxElapsed = 1
SPECIFICATION FairSpec
INVARIANTS
    TypeOK
    SingleFlight
    WaitersHaveOwner
    NoProbeWhileFresh
PROPERTIES
    FreshEntryStable
    CallsReturn
    ImplementsOracle
