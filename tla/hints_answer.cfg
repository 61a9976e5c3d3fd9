CONSTANTS
    Callers = {c1}
    NoCaller = NoCaller
    Keys = {k1}
    p1 = p1
    p2 = p2
    o1 = o1
    o2 = o2
    s1 = s1
    s2 = s2
    r1 = r1
    r2 = r2
    IPs <- FullIPs
    Pool <- FullPool
    Reach <- FullReach
    OfficialAnswers <- FullOfficial
    Subnet <- FullSubnet
    MaxDraws = 1
    MaxHints = 2
    MaxElapsed = 1
SPECIFICATION Spec
INVARIANTS
    FailClosed
    FlightBounded
    FlightOrder
PROPERTY
    ImplementsOracleSafely
