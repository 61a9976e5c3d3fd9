CONSTANTS
    Callers = {c1, c2}
    Ids = {i1, i2, i3}
    NoResult = NoResult
    k1 = k1
    k2 = k2
    Keys = {k1, k2}
    Age <- TwoAges
    Builtin = k1
    NoKey = NoKey
    Candidates = 2
    RejectionSeen = TRUE
SYMMETRY AnyCallerOrId
SPECIFICATION Spec
INVARIANTS
    TypeOK
    CleanAfterChange
    ProtectedNeverPlain
    PlainIsLast
PROPERTY
    ResultsKeepKeys
