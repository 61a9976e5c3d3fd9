CONSTANTS
    Handlers = {h1, h2}
    Refreshers = {f1}
    Names = {x}
    Asked = {"A"}
    Rules = {r1}
    BadRules = {}
    RulesV6 = {}
    NoRule = NoRule
    ResponseTTL = 2
    MaxService = 1
    MaxTicks = 3
    MaxChanges = 2
SPECIFICATION Spec
SYMMETRY AnyHandler
INVARIANTS
    TypeOK
    ReplyExplained
    ForcedClosed
