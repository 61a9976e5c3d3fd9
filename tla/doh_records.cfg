CONSTANTS
    Handlers = {h1}
    Refreshers = {f1}
    Names = {x}
    Asked = {"AAAA", "HTTPS"}
    Rules = {r1}
    BadRules = {}
    RulesV6 = {w1}
    NoRule = NoRule
    ResponseTTL = 1
    MaxService = 1
    MaxTicks = 2
    MaxChanges = 2
SPECIFICATION FairSpec
INVARIANTS
    ReplyExplained
PROPERTIES
    QueryAnswered
