CONSTANTS
    Writes = {w1, w2, w3, w4}
    Contracts = {c1}
    Comps = {k1}
    Readers = {r1}
    NumRetries = 1
    None = None
    Bad = {}
    Strict = k1
    MaxOpen = 1
    MaxOwn = 1
    MaxForeign = 3
    MaxCrashed = 0
    MaxExpired = 0
    MaxRefuse = 0
    RowCount <- MCRowCount
    FailCount <- MCFailCount
    Guarantee <- MCGuarantee
SPECIFICATION MCSpec
SYMMETRY Alike
CHECK_DEADLOCK FALSE
INVARIANTS
    RewritesHaveFacts
