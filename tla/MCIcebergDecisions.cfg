CONSTANTS
    Writes = {w1, w2}
    Contracts = {c1}
    Comps = {k1}
    Readers = {r1}
    NumRetries = 1
    None = None
    Bad = {w1}
    Strict = k1
    MaxOpen = 1
    MaxOwn = 3
    MaxForeign = 0
    MaxCrashed = 0
    MaxExpired = 0
    MaxRefuse = 0
    RowCount <- MCRowCount
    FailCount <- MCFailCount
    Guarantee <- MCGuarantee
SPECIFICATION MCSpec
CHECK_DEADLOCK FALSE
PROPERTIES
    DecisionsAreKept
