CONSTANTS
    Writes = {w1, w2}
    Contracts = {c1}
    Comps = {k1, k2}
    Readers = {r1}
    NumRetries = 0
    None = None
    Bad = {w1}
    Strict = k1
    MaxOpen = 1
    MaxOwn = 1
    MaxForeign = 1
    MaxCrashed = 0
    MaxExpired = 1
    MaxRefuse = 0
    RowCount <- MCRowCount
    FailCount <- MCFailCount
    Guarantee <- MCGuarantee
SPECIFICATION MCFairSpec
CHECK_DEADLOCK FALSE
INVARIANTS
    FactsDescribeTheirSnapshot
PROPERTIES
    ReadsEnd
