CONSTANTS
    Writes = {w1, w2, w3}
    Contracts = {c1}
    Comps = {k1}
    Readers = {r1}
    NumRetries = 0
    None = None
    Bad = {w1}
    Strict = k1
    MaxOpen = 1
    MaxOwn = 3
    MaxForeign = 1
    MaxCrashed = 0
    MaxExpired = 0
    MaxRefuse = 0
    RowCount <- MCRowCount
    FailCount <- MCFailCount
    Guarantee <- MCGuarantee
SPECIFICATION MCSpec
SYMMETRY Alike
CHECK_DEADLOCK FALSE
INVARIANTS
    TypeOK
    FactsDescribeTheirSnapshot
    CachedFactsDescribeTheirSnapshot
    DecisionsAreAboutTheData
