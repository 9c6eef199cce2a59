CONSTANTS
    Writes = {w1, w2, w3, w4}
    Contracts = {c1}
    Comps = {k1}
    Readers = {}
    NumRetries = 1
    None = None
    Bad = {}
    Strict = k1
    MaxOpen = 2
    MaxOwn = 3
    MaxForeign = 1
    MaxCrashed = 1
    MaxExpired = 0
    MaxRefuse = 0
    RowCount <- MCRowCount
    FailCount <- MCFailCount
    Guarantee <- MCGuarantee
SPECIFICATION MCSpec
SYMMETRY Alike
CHECK_DEADLOCK FALSE
INVARIANTS
    ReportsAreTrue
PROPERTIES
    ImplementsTable
