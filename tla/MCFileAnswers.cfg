CONSTANTS
    Writes = {w1, w2}
    Contracts = {c1}
    Comps = {k1, k2}
    Readers = {r1}
    Unknown = Unknown
    None = None
    Bad = {w1}
    Strict = k2
    MaxOpen = 2
    MaxBusy = 1
    MaxStopped = 1
    MaxTorn = 0
    Again = TRUE
    Agreeing = FALSE
    Scale = 16
    Rows <- MCRows
    Nulls <- MCNulls
    Rules <- MCRules
    Hash <- InDocument
SPECIFICATION MCSpec
SYMMETRY Alike
CHECK_DEADLOCK FALSE
INVARIANTS
    AnswersKeepTheContract
