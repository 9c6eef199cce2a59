CONSTANTS
    Queries = {q1, q2}
    Keys = {Small, Whole}
    Small = Small
    Tables = {t1}
    MaxBatch = 2
    MaxRows = 3
    MaxEntries = 1
    MaxBytes = 2
    Ttl = 1
    None = None
    K <- MCK
    ReadsOf <- MCReadsOf
SPECIFICATION MCSpec
CHECK_DEADLOCK FALSE
INVARIANTS
    TypeOK
    SmallResultsAreWithheld
    NothingIsSeenBelowK
    CacheKeepsItsBounds
    HitsAreFresh
    AnswersAreCertified
PROPERTIES
    QueriesEnd
