CONSTANTS
    Engines = {e1}
    Callers = {alice, bob}
    Budgets = {b1, b2}
    Limits = {1, 2}
    DefaultLimit = 1
    MaxOwed = 1
    MaxCharge = 1
    None = None
    Name <- Ordinary
    Calls = {t1, t2}
    Versions = {v1}
    Docs = {plain, calling}
    Uses = {calling}
    Tenants = {acme, rival}
    Owner = acme
    Hashes = {h1, h2}
    Truncated = Truncated
    Mixed = Mixed
    MaxParcel = 1
    MaxExcused = 1
    Charges <- MCCharges
SPECIFICATION MCSpec
SYMMETRY Alike
CHECK_DEADLOCK FALSE
INVARIANTS
    TypeOK
    SpendingIsKept
    NothingElseIsSpent
    AnswersWithinLimit
    StoreTypeOK
    ContractsOutliveTheProcess
    AudiencesOutliveTheProcess
    FunctionsOutliveTheProcess
    WorkspaceOpensAgain
    BundlesMatchPins
PROPERTIES
    NamesStayWithTheirOwner
