CONSTANTS
    Engines = {e1, e2}
    Callers = {alice}
    Budgets = {b1}
    Limits = {3}
    DefaultLimit = 2
    MaxOwed = 2
    MaxCharge = 1
    None = None
    Charges <- MCCharges
SPECIFICATION MCSpec
INVARIANTS
    SpendingIsKept
