CONSTANTS
    Queries = {q1, q2}
    Callers = {owner, other}
    Owner = owner
    Comps = {Plain, Noisy}
    Plain = Plain
    Noisy = Noisy
    Closed = Closed
    Limit = 1
    MaxUncached = 1
    MaxData = 1
    None = None
    Allows <- MCAllows
    Noise <- MCNoise
    Params <- MCParams
SPECIFICATION MCSpec
SYMMETRY Alike
CHECK_DEADLOCK FALSE
INVARIANTS
    TypeOK
    ReadsSeeFinishedWrites
    NoiseIsPaidFor
    LedgerIsExact
    AnswersAreOnRecord
    AnswersWereVisible
    GovernedAsReported
    AnswersAreForTheCaller
