CONSTANTS
    MaxRetries = 3
    MaxTotal = 6
    Delays = {0, 1, 3}
    Policies <- MCPolicies
SPECIFICATION Spec
INVARIANTS
    RetriesKeepThePolicy
    AnswersAreTrue
PROPERTIES
    CommitsEnd
