SPECIFICATION FairBreaker
CONSTANTS
    c1 = c1
    c2 = c2
    c3 = c3
    Calls = {c1, c2, c3}
    FailureThreshold = 2
    HalfOpenMax = 2
    MaxRetries = 1
    Fatal = TRUE
    MaxCancels = 1
    MaxResets = 1
INVARIANTS
    ClosedIsBelowThreshold
    ProbesWithinLimit
PROPERTIES
    HalfOpenEnds
