SPECIFICATION Spec
CONSTANTS
    r1 = r1
    r2 = r2
    r3 = r3
    s1 = s1
    s2 = s2
    u1 = u1
    u2 = u2
    nobody = nobody
    nowhere = nowhere
    Runs = {r1, r2}
    Sessions = {s1}
    Users = {u1, u2}
    NoUser = nobody
    NoSession = nowhere
    MaxSteps = 2
    MaxInputs = 1
    MaxCalls = 1
    HistoryLimit = 20
    MaxFaults = 1
    Outcomes = {"plain"}
    AdminOps = {"deleted"}
    Exclusive = FALSE
ACTION_CONSTRAINT Given
SYMMETRY Symmetry
INVARIANT RowsBelongToOwner
INVARIANT StepNumbersContiguous
INVARIANT OwnMessagesInOrder
INVARIANT EffectsAreRequested
PROPERTY ImplementsStepLog
