SPECIFICATION FairSpec
CONSTANTS
    r1 = r1
    r2 = r2
    r3 = r3
    s1 = s1
    s2 = s2
    u1 = u1
    u2 = u2
    nobody = nobody
    nowhere = nowhere
    Runs = {r1, r2}
    Sessions = {s1}
    Users = {u1}
    NoUser = nobody
    NoSession = nowhere
    MaxSteps = 2
    MaxInputs = 1
    MaxCalls = 2
    HistoryLimit = 20
    MaxFaults = 1
    Outcomes = {"plain", "unserializable"}
    AdminOps = {"paused"}
    Exclusive = TRUE
ACTION_CONSTRAINT InOrder
INVARIANT CompletedCallIsDurable
INVARIANT PromptIsWellFormed
PROPERTY ResumeSkipsRecordedSteps
PROPERTY CallsEnd
