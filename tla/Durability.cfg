SPECIFICATION Spec
CONSTANTS
    w1 = w1
    w2 = w2
    s1 = s1
    s2 = s2
    u1 = u1
    u2 = u2
    k1 = k1
    k2 = k2
    k3 = k3
    Workers = {w1, w2}
    Sessions = {s1, s2}
    Users = {u1, u2}
    Owner <- OneOwnerEach
    MaxSteps = 2
    Keys = {k1, k2, k3}
    NoKey = NoKey
    NoSession = NoSession
    MaxCrashes = 2
INVARIANT NothingIsSkipped
PROPERTY RecordedStepsAreNotRepeated
PROPERTY SessionsFinish
