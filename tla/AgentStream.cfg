SPECIFICATION Spec
CONSTANTS
    t1 = t1
    t2 = t2
    g1 = g1
    g2 = g2
    g3 = g3
    s1 = s1
    s2 = s2
    u1 = u1
    u2 = u2
    noUser = noUser
    noTask = noTask
    noSession = noSession
    Tasks = {t1, t2}
    Streams = {g1, g2}
    Sessions = {s1, s2}
    Users = {u1, u2}
    NoUser = noUser
    NoTask = noTask
    NoSession = noSession
    MaxSteps = 2
    MaxCalls = 2
    Outcomes = {"plain", "unserializable"}
    Overlap = FALSE
SYMMETRY Symmetry
INVARIANT RowsBelongToOwner
INVARIANT EffectsAreStored
INVARIANT StepsAreAnswered
