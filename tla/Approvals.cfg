SPECIFICATION Spec
CONSTANTS
    w1 = w1
    w2 = w2
    d1 = d1
    d2 = d2
    s1 = s1
    s2 = s2
    u1 = u1
    u2 = u2
    plainTool = plainTool
    Waiters = {w1, w2}
    Deciders = {d1, d2}
    Sessions = {s1, s2}
    Users = {u1, u2}
    Owner <- OneOwnerEach
    Tools = {plainTool}
    AnyTool = AnyTool
    ToolPolicy <- DeclaresNothing
    RuleSets <- SomeRuleSets
    NoSession = NoSession
    NoWaiter = NoWaiter
    NoUser = NoUser
    NoStatus = NoStatus
    Timeout = 2
    DecideOnce = TRUE
INVARIANT OwnersDecide
INVARIANT WaitersHearDecisions
SYMMETRY Symmetry
