SPECIFICATION Spec
SYMMETRY AnyTask
CONSTANTS
    t1 = t1
    t2 = t2
    Tasks = {t1, t2}
    Sessions = {"s1", "s2"}
    NoSession = NoSession
    MaxItems = 4
    MaxPromotes = 2
    MaxDeaths = 1
    PromoteLimit = 3
    PageLimit = 2
    RecallLimit = 3
    SearchLimit = 1
INVARIANT NothingIsLost
INVARIANT DeletesAreComplete
INVARIANT RecallFindsEverything
