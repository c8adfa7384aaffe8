SPECIFICATION FairSpec
CONSTANTS
    q1 = q1
    q2 = q2
    k1 = k1
    k2 = k2
    w1 = w1
    w2 = w2
    w3 = w3
    w4 = w4
    none = none
    Requests = {q1, q2}
    Priority <- OneUrgent
    Clients = {k1, k2}
    Workers = {w1, w2, w3, w4}
    NoRequest = none
    MaxSize = 1
    MaxWorkers = 2
    MaxStops = 1
    Overlap = FALSE
INVARIANTS
    TypeOK
    EntryInOnePlace
    AnswersAreTrue
    WorkersWithinLimit
PROPERTIES
    AcceptedIsAnswered
CHECK_DEADLOCK FALSE
