SPECIFICATION FairSpec
CONSTANTS
    a = a
    b = b
    x1 = x1
    x2 = x2
    x3 = x3
    x4 = x4
    t1 = t1
    t2 = t2
    t3 = t3
    none = none
    Conns = {a, b}
    NoConn = none
    Tasks = {t1, t2, t3}
    Rows = {x1, x2, x3}
    Kinds = {"fetch", "execute", "execute_many", "transaction"}
    MaxCalls = 4
    MaxRejected = 1
    MaxCancels = 1
    MaxCloses = 1
CHECK_DEADLOCK FALSE
INVARIANTS
    TypeOK
    ConnectionsConserved
    ReportsAreTrue
    TransactionAtomic
PROPERTIES
    UndisturbedReadsSeeCommits
    CallsEnd
