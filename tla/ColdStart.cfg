SPECIFICATION FairColdStart
CONSTANTS
    s1 = s1
    s2 = s2
    s3 = s3
    Starters = {s1, s2, s3}
    Direct = {s3}
    LastVersion = 2
    Parts = 2
    MaxTries = 2
    MaxCrashes = 1
CHECK_DEADLOCK FALSE
INVARIANTS
    RecordedMeansCreated
    StartedFindsTables
PROPERTIES
    StartSucceeds
