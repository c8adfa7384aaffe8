SPECIFICATION Spec
CONSTANTS
    Tasks = {"t1", "t2", "t3", "t4"}
    Amounts = {2, 3}
    Rate = 1
    Burst = 2
    MaxConcurrent = 2
    MaxRequests = 4
    Horizon = 2
INVARIANT SlotsAreConserved
INVARIANT RateIsRespected
PROPERTY FittingRequestsAreServed
