SPECIFICATION FairSpec
CONSTANTS
    a = a
    b = b
    Routes = {a, b}
    Slots = {s1, s2}
    Configs <- TwoRoutes
    Streaming = {TRUE}
    MaxCount = 1
    EventLimit = 1
    MaxTime = 0
    None = None
    MinThreshold = 1
    MaxThreshold = 1
    MaxBan = 1
INVARIANTS FailoverOrder LastTriedIsBlamed AttemptsAccounted
PROPERTIES EveryRequestEnds
