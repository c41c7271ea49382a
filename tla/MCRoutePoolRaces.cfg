SPECIFICATION Spec
CONSTANTS
    a = a
    b = b
    Routes = {a}
    Slots = {s1, s2}
    Configs <- OneRoute
    Streaming = {FALSE}
    MaxCount = 2
    EventLimit = 2
    MaxTime = 2
    None = None
    MinThreshold = 1
    MaxThreshold = 2
    MaxBan = 2
SYMMETRY SlotSymmetry
INVARIANTS TypeOK BreakerConsistent TripsAtThreshold ChangesAreReported
PROPERTIES ImplementsBreaker
