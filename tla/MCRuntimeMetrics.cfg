SPECIFICATION Spec
CONSTANTS
    Servers = {s1, s2}
    MaxRecords = 4
    Weight <- Weights
    MaxBytes = 2
    Window = 2
    MaxThreads = 1
    LineFeed = LineFeed
    Torn = Torn
    Broken = Broken
SYMMETRY Symmetry
INVARIANTS KeepsTheRecent CutsAreLocal WindowIsRecent OversizeIsNoticed
