SPECIFICATION Spec
CONSTANTS
    Reversible = {claude}
    Additive = {opencode}
    None = None
    MaxSessions = 2
    MaxMoves = 2
    MaxTasks = 3
INVARIANTS
    OneOfEach
    CalmIsTrue
    NothingOfTheStopped
PROPERTIES
    ButtonsComeBack
    RoutesCatchUp
