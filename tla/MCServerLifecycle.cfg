SPECIFICATION LifecycleSpec
CONSTANTS
    Ui = {tab, tray}
    Cli = {cli}
    Pids = {p1, p2, p3}
    NoProcess = NoProcess
SYMMETRY Symmetry
INVARIANTS TypeOK StoppedIsTrue
