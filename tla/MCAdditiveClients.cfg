SPECIFICATION Spec
CONSTANTS
    OpenCode = OpenCode
    OpenClaw = OpenClaw
    Hermes = Hermes
    Models = {m1, m2}
    Ports = {p1, p2}
    Missing = Missing
    Unreadable = Unreadable
    Broken = Broken
    Absent = Absent
    Wrong = Wrong
    None = None
INVARIANTS
    OwnKept
    DefaultIsServed
PROPERTIES
    RemovedForGood
