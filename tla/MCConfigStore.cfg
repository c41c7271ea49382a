SPECIFICATION Spec
CONSTANTS
    Tabs = {u}
    Servers = {p}
    s = s
    Configs <- SomeConfigs
    Default <- Empty
    Sections = {s}
    Unknown = {x}
    MaxBackups = 1
    MaxTime = 1
    Edits <- SomeEdits
    MaxVersion = 2
    None = None
    Missing = Missing
    Broken = Broken
    Torn = Torn
INVARIANTS ServedWasPublished
PROPERTIES WholeFileOnDisk SoloSaveLosesNothing
CHECK_DEADLOCK FALSE
