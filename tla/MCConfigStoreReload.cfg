SPECIFICATION Spec
CONSTANTS
    Tabs = {}
    Servers = {p1, p2}
    s = s
    Configs <- PlainConfigs
    Default <- Empty
    Sections = {}
    Unknown = {}
    MaxBackups = 2
    MaxTime = 0
    Edits = {}
    MaxVersion = 3
    None = None
    Missing = Missing
    Broken = Broken
    Torn = Torn
PROPERTIES ReloadAppliesChanges
CHECK_DEADLOCK FALSE
