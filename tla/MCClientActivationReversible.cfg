SPECIFICATION CredSpec
CONSTANTS
    a = a
    b = b
    User <- MyConfigs
    Bad = Bad
    Blank = Blank
    Ours = Ours
    Torn = Torn
    Missing = Missing
    Keyed = {a}
    MaxEdits = 0
INVARIANTS ActivationIsReversible
