SPECIFICATION CredSpec
CONSTANTS
    a = a
    b = b
    User <- MyConfigs
    Keyed = {a}
    Bad = Bad
    Blank = Blank
    Ours = Ours
    Torn = Torn
    Missing = Missing
    MaxEdits = 3
INVARIANTS OriginalKept
PROPERTIES RestoresWhatWasFound CredentialIsTheUsers
