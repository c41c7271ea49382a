SPECIFICATION TabsSpec
CONSTANTS
    Files <- mcFiles
    Texts <- mcTexts
    Numbers = {0}
    Names <- mcNames
    Rank <- mcRank
    Trim <- mcTrim
    Ports = {1}
    Kinds = {"OpenAiResponses"}
    Profiles <- mcProfiles
    MaxEdits = 2
    MaxWrites = 2
INVARIANTS
    SelectionStays
    ArrangedOrderIsServed
PROPERTY
    SavesAreFaithful
