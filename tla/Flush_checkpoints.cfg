SPECIFICATION FairSpec
CONSTANTS
    GlobalRows = {p}
    DomainRows = {x, y}
    Wholes = {stats}
    MaxDomainRows = 1
    MaxNow = 3
INVARIANTS
    Accounted
    ListsAgree
    StopSaves
    MixedRowsListed
PROPERTIES
    Checkpoints
    EventuallySaved
