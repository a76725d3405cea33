SPECIFICATION FairSpec
CONSTANTS
    Races = {a, b}
    Places = 2
    Staggered = TRUE
    Initial = 1
    Outcomes = {"good", "bad", "failed"}
    MaxPending = 1
    None = None
INVARIANTS
    WinnerUntouched
    LostMeansTried
PROPERTIES
    HangIsCovered
    LosersEnd
CHECK_DEADLOCK FALSE
