SPECIFICATION Spec
CONSTANTS
    Races = {a, b, c}
    Places = 2
    Staggered = FALSE
    Initial = 1
    Outcomes = {"good", "failed"}
    MaxPending = 1
    None = None
SYMMETRY Symmetric
INVARIANTS
    AllCovered
    NoOrphan
CHECK_DEADLOCK FALSE
