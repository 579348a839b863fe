\* Every layout in three cells, a collect at the second candidate.
SPECIFICATION Spec
CONSTANTS
    Cell = {a, b, c}
    Shape = {"obj", "env", "arr", "bag", "leaf"}
    HandleBound = 1
    Threshold = 2
    EdgeBound = 4
    none = none
SYMMETRY Symmetry
INVARIANTS
    TypeOK
    CountsOwners
    TrialLeavesOutsiders
    BufferSound
CHECK_DEADLOCK FALSE
