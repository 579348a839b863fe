\* The buffer goes 1, 2, 4 (8 in the code to begin with), with cells recycled
\* in between and a listener that runs in the sweep.
SPECIFICATION Spec
CONSTANTS
    Promise = {p, q, r, s, t}
    InitialCap = 1
SYMMETRY Symmetry
INVARIANTS
    TypeOK
    EntriesOwnCells
PROPERTIES
    ImplementsTracking
