\* The program's view of its heap, and the drain at exit from every heap of
\* three class instances and promises.
SPECIFICATION Spec
CONSTANTS
    Cell = {a, b, c}
    Shape = {"obj", "bag"}
    HandleBound = 1
    Threshold = 2
    EdgeBound = 3
    none = none
INVARIANTS
    NothingLeaks
PROPERTIES
    DrainEnds
    ImplementsGraph
CHECK_DEADLOCK FALSE
