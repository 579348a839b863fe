\* Everything: reactions, async frames, and promises returned from handlers and
\* bodies, in four cells and two frames.
SPECIFICATION Spec
CONSTANTS
    Cell = {p, q, r, s}
    Frame = {f, g}
    Forms = {"plain", "boxed", "throw", "promise"}
SYMMETRY Symmetry
INVARIANTS
    CountsOwners
    BackPointersLive
    UnobservedTracked
    NothingLeaks
PROPERTIES
    ImplementsPromises
