\* Two objects that may hold each other, one observer of each kind, two records.
SPECIFICATION Spec
CONSTANTS
    Object = {x, y}
    Ref = {w}
    WMap = {m}
    Reg = {f}
    Record = {r1, r2}
    Key = {x}
    Held = {y}
    Token = {x}
    KeptBound = 1
    NodeBound = 3
    Loops = FALSE
    None = None
    Primitive = Primitive
SYMMETRY Symmetry
INVARIANTS
    CountsOwners
    RegistryAgrees
    RecordsFiled
PROPERTIES
    SeenStays
