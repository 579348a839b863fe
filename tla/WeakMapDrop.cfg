\* A map whose value holds the last reference of its own key.
SPECIFICATION Spec
CONSTANTS
    Object = {x, y}
    Ref = {}
    WMap = {m}
    Reg = {}
    Record = {}
    Key = {x}
    Held = {y}
    Token = {}
    KeptBound = 1
    NodeBound = 1
    Loops = TRUE
    None = None
    Primitive = Primitive
INVARIANT
    ReleasedOnce
