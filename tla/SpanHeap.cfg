\* Two arenas of two pages, a class with a row and two without, two more threads.
SPECIFICATION Spec
CONSTANTS
    Small = {"s"}
    Medium = {"m", "n"}
    Size <- MCSize
    Pages <- MCPages
    Slots <- MCSlots
    PageUnits = 2
    Arena = {a1, a2}
    ArenaPages = 2
    SpillAt = 2
    KeptBudget = 2
    Thread = {t1, t2}
    OutBound = 4
    AwayBound = 2
    none = none
SYMMETRY Symmetry
INVARIANTS
    BlocksConserved
    ListsAgree
    EmptyGoesBack
PROPERTIES
    ImplementsBlocks
