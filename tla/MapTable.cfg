\* Slots double from 4 and entries from 2; three keys, two of one hash.
SPECIFICATION Spec
CONSTANTS
    a = a
    b = b
    c = c
    d = d
    e = e
    None = None
    Key = {a, b, c}
    StrKey = {a}
    Value = {v1, v2}
    Iterator = {it}
    Hash <- Hashes
    EntriesInitial = 2
    SlotsInitial = 4
INVARIANTS
    IndexAgrees
    LookupFindsLive
    HintExact
PROPERTIES
    ImplementsMap
    ExactButForMoves
