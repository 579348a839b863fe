\* The sizes of a new Map, and a chain that runs over the end of its slots.
SPECIFICATION Spec
CONSTANTS
    a = a
    b = b
    c = c
    d = d
    e = e
    None = None
    Key = {a, b, c, d, e}
    StrKey = {}
    Value = {v1}
    Iterator = {}
    Hash <- WrappingHashes
    EntriesInitial = 8
    SlotsInitial = 16
INVARIANT
    LookupFindsLive
