CONSTANTS
    Obj = {o1, o2, o3}
    Cell = {c1, c2, c3}
    Arena = {a1, a2}
    NULL = NULL
    MaxRefs = 2
    Misuse = {}
SPECIFICATION Spec
SYMMETRY AddressSymmetry
INVARIANTS
    CacheExact
    OneWrapper
    NothingDangles
    NothingLeaks
    Owned
CHECK_DEADLOCK FALSE
