CONSTANTS
    Obj = {o1, o2, o3}
    Cell = {c1, c2, c3}
    Arena = {a1, a2}
    NULL = NULL
    MaxRefs = 2
    Misuse = {"reconstruct"}
SPECIFICATION Spec
SYMMETRY AddressSymmetry
INVARIANTS
    CacheOnlyLive
CHECK_DEADLOCK FALSE
