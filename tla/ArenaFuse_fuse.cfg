CONSTANTS
    Arena = {1, 2, 3}
    Thread = {t1, t2}
    HasInitialBlock = {}
    Ops = {"fuse", "free", "isfused", "space"}
    Pairs <- RingOfThree
    InitRefs = 1
    MaxRefs = 1
    MaxOwed = 0
SPECIFICATION Spec
SYMMETRY ThreadSymmetry
INVARIANTS
    RefsConserved
    ParentBelow
    OrderInv
    PreviousPointsBack
    SpaceMonotone
    MemorySafe
    ListsSound
    FreedTogether
    AssertsHold
    IsFusedResult
PROPERTIES
    ImplementsGroups
    LinksFinal
CHECK_DEADLOCK FALSE
