CONSTANTS
    Arena = {1, 2, 3}
    Thread = {t1, t2}
    HasInitialBlock = {3}
    Ops = {"fuse", "free", "incref"}
    Pairs <- AllOfTwoAndOne
    InitRefs = 1
    MaxRefs = 3
    MaxOwed = 1
SPECIFICATION FairSpec
INVARIANTS
    RefsConserved
    FuseResult
PROPERTIES
    LockFree
    GroupReclaimed
    NeverRootAgain
CHECK_DEADLOCK FALSE
