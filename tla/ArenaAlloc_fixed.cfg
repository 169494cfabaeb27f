CONSTANTS
    Arena = {a}
    Initial = {a}
    Fixed = {a}
    Align = 2
    Reserve = 1
    StateSize = 1
    RefReserve = 2
    FirstSize = 2
    InitialHint = 2
    InitialSize = 3
    MaxBlockSizes = {8}
    UINT32 = 9
    Slack = {0}
    HeapSize = 8
    Sizes = {1, 4}
    MaxLive = 3
    MaxRefs = 1
    MaxNested = 1
SPECIFICATION Spec
INVARIANTS
    FixedRefuses
CHECK_DEADLOCK FALSE
