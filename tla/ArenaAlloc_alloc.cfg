CONSTANTS
    Arena = {a, b}
    Initial = {b}
    Fixed = {}
    Align = 2
    Reserve = 1
    StateSize = 1
    RefReserve = 2
    FirstSize = 2
    InitialHint = 2
    InitialSize = 3
    MaxBlockSizes = {3, 8}
    UINT32 = 9
    Slack = {0, 1}
    HeapSize = 11
    Sizes = {1, 4}
    MaxLive = 2
    MaxRefs = 1
    MaxNested = 2
SPECIFICATION Spec
INVARIANTS
    AllocationsSafe
    BlocksAccounted
    ReleaseOrder
PROPERTIES
    SwitchGains
