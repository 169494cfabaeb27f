CONSTANTS
    Slop = 4
    Patch = 30
    IntHalf = 6
    InputSizes = {0, 3, 4, 5, 9, 15}
    TagBytes = {1, 2}
    SizeBytes = {1, 2}
    VarintBytes = {1, 2}
    FieldSizes = {0, 1, 3, 6}
    MaxDepth = 3
SPECIFICATION FairSpec
INVARIANTS
    ReadsExact
    LimitsExact
    OverrunNoticed
PROPERTIES
    DecodeReturns
CHECK_DEADLOCK FALSE
