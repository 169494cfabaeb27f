CONSTANTS
    IntKeys = {0, 1, 2, 5, 17}
    StrKeys = {1, 2, 3, 4}
    StrHash <- MCStrHash
    Vals = {1, 2}
    TableSize = 2
    MaxSize = 4
SPECIFICATION Spec
INVARIANTS
    LookupsAgree
    StopsAreElements
    IterationExact
    CopiesAgree
CHECK_DEADLOCK FALSE
