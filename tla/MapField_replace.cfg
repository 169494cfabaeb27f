CONSTANTS
    IntKeys = {0, 1, 9, 17}
    StrKeys = {1, 2, 3, 4}
    StrHash <- MCStrHash
    Vals = {1, 2}
    TableSize = 8
    MaxSize = 8
SPECIFICATION Spec
INVARIANTS
    ReplaceKeepsIterators
CHECK_DEADLOCK FALSE
