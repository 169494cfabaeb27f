CONSTANTS
    File = {1, 2, 3, 4, 5}
    Builtin = 4
    Syms <- MCSyms
    Exts <- MCExts
    Deps <- MCDeps
    SymHash <- MCSymHash
    SymsSize = 2
    IniValues = {FALSE}
    MaxPools = 3
SPECIFICATION Spec
INVARIANTS
    LoadedIsFound
CHECK_DEADLOCK FALSE
