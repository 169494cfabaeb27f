------------------------------ MODULE DefPool ------------------------------
(***************************************************************************)
(* upb_DefPool (upb/reflection/def_pool.c): the symbols, files and         *)
(* extensions that the loaded .proto files define, and the addition of a   *)
(* file, which either completes or is rolled back.  A pool is a value, its *)
(* operations are functions of it:                                         *)
(*                                                                         *)
(*   syms    the strtable of symbols; the value of an entry is its file    *)
(*   files   the names in the strtable of files                            *)
(*   exts    the inttable from extension layouts to their definitions, as  *)
(*           the files whose entries are in it                             *)
(*   extreg  the extension registry: which file registered an extension    *)
(*           (an extendee and a field number), or 0                        *)
(*                                                                         *)
(* Files are positive numbers.  What a file contains is constant; where    *)
(* building it fails otherwise (a malformed name, a missing type, memory)  *)
(* is chosen by the caller.                                                *)
(***************************************************************************)
EXTENDS UpbTable, Sequences

CONSTANTS
    File,       \* the .proto files
    Syms,       \* [File -> Seq(symbols)], in the order they are added
    Exts,       \* [File -> Seq(extensions)], in the order they are added
    Deps,       \* [File -> SUBSET File], the files a file imports
    SymHash,    \* the hash of each symbol
    SymsSize    \* the first size of syms; 64 in the code

Symbol == DOMAIN SymHash
Extension == UNION {{Exts[f][i] : i \in DOMAIN Exts[f]} : f \in File}

ASSUME DefPoolAssumption ==
    /\ File \subseteq Nat \ {0}
    /\ Symbol \subseteq Nat \ {Empty} /\ \A s \in Symbol : SymHash[s] \in Nat
    /\ \A f \in File : Syms[f] \in Seq(Symbol)
    /\ SymsSize \in Nat \ {0} /\ SymsSize \in {2 ^ l : l \in 0..30}

upb_DefPool_New ==
    [syms   |-> init(SymsSize),
     files  |-> {},
     exts   |-> {},
     extreg |-> [x \in Extension |-> 0]]

\* A table and how the insertion of a symbol ended.  "crash": insert() walks
\* off the chain in which it looks for the entry it evicts.
_upb_DefPool_InsertSym(t, s, f) ==
    LET grown == IF isfull(t) THEN resize(t, DoubledSize(t), SymHash) ELSE t
    IN  IF findentry(t, s, SymHash) # Null THEN [table |-> t, status |-> "error"]
        ELSE IF ~ CanInsert(grown, s, SymHash)
        THEN [table |-> grown, status |-> "crash"]
        ELSE [table |-> insert(grown, s, f, SymHash), status |-> "ok"]

\* The first n symbols of a file, until one is refused.
AddSyms(t, f, n) ==
    LET upto[i \in 0..n] ==
            IF i = 0 THEN [table |-> t, status |-> "ok"]
            ELSE LET before == upto[i - 1]
                 IN  IF before.status # "ok" THEN before
                     ELSE _upb_DefPool_InsertSym(before.table, Syms[f][i], f)
    IN  upto[n]

\* All extensions of a file are registered, or none: when one is taken, the
\* ones registered before it are removed again.
upb_ExtensionRegistry_AddArray(reg, f) ==
    LET new   == {Exts[f][i] : i \in DOMAIN Exts[f]}
        taken == \/ \E x \in new : reg[x] # 0
                 \/ Cardinality(new) < Len(Exts[f])
    IN  [reg    |-> IF taken THEN reg
                    ELSE [x \in Extension |-> IF x \in new THEN f ELSE reg[x]],
         status |-> IF taken THEN "error" ELSE "ok"]

\* Stops one entry short of the end of the table.
FaultyRemove(t, f) ==
    LET upto[i \in 0..upb_table_size(t)] ==
            IF i = 0 THEN t
            ELSE LET before == upto[i - 1]
                 IN  IF i < upb_table_size(t) /\ ~ IsEmpty(before, i - 1)
                           /\ before.entries[i - 1].val = f
                     THEN removeiter(before, i - 1) ELSE before
    IN  upto[upb_table_size(t)]

\* Visits the symbols in index order and removes the ones of the file.
remove_filedef(t, f) ==
    LET upto[i \in 0..upb_table_size(t)] ==
            IF i = 0 THEN t
            ELSE LET before == upto[i - 1]
                 IN  IF ~ IsEmpty(before, i - 1) /\ before.entries[i - 1].val = f
                     THEN removeiter(before, i - 1) ELSE before
    IN  upto[upb_table_size(t)]

\* Adds file f.  Building it fails after n of its symbols, or does not fail by
\* itself (n = Len(Syms[f]) + 1); then the layouts are built and registered.
\* A failure leaves the symbols to remove_filedef, and exts as it is.
upb_DefPool_AddFile(p, f, n) ==
    LET len    == Len(Syms[f])
        named  == AddSyms(p.syms, f, IF n > len THEN len ELSE n)
        laid   == IF Exts[f] = <<>> THEN p.exts ELSE p.exts \cup {f}
        reg    == upb_ExtensionRegistry_AddArray(p.extreg, f)
        undone == [p EXCEPT !.syms = remove_filedef(named.table, f)]
    IN  IF f \in p.files THEN [pool |-> p, status |-> "error"]
        ELSE IF ~ (Deps[f] \subseteq p.files) THEN [pool |-> p, status |-> "error"]
        ELSE IF named.status = "crash"
        THEN [pool |-> [p EXCEPT !.syms = named.table], status |-> "crash"]
        ELSE IF named.status = "error" \/ n <= len
        THEN [pool |-> undone, status |-> "error"]
        ELSE IF reg.status = "error"
        THEN [pool |-> [undone EXCEPT !.exts = laid, !.extreg = reg.reg], status |-> "error"]
        ELSE [pool |-> [syms   |-> named.table,
                        files  |-> p.files \cup {f},
                        exts   |-> laid,
                        extreg |-> reg.reg],
              status |-> "ok"]

\* upb_DefPool_FindMessageByName and the like: the file of a symbol, or 0.
_upb_DefPool_LookupSym(p, s) ==
    LET e == findentry(p.syms, s, SymHash)
    IN  IF e = Null THEN 0 ELSE p.syms.entries[e].val

\* The symbols an iteration of the pool finds, with their files.
Defined(p) == {<<p.syms.entries[e].key, p.syms.entries[e].val>> :
                  e \in {x \in 0..p.syms.mask : ~ IsEmpty(p.syms, x)}}
=============================================================================
