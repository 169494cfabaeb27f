----------------------- MODULE RequestLifecycleProofs -----------------------
(***************************************************************************)
(* Proofs about RequestLifecycle: for any files, any hash of their symbols *)
(* and any number of requests, there is one pool, the name caches and the  *)
(* object cache lead into it and no other, a file is loaded once, and the  *)
(* pool holds the symbols and extensions of its files and nothing else,    *)
(* wherever additions of other files failed.                               *)
(***************************************************************************)
EXTENDS RequestLifecycle, UpbTableProofs

\* A pool is a record of four fields.
IsPool(p) ==
    p = [syms |-> p.syms, files |-> p.files, exts |-> p.exts, extreg |-> p.extreg]

\* The pools: one is live, the current one.
PoolsOK ==
    /\ made \in Nat /\ global_symtab \in 0 .. made /\ live = {global_symtab} \ {0}
    /\ phase \in {"request", "bailed"} => global_symtab # 0
    /\ phase = "stopped" => global_symtab = 0

\* The content of the current pool, and the names of its files.
NamesOK ==
    /\ IsPool(pool) /\ pool.files \subseteq File
    /\ global_symtab = 0 => pool.files = {}
    /\ names = [mem |-> names.mem, of |-> names.of]
    /\ names.of \in [File -> {0, global_symtab}]
    /\ phase # "crashed" => \A f \in pool.files \ {Builtin} : names.of[f] = global_symtab

\* The cached Descriptors: only while a script runs, and of the current pool.
CacheOK ==
    /\ object_cache \in [File -> {0, global_symtab}]
    /\ \A f \in File : object_cache[f] # 0 => f \in descriptors
    /\ phase \in {"idle", "shutdown", "stopped"} => object_cache = NoEntries

\* The inductive invariant.
LifecycleInv ==
    /\ phase \in {"idle", "request", "bailed", "shutdown", "stopped", "crashed"}
    /\ configured \in BOOLEAN /\ keep \in BOOLEAN
    /\ PoolsOK /\ NamesOK /\ CacheOK

\* The memory of the name caches, in a process whose scripts never switch the
\* setting on: request memory goes with a pool that will be freed.
MemoryOK ==
    (global_symtab # 0 /\ phase \notin {"stopped", "crashed"}) =>
        \/ names.mem = "persistent"
        \/ names.mem = "request" /\ ~keep /\ phase \in {"request", "bailed"}

----------------------------------------------------------------------------
(***************************************************************************)
(* What adding a file does to the set of files.                            *)
(***************************************************************************)
LEMMA NewPool == IsPool(upb_DefPool_New) /\ upb_DefPool_New.files = {}
BY DEF IsPool, upb_DefPool_New

LEMMA WithSyms ==
    ASSUME NEW p, IsPool(p), NEW t
    PROVE  IsPool([p EXCEPT !.syms = t]) /\ [p EXCEPT !.syms = t].files = p.files
BY DEF IsPool

LEMMA WithExts ==
    ASSUME NEW p, IsPool(p), NEW e, NEW x
    PROVE  LET q == [p EXCEPT !.exts = e, !.extreg = x]
           IN  IsPool(q) /\ q.files = p.files
<1> DEFINE u == [p EXCEPT !.exts = e]
           q == [p EXCEPT !.exts = e, !.extreg = x]
<1>1. IsPool(u) /\ u.files = p.files
  BY DEF IsPool
<1>2. q = [u EXCEPT !.extreg = x]
  OBVIOUS
<1> HIDE DEF u
<1>3. IsPool([u EXCEPT !.extreg = x]) /\ [u EXCEPT !.extreg = x].files = u.files
  BY <1>1 DEF IsPool
<1> HIDE DEF q
<1>4. IsPool(q) /\ q.files = p.files
  BY <1>1, <1>2, <1>3
<1> QED BY <1>4 DEF q

LEMMA AddFileFiles ==
    ASSUME NEW p, IsPool(p), NEW f \in File, NEW n
    PROVE  LET r == upb_DefPool_AddFile(p, f, n)
           IN  /\ IsPool(r.pool)
               /\ r.status = "ok" => r.pool.files = p.files \cup {f}
               /\ r.status # "ok" => r.pool.files = p.files
               /\ r.status \in {"ok", "error", "crash"}
<1> DEFINE len    == Len(Syms[f])
           named  == AddSyms(p.syms, f, IF n > len THEN len ELSE n)
           laid   == IF Exts[f] = <<>> THEN p.exts ELSE p.exts \cup {f}
           reg    == upb_ExtensionRegistry_AddArray(p.extreg, f)
           undone == [p EXCEPT !.syms = remove_filedef(named.table, f)]
           r      == upb_DefPool_AddFile(p, f, n)
<1>1. \/ r = [pool |-> p, status |-> "error"]
      \/ r = [pool |-> [p EXCEPT !.syms = named.table], status |-> "crash"]
      \/ r = [pool |-> undone, status |-> "error"]
      \/ r = [pool |-> [undone EXCEPT !.exts = laid, !.extreg = reg.reg], status |-> "error"]
      \/ r = [pool |-> [syms |-> named.table, files |-> p.files \cup {f}, exts |-> laid,
                        extreg |-> reg.reg],
              status |-> "ok"]
  BY DEF upb_DefPool_AddFile
<1>2. IsPool(undone) /\ undone.files = p.files
  BY WithSyms
<1>3. /\ IsPool([p EXCEPT !.syms = named.table])
      /\ [p EXCEPT !.syms = named.table].files = p.files
  BY WithSyms
<1> HIDE DEF named, laid, reg, undone, r
<1>4. /\ IsPool([undone EXCEPT !.exts = laid, !.extreg = reg.reg])
      /\ [undone EXCEPT !.exts = laid, !.extreg = reg.reg].files = p.files
  BY <1>2, WithExts
<1>5. IsPool([syms |-> named.table, files |-> p.files \cup {f}, exts |-> laid,
              extreg |-> reg.reg])
  BY DEF IsPool
<1>6. /\ IsPool(r.pool)
      /\ r.status = "ok" => r.pool.files = p.files \cup {f}
      /\ r.status # "ok" => r.pool.files = p.files
      /\ r.status \in {"ok", "error", "crash"}
  <2>1. CASE r = [pool |-> p, status |-> "error"]
    BY <2>1
  <2>2. CASE r = [pool |-> [p EXCEPT !.syms = named.table], status |-> "crash"]
    BY <1>3, <2>2
  <2>3. CASE r = [pool |-> undone, status |-> "error"]
    BY <1>2, <2>3
  <2>4. CASE r = [pool |-> [undone EXCEPT !.exts = laid, !.extreg = reg.reg],
                  status |-> "error"]
    BY <1>4, <2>4
  <2>5. CASE r = [pool |-> [syms |-> named.table, files |-> p.files \cup {f},
                            exts |-> laid, extreg |-> reg.reg],
                  status |-> "ok"]
    BY <1>5, <2>5
  <2> QED BY <1>1, <2>1, <2>2, <2>3, <2>4, <2>5
<1> QED BY <1>6 DEF r

LEMMA WithBuiltinFiles ==
    ASSUME NamesOK, NEW f \in File
    PROVE  LET r == WithBuiltin(f)
           IN  /\ IsPool(r.pool) /\ pool.files \subseteq r.pool.files
               /\ r.pool.files \subseteq pool.files \cup {Builtin}
<1>1. CASE Builtin \in Deps[f] /\ Builtin \notin pool.files
  <2> DEFINE n == Len(Syms[Builtin]) + 1
             r == upb_DefPool_AddFile(pool, Builtin, n)
  <2>1. WithBuiltin(f) = r
    BY <1>1 DEF WithBuiltin
  <2>2. /\ IsPool(r.pool)
        /\ r.status = "ok" => r.pool.files = pool.files \cup {Builtin}
        /\ r.status # "ok" => r.pool.files = pool.files
    BY AddFileFiles, LifecycleAssumption DEF NamesOK
  <2> HIDE DEF r
  <2> QED BY <2>1, <2>2
<1>2. CASE ~(Builtin \in Deps[f] /\ Builtin \notin pool.files)
  BY <1>2 DEF WithBuiltin, NamesOK
<1> QED BY <1>1, <1>2

\* A file is added with its names, or not at all; descriptor.proto may come
\* with it.
LEMMA AddedFiles ==
    ASSUME NamesOK, NEW f \in File, NEW n, add_descriptor(f, n)
    PROVE  /\ IsPool(pool') /\ pool.files \subseteq pool'.files
           /\ pool'.files \subseteq pool.files \cup {Builtin, f}
           /\ f \notin pool.files
           /\ \/ names' = add_name_mappings(f, names) /\ phase' = phase
              \/ /\ pool'.files \subseteq pool.files \cup {Builtin} /\ names' = names
                 /\ phase' = "bailed"
              \/ names' = names /\ phase' = "crashed"
<1> DEFINE built == WithBuiltin(f)
           added == upb_DefPool_AddFile(built.pool, f, n)
<1>1. /\ IsPool(built.pool) /\ pool.files \subseteq built.pool.files
      /\ built.pool.files \subseteq pool.files \cup {Builtin}
  BY WithBuiltinFiles
<1>2. /\ IsPool(added.pool)
      /\ added.status = "ok" => added.pool.files = built.pool.files \cup {f}
      /\ added.status # "ok" => added.pool.files = built.pool.files
  BY <1>1, AddFileFiles
<1>3. /\ f \notin pool.files /\ pool' = added.pool
      /\ LET end == IF built.status = "crash" THEN "crash" ELSE added.status
         IN  \/ end = "ok" /\ names' = add_name_mappings(f, names) /\ UNCHANGED phase
             \/ end = "error" /\ phase' = "bailed" /\ UNCHANGED names
             \/ end = "crash" /\ phase' = "crashed" /\ UNCHANGED names
  BY Zenon DEF add_descriptor
<1> HIDE DEF built, added
<1> QED BY <1>1, <1>2, <1>3

----------------------------------------------------------------------------
(***************************************************************************)
(* The invariant holds at first, and every step keeps it.                  *)
(***************************************************************************)
LEMMA NoEntriesFacts ==
    /\ \A g : NoEntries \in [File -> {0, g}]
    /\ \A f \in File : NoEntries[f] = 0
BY DEF NoEntries

LEMMA InitInv == Init => LifecycleInv /\ MemoryOK
BY NewPool, NoEntriesFacts DEF Init, LifecycleInv, PoolsOK, NamesOK, CacheOK, NoNames, MemoryOK

\* The pool is freed with its name caches.
LEMMA Freed ==
    ASSUME LifecycleInv, free_protobuf_globals, made' = made,
           phase' \notin {"request", "bailed"}, object_cache' = NoEntries
    PROVE  PoolsOK' /\ NamesOK' /\ CacheOK'
<1>1. PoolsOK'
  BY DEF free_protobuf_globals, LifecycleInv, PoolsOK
<1>2. NamesOK'
  BY NewPool, NoEntriesFacts DEF free_protobuf_globals, NamesOK, NoNames
<1>3. CacheOK'
  BY NoEntriesFacts DEF CacheOK
<1> QED BY <1>1, <1>2, <1>3

LEMMA RINITInv ==
    ASSUME LifecycleInv, RINIT
    PROVE  LifecycleInv' /\ (MemoryOK => MemoryOK')
<1>1. /\ phase = "idle" /\ phase' = "request" /\ configured' = configured /\ keep' = keep
      /\ object_cache' = NoEntries /\ descriptors' = {}
  BY DEF RINIT
<1>2. CacheOK'
  BY <1>1, NoEntriesFacts DEF CacheOK
<1>3. CASE /\ NeedsPool /\ made' = made + 1 /\ live' = live \cup {made + 1}
           /\ global_symtab' = made + 1 /\ pool' = upb_DefPool_New
           /\ names' = [mem |-> NameMemory, of |-> NoEntries]
  <2>1. PoolsOK'
    BY <1>1, <1>3 DEF LifecycleInv, PoolsOK, NeedsPool
  <2>2. NamesOK'
    BY <1>3, NewPool, NoEntriesFacts DEF NamesOK
  <2>3. MemoryOK'
    BY <1>1, <1>3 DEF MemoryOK, NameMemory, LifecycleInv
  <2> QED BY <1>1, <1>2, <2>1, <2>2, <2>3 DEF LifecycleInv
<1>4. CASE ~NeedsPool /\ UNCHANGED <<made, live, global_symtab, pool, names>>
  <2>1. PoolsOK' /\ NamesOK'
    BY <1>1, <1>4 DEF LifecycleInv, PoolsOK, NamesOK, NeedsPool
  <2>2. MemoryOK => MemoryOK'
    BY <1>1, <1>4 DEF MemoryOK
  <2> QED BY <1>1, <1>2, <2>1, <2>2 DEF LifecycleInv
<1> QED BY <1>3, <1>4 DEF RINIT

\* The setting is not among what LifecycleInv relates; MemoryOK needs that no
\* script switches it on.
LEMMA IniSetInv ==
    ASSUME LifecycleInv, NEW v \in BOOLEAN, IniSet(v)
    PROVE  LifecycleInv' /\ (IniValues \subseteq {FALSE} /\ MemoryOK => MemoryOK')
BY DEF IniSet, LifecycleInv, PoolsOK, NamesOK, CacheOK, MemoryOK

LEMMA add_descriptorInv ==
    ASSUME LifecycleInv, NEW f \in File, NEW n, add_descriptor(f, n)
    PROVE  LifecycleInv' /\ (MemoryOK => MemoryOK')
<1>0. /\ phase = "request" /\ NamesOK
      /\ UNCHANGED <<configured, keep, made, live, global_symtab, object_cache, descriptors>>
  BY DEF add_descriptor, LifecycleInv
<1>1. /\ IsPool(pool') /\ pool.files \subseteq pool'.files
      /\ pool'.files \subseteq pool.files \cup {Builtin, f}
      /\ f \notin pool.files
      /\ \/ names' = add_name_mappings(f, names) /\ phase' = phase
         \/ /\ pool'.files \subseteq pool.files \cup {Builtin} /\ names' = names
            /\ phase' = "bailed"
         \/ names' = names /\ phase' = "crashed"
  BY <1>0, AddedFiles
<1>2. PoolsOK' /\ CacheOK'
  BY <1>0, <1>1 DEF LifecycleInv, PoolsOK, CacheOK
<1>3. pool'.files \subseteq File /\ global_symtab # 0
  BY <1>0, <1>1, LifecycleAssumption DEF NamesOK, LifecycleInv, PoolsOK
<1>4. /\ names' = [mem |-> names.mem, of |-> names'.of]
      /\ names'.of \in [File -> {0, global_symtab}]
      /\ phase' # "crashed" => \A g \in pool'.files \ {Builtin} : names'.of[g] = global_symtab
  <2>1. CASE names' = add_name_mappings(f, names)
    <3> DEFINE m == [names.of EXCEPT ![f] = IF @ = 0 THEN global_symtab ELSE @]
    <3>1. m \in [File -> {0, global_symtab}] /\ m[f] = global_symtab
          /\ \A g \in File : g # f => m[g] = names.of[g]
      BY <1>0 DEF NamesOK
    <3>2. names' = [mem |-> names.mem, of |-> m]
      BY <1>0, <2>1 DEF add_name_mappings, NamesOK
    <3> HIDE DEF m
    <3> QED BY <1>0, <1>1, <1>3, <3>1, <3>2 DEF NamesOK
  <2>2. CASE names' = names /\ (phase' = "crashed" \/ pool'.files \subseteq pool.files \cup {Builtin})
    BY <1>0, <1>1, <2>2 DEF NamesOK
  <2> QED BY <1>1, <2>1, <2>2
<1>5. NamesOK'
  BY <1>0, <1>1, <1>3, <1>4 DEF NamesOK
<1>6. names'.mem = names.mem
  BY <1>4
<1>7. phase' \in {"request", "bailed", "crashed"}
  BY <1>0, <1>1
<1>8. MemoryOK => MemoryOK'
  BY <1>0, <1>6, <1>7 DEF MemoryOK
<1> QED BY <1>0, <1>2, <1>5, <1>7, <1>8 DEF LifecycleInv

\* A Descriptor of the current pool is cached.
LEMMA Cached ==
    ASSUME LifecycleInv, phase = "request", NEW f,
           object_cache' = [object_cache EXCEPT ![f] = global_symtab],
           descriptors' = descriptors \cup {f},
           UNCHANGED <<phase, configured, keep, made, live, global_symtab, pool, names>>
    PROVE  LifecycleInv' /\ (MemoryOK => MemoryOK')
<1>1. CacheOK'
  BY DEF LifecycleInv, CacheOK
<1>2. PoolsOK' /\ NamesOK' /\ (MemoryOK => MemoryOK')
  BY DEF LifecycleInv, PoolsOK, NamesOK, MemoryOK
<1> QED BY <1>1, <1>2 DEF LifecycleInv

LEMMA Descriptor_FromMessageDefInv ==
    ASSUME LifecycleInv, NEW f \in File, Descriptor_FromMessageDef(f)
    PROVE  LifecycleInv' /\ (MemoryOK => MemoryOK')
<1>1. names.of[f] = global_symtab
  BY DEF Descriptor_FromMessageDef, LifecycleInv, NamesOK
<1> QED BY <1>1, Cached DEF Descriptor_FromMessageDef

LEMMA getDescriptorByProtoNameInv ==
    ASSUME LifecycleInv, NEW s, getDescriptorByProtoName(s)
    PROVE  LifecycleInv' /\ (MemoryOK => MemoryOK')
<1> DEFINE f == _upb_DefPool_LookupSym(pool, s)
<1>1. /\ phase = "request"
      /\ object_cache' = [object_cache EXCEPT ![f] = global_symtab]
      /\ descriptors' = descriptors \cup {f}
      /\ UNCHANGED <<phase, configured, keep, made, live, global_symtab, pool, names>>
  BY DEF getDescriptorByProtoName
<1> HIDE DEF f
<1> QED BY <1>1, Cached

LEMMA RSHUTDOWNInv ==
    ASSUME LifecycleInv, RSHUTDOWN
    PROVE  LifecycleInv' /\ (MemoryOK => MemoryOK')
<1>1. /\ phase \in {"request", "bailed"} /\ phase' = "shutdown" /\ object_cache' = NoEntries
      /\ UNCHANGED <<configured, keep, made>>
  BY DEF RSHUTDOWN
<1>2. CASE ~keep /\ free_protobuf_globals
  <2>1. PoolsOK' /\ NamesOK' /\ CacheOK'
    BY <1>1, <1>2, Freed
  <2>2. MemoryOK'
    BY <1>2 DEF MemoryOK, free_protobuf_globals
  <2> QED BY <1>1, <2>1, <2>2 DEF LifecycleInv
<1>3. CASE keep /\ UNCHANGED <<live, global_symtab, pool, names>>
  <2>1. PoolsOK' /\ NamesOK' /\ CacheOK'
    BY <1>1, <1>3, NoEntriesFacts DEF LifecycleInv, PoolsOK, NamesOK, CacheOK
  <2>2. MemoryOK => MemoryOK'
    BY <1>1, <1>3 DEF MemoryOK
  <2> QED BY <1>1, <2>1, <2>2 DEF LifecycleInv
<1> QED BY <1>2, <1>3 DEF RSHUTDOWN

LEMMA DeactivateInv ==
    ASSUME LifecycleInv, Deactivate
    PROVE  LifecycleInv' /\ (MemoryOK => MemoryOK')
<1>1. /\ phase = "shutdown" /\ phase' = "idle" /\ keep' = configured
      /\ UNCHANGED <<configured, made, live, global_symtab, pool, object_cache, descriptors>>
  BY DEF Deactivate
<1>2. /\ names' = [mem |-> names'.mem, of |-> names.of]
      /\ names.mem = "persistent" => names'.mem = "persistent"
  BY DEF Deactivate, LifecycleInv, NamesOK
<1>3. PoolsOK' /\ CacheOK'
  BY <1>1 DEF LifecycleInv, PoolsOK, CacheOK
<1>4. NamesOK'
  BY <1>1, <1>2 DEF LifecycleInv, NamesOK
<1>5. MemoryOK => MemoryOK'
  BY <1>1, <1>2 DEF MemoryOK
<1> QED BY <1>1, <1>3, <1>4, <1>5 DEF LifecycleInv

LEMMA GSHUTDOWNInv ==
    ASSUME LifecycleInv, GSHUTDOWN
    PROVE  LifecycleInv' /\ (MemoryOK => MemoryOK')
<1>1. /\ phase = "idle" /\ phase' = "stopped"
      /\ UNCHANGED <<configured, keep, made, object_cache, descriptors>>
  BY DEF GSHUTDOWN
<1>2. object_cache' = NoEntries
  BY <1>1 DEF LifecycleInv, CacheOK
<1>3. CASE free_protobuf_globals
  BY <1>1, <1>2, <1>3, Freed DEF LifecycleInv, MemoryOK
<1>4. CASE global_symtab = 0 /\ UNCHANGED <<live, global_symtab, pool, names>>
  BY <1>1, <1>4 DEF LifecycleInv, PoolsOK, NamesOK, CacheOK, MemoryOK
<1> QED BY <1>3, <1>4 DEF GSHUTDOWN

LEMMA StutterInv ==
    ASSUME LifecycleInv, UNCHANGED vars PROVE LifecycleInv' /\ (MemoryOK => MemoryOK')
BY DEF vars, LifecycleInv, PoolsOK, NamesOK, CacheOK, MemoryOK

LEMMA NextInv ==
    ASSUME LifecycleInv, Next
    PROVE  LifecycleInv' /\ (IniValues \subseteq {FALSE} /\ MemoryOK => MemoryOK')
<1>1. CASE RINIT \/ RSHUTDOWN \/ Deactivate \/ GSHUTDOWN
  BY <1>1, RINITInv, RSHUTDOWNInv, DeactivateInv, GSHUTDOWNInv
<1>2. CASE \E v \in BOOLEAN : IniSet(v)
  BY <1>2, IniSetInv
<1>3. CASE \E f \in File, n \in 0..(MaxSyms + 1) : add_descriptor(f, n)
  BY <1>3, add_descriptorInv
<1>4. CASE \E f \in File : Descriptor_FromMessageDef(f)
  BY <1>4, Descriptor_FromMessageDefInv
<1>5. CASE \E s \in Symbol : getDescriptorByProtoName(s)
  BY <1>5, getDescriptorByProtoNameInv
<1> QED BY <1>1, <1>2, <1>3, <1>4, <1>5 DEF Next

-----------------------------------------------------------------------------
(* The table of symbols of a pool.                                         *)

\* A rollback may have broken its chains, but no entry is there twice, and it is
\* not overfull.
SymTable(t) == LooseTable(t, SymHash, Symbol, File) /\ Once(t) /\ t.count <= Room(t)

\* Symbols have hashes.
LEMMA SymHashed == Hashed(SymHash, Symbol)
BY DefPoolAssumption DEF Hashed

\* The types of its parts.
LEMMA SymTableFacts ==
    ASSUME NEW t, SymTable(t)
    PROVE  /\ TableTyped(t, Symbol, File) /\ t.mask \in Nat /\ t.count \in Nat
           /\ upb_table_size(t) \in Nat \ {0} /\ Room(t) \in Nat /\ Room(t) <= upb_table_size(t)
           /\ IsFiniteSet(Used(t)) /\ t.count = Cardinality(Used(t))
           /\ \A x \in Used(t) : /\ x \in Slot(t) /\ t.entries[x].key \in Symbol
                                 /\ t.entries[x].val \in File
<1>1. TableTyped(t, Symbol, File) /\ t.mask \in Nat /\ t.count = Cardinality(Used(t))
  BY DEF SymTable, LooseTable, TableTyped
<1>2. IsFiniteSet(Used(t))
  BY <1>1, Slots, FS_Subset DEF Used
<1>3. t.count \in Nat
  BY <1>1, <1>2, FS_CardinalityType
<1>4. upb_table_size(t) \in Nat \ {0} /\ Room(t) \in Nat /\ Room(t) <= upb_table_size(t)
  BY <1>1 DEF upb_table_size, Room
<1>5. ASSUME NEW x \in Used(t)
      PROVE  /\ x \in Slot(t) /\ t.entries[x].key \in Symbol
             /\ t.entries[x].val \in File
  <2>1. x \in Slot(t) /\ t.entries[x].key # Empty
    BY DEF Used, IsEmpty
  <2>2. t.entries[x].key \in Symbol \cup {Empty}
    BY <1>1, <2>1, TableFields
  <2> QED BY <1>1, <2>1, <2>2 DEF TableTyped
<1> QED BY <1>1, <1>2, <1>3, <1>4, <1>5

\* A lookup finds an entry with the key, or nothing.
LEMMA LookupFinds ==
    ASSUME NEW t, SymTable(t), NEW s \in Symbol, findentry(t, s, SymHash) # Null
    PROVE  LET x == findentry(t, s, SymHash) IN x \in Used(t) /\ t.entries[x].key = s
<1> DEFINE e == MainPos(t, s, SymHash)
           hits == {x \in Chain(t, e) : t.entries[x].key = s}
<1>1. e \in Slot(t)
  BY SymTableFacts, SymHashed, MainPosTyped DEF Hashed
<1>2. Chain(t, e) \subseteq Slot(t)
  <2> HIDE DEF e
  <2> QED BY <1>1, SymTableFacts, ChainIs, TableClosed
<1>3. hits # {} /\ findentry(t, s, SymHash) = CHOOSE x \in hits : TRUE
  BY DEF findentry
<1>4. findentry(t, s, SymHash) \in hits
  <2> HIDE DEF hits
  <2> QED BY <1>3
<1>5. s # Empty
  BY DefPoolAssumption
<1> QED BY <1>2, <1>4, <1>5 DEF Used, IsEmpty

\* What can be found is not looked up in vain.
LEMMA LookupMisses ==
    ASSUME NEW t, SymTable(t), NEW f \in File, Found(t, SymHash, {f}), NEW s \in Symbol,
           findentry(t, s, SymHash) = Null
    PROVE  ~ Holds(t, s, f)
<1> SUFFICES ASSUME Holds(t, s, f) PROVE FALSE
  OBVIOUS
<1> DEFINE e == MainPos(t, s, SymHash)
           hits == {x \in Chain(t, e) : t.entries[x].key = s}
<1>1. PICK x \in Slot(t) : t.entries[x].key = s /\ t.entries[x].val = f
  BY DEF Holds
<1>2. x \in Used(t)
  BY <1>1, DefPoolAssumption DEF Used, IsEmpty
<1>3. x \in Chain(t, e)
  BY <1>1, <1>2 DEF Found, FoundAt
<1>4. e \in Slot(t) /\ Null \notin Slot(t)
  BY SymTableFacts, SymHashed, MainPosTyped, Slots DEF Hashed
<1>5. t.count # 0
  BY <1>2, SymTableFacts, FS_EmptySet
<1> HIDE DEF e
<1>6. Chain(t, e) \subseteq Slot(t)
  BY <1>4, SymTableFacts, ChainIs, TableClosed
<1>7. ~ IsEmpty(t, e)
  <2> SUFFICES ASSUME IsEmpty(t, e) PROVE FALSE
    OBVIOUS
  <2>1. KeyAt(t)[e] = Empty
    BY <1>4 DEF KeyAt, IsEmpty
  <2>2. LeadsTo(Slot(t), LinkAt(t), e, x)
    BY <1>3, <1>4, SymTableFacts, ChainLeads
  <2>3. Loose(Slot(t), Symbol, KeyAt(t), LinkAt(t), Mains(t, Symbol, SymHash))
    BY DEF SymTable, LooseTable
  <2>4. x = e
    BY <1>4, <2>1, <2>2, <2>3, EmptyLeadsNowhere
  <2> QED BY <1>2, <2>4 DEF Used
<1>8. hits # {} /\ \A y \in hits : y # Null
  BY <1>1, <1>3, <1>4, <1>6
<1>9. findentry(t, s, SymHash) = CHOOSE y \in hits : TRUE
  BY <1>5, <1>7, <1>8 DEF findentry, e
<1>10. findentry(t, s, SymHash) \in hits
  <2> HIDE DEF hits
  <2> QED BY <1>8, <1>9
<1> QED BY <1>8, <1>10

\* A table of double size has room for one entry more.
LEMMA DoubledRoom ==
    ASSUME NEW n \in Nat \ {0}, NEW c \in Nat, c <= n
    PROVE  c + 1 <= 2 * n - (2 * n) \div 8
OBVIOUS

\* A full table is doubled; then, or if it was not full, there is room.
LEMMA GrownOK ==
    ASSUME NEW t, SymTable(t), NEW f \in File, Found(t, SymHash, {f})
    PROVE  LET g == IF isfull(t) THEN resize(t, DoubledSize(t), SymHash) ELSE t
           IN  /\ SymTable(g) /\ Found(g, SymHash, {f}) /\ g.count + 1 <= Room(g)
               /\ \A i \in Symbol, w \in File : Holds(g, i, w) <=> Holds(t, i, w)
<1>0. /\ t.count \in Nat /\ upb_table_size(t) \in Nat \ {0} /\ t.count <= Room(t)
      /\ Room(t) \in Nat /\ Room(t) <= upb_table_size(t) /\ LooseTable(t, SymHash, Symbol, File) /\ Once(t)
  BY SymTableFacts DEF SymTable
<1>1. CASE isfull(t)
  <2> DEFINE size == DoubledSize(t)
             r == resize(t, size, SymHash)
  <2>1. size \in Nat \ {0} /\ t.count < size /\ size = 2 * upb_table_size(t)
    BY <1>0 DEF DoubledSize
  <2>2. /\ LooseTable(r, SymHash, Symbol, File) /\ Once(r) /\ Found(r, SymHash, File)
        /\ r.mask = size - 1 /\ r.count = t.count
        /\ \A i \in Symbol, w \in File : Holds(r, i, w) <=> Holds(t, i, w)
    <3> HIDE DEF size
    <3> QED BY <1>0, <2>1, SymHashed, ResizeLoose
  <2> HIDE DEF r
  <2>3. r.count + 1 <= Room(r)
    <3>1. upb_table_size(r) = 2 * upb_table_size(t)
      BY <1>0, <2>1, <2>2 DEF upb_table_size
    <3>2. t.count + 1 <= 2 * upb_table_size(t) - (2 * upb_table_size(t)) \div 8
      BY <1>0, DoubledRoom
    <3> QED BY <2>2, <3>1, <3>2 DEF Room
  <2>4. SymTable(r) /\ Found(r, SymHash, {f})
    <3>1. r.count \in Nat
      BY <1>0, <2>2
    <3>2. Room(r) \in Int
      BY <2>1, <2>2 DEF Room, upb_table_size
    <3> QED BY <2>2, <2>3, <3>1, <3>2 DEF SymTable, Found
  <2> QED BY <1>1, <2>2, <2>3, <2>4 DEF r
<1>2. CASE ~ isfull(t)
  <2>1. t.count + 1 <= Room(t)
    BY <1>0, <1>2 DEF isfull, Room
  <2> QED BY <1>2, <2>1
<1> QED BY <1>1, <1>2

\* A symbol is inserted, or refused because it is found, or its chain is broken
\* where insert() looks for the entry it evicts.
LEMMA InsertSymOK ==
    ASSUME NEW t, SymTable(t), NEW f \in File, Found(t, SymHash, {f}), NEW s \in Symbol
    PROVE  LET r == _upb_DefPool_InsertSym(t, s, f)
           IN  /\ r.status \in {"ok", "error", "crash"}
               /\ r.status = "error" => r.table = t
               /\ r.status = "ok" =>
                     /\ SymTable(r.table) /\ Found(r.table, SymHash, {f})
                     /\ \A i \in Symbol, w \in File :
                           Holds(r.table, i, w) <=> Holds(t, i, w) \/ (i = s /\ w = f)
<1> DEFINE g == IF isfull(t) THEN resize(t, DoubledSize(t), SymHash) ELSE t
           r == _upb_DefPool_InsertSym(t, s, f)
           t2 == insert(g, s, f, SymHash)
<1>1. CASE findentry(t, s, SymHash) # Null
  BY <1>1 DEF _upb_DefPool_InsertSym
<1>2. CASE findentry(t, s, SymHash) = Null /\ ~ CanInsert(g, s, SymHash)
  BY <1>2 DEF _upb_DefPool_InsertSym
<1>3. CASE findentry(t, s, SymHash) = Null /\ CanInsert(g, s, SymHash)
  <2>1. r = [table |-> t2, status |-> "ok"]
    BY <1>3 DEF _upb_DefPool_InsertSym
  <2>2. /\ SymTable(g) /\ Found(g, SymHash, {f}) /\ g.count + 1 <= Room(g)
        /\ \A i \in Symbol, w \in File : Holds(g, i, w) <=> Holds(t, i, w)
    BY GrownOK
  <2> HIDE DEF g
  <2>3. ~ Holds(g, s, f)
    BY <1>3, <2>2, LookupMisses
  <2>4. g.count < upb_table_size(g) /\ LooseTable(g, SymHash, Symbol, File) /\ Once(g)
    <3>1. /\ g.count \in Nat /\ upb_table_size(g) \in Nat /\ Room(g) <= upb_table_size(g)
          /\ Room(g) \in Int
      BY <2>2, SymTableFacts DEF Room
    <3> QED BY <2>2, <3>1 DEF SymTable
  <2>5. /\ LooseTable(t2, SymHash, Symbol, File) /\ Once(t2)
        /\ t2.mask = g.mask /\ t2.count = g.count + 1
        /\ \A i \in Symbol, w \in File : Holds(t2, i, w) <=> Holds(g, i, w) \/ (i = s /\ w = f)
        /\ \A W : Found(g, SymHash, W) => Found(t2, SymHash, W)
    <3>1. LET e    == MainPos(g, s, SymHash)
              head == MainPos(g, g.entries[e].key, SymHash)
          IN  IsEmpty(g, e) \/ head = e \/ Before(g, head, e) # {}
      BY <1>3 DEF CanInsert
    <3> QED BY <2>3, <2>4, <3>1, SymHashed, InsertEffects
  <2> HIDE DEF t2, r
  <2>6. Room(t2) = Room(g)
    BY <2>5 DEF Room, upb_table_size
  <2>7. SymTable(t2)
    BY <2>2, <2>5, <2>6 DEF SymTable
  <2>8. r.table = t2 /\ r.status = "ok"
    BY <2>1
  <2> QED BY <2>2, <2>5, <2>7, <2>8 DEF r
<1> QED BY <1>1, <1>2, <1>3

-----------------------------------------------------------------------------
(* Adding the symbols of a file, one after the other.                      *)

\* AddSyms as a recursive function g, up to k.
AddStep(b, f, i) ==
    IF b.status # "ok" THEN b ELSE _upb_DefPool_InsertSym(b.table, Syms[f][i], f)

AddTo(g, t, f, k) ==
    g = [i \in 0..k |-> IF i = 0 THEN [table |-> t, status |-> "ok"] ELSE AddStep(g[i - 1], f, i)]

\* There is such a function.
LEMMA AddsExist ==
    ASSUME NEW t, NEW f
    PROVE  \A k \in Nat : \E g : AddTo(g, t, f, k)
<1> DEFINE Q == {k \in Nat : \E g : AddTo(g, t, f, k)}
           first == [table |-> t, status |-> "ok"]
<1>0. \A g, k : AddTo(g, t, f, k) <=>
                g = [i \in 0..k |-> IF i = 0 THEN first ELSE AddStep(g[i - 1], f, i)]
  BY DEF AddTo
<1> HIDE DEF first
<1>1. 0 \in Q
  <2> DEFINE g == [i \in 0..0 |-> first]
  <2>1. \A i \in 0..0 : i = 0
    OBVIOUS
  <2>2. g = [i \in 0..0 |-> IF i = 0 THEN first ELSE AddStep(g[i - 1], f, i)]
    BY <2>1
  <2> HIDE DEF g
  <2>3. AddTo(g, t, f, 0)
    BY <1>0, <2>2
  <2> QED BY <2>3
<1>2. ASSUME NEW k \in Nat, k \in Q PROVE k + 1 \in Q
  <2>1. PICK g : g = [i \in 0..k |-> IF i = 0 THEN first ELSE AddStep(g[i - 1], f, i)]
    BY <1>0, <1>2
  <2> DEFINE d == [i \in 0..(k + 1) |-> IF i = 0 THEN first ELSE AddStep(g[i - 1], f, i)]
  <2>2. \A i \in 0..k : i \in 0..(k + 1) /\ d[i] = g[i]
    <3> SUFFICES ASSUME NEW i \in 0..k PROVE i \in 0..(k + 1) /\ d[i] = g[i]
      OBVIOUS
    <3>1. i \in 0..(k + 1)
      OBVIOUS
    <3>2. g[i] = IF i = 0 THEN first ELSE AddStep(g[i - 1], f, i)
      BY <2>1, Zenon
    <3>3. d[i] = IF i = 0 THEN first ELSE AddStep(g[i - 1], f, i)
      BY <3>1, Zenon
    <3> QED BY <3>1, <3>2, <3>3, Zenon
  <2>3. \A i \in 0..(k + 1) : i # 0 => d[i - 1] = g[i - 1]
    <3> SUFFICES ASSUME NEW i \in 0..(k + 1), i # 0 PROVE d[i - 1] = g[i - 1]
      OBVIOUS
    <3>1. i - 1 \in 0..k
      OBVIOUS
    <3> QED BY <2>2, <3>1
  <2>4. d = [i \in 0..(k + 1) |-> IF i = 0 THEN first ELSE AddStep(d[i - 1], f, i)]
    BY <2>3
  <2> HIDE DEF d
  <2>5. AddTo(d, t, f, k + 1)
    BY <1>0, <2>4
  <2> QED BY <2>5
<1> HIDE DEF Q
<1>3. \A k \in Nat : k \in Q
  BY <1>1, <1>2, NumberInduction
<1> QED BY <1>3 DEF Q

\* However the addition of a file's symbols ends, but for a crash, the table is
\* sound and holds the symbols of the other files as before.
LEMMA AddSymsOK ==
    ASSUME NEW t, SymTable(t), NEW f \in File, Found(t, SymHash, {f}),
           NEW n \in Nat, n <= Len(Syms[f])
    PROVE  LET r == AddSyms(t, f, n)
           IN  /\ r.status \in {"ok", "error", "crash"}
               /\ r.status # "crash" =>
                     /\ SymTable(r.table)
                     /\ \A i \in Symbol, w \in File \ {f} : Holds(r.table, i, w) <=> Holds(t, i, w)
               /\ r.status = "ok" =>
                     \A i \in Symbol, w \in File :
                        Holds(r.table, i, w) <=>
                           Holds(t, i, w) \/ (w = f /\ \E m \in 1..n : Syms[f][m] = i)
<1> DEFINE g == CHOOSE d : d = [i \in 0..n |->
                   IF i = 0 THEN [table |-> t, status |-> "ok"]
                   ELSE LET before == d[i - 1]
                        IN  IF before.status # "ok" THEN before
                            ELSE _upb_DefPool_InsertSym(before.table, Syms[f][i], f)]
<1>1. AddSyms(t, f, n) = g[n]
  BY DEF AddSyms
<1>2. AddTo(g, t, f, n)
  <2>1. PICK d : AddTo(d, t, f, n)
    BY AddsExist
  <2> QED BY <2>1, Zenon DEF AddTo, AddStep
<1> HIDE DEF g
<1>3. g[0] = [table |-> t, status |-> "ok"]
  <2>1. 0 \in 0..n
    OBVIOUS
  <2> QED BY <1>2, <2>1 DEF AddTo
<1>4. ASSUME NEW m \in Nat, m + 1 <= n PROVE g[m + 1] = AddStep(g[m], f, m + 1)
  <2>1. m + 1 \in 0..n /\ m + 1 # 0 /\ (m + 1) - 1 = m
    BY <1>4
  <2>2. g[m + 1] = IF m + 1 = 0 THEN [table |-> t, status |-> "ok"]
                   ELSE AddStep(g[(m + 1) - 1], f, m + 1)
    BY <1>2, <2>1, Zenon DEF AddTo
  <2> QED BY <2>1, <2>2
<1> DEFINE Listed(i, w, m) == w = f /\ \E l \in 1..m : Syms[f][l] = i
           Kept(b) == /\ SymTable(b.table) /\ Found(b.table, SymHash, {f})
                      /\ \A i \in Symbol, w \in File \ {f} : Holds(b.table, i, w) <=> Holds(t, i, w)
           Full(b, m) == \A i \in Symbol, w \in File :
                            Holds(b.table, i, w) <=> Holds(t, i, w) \/ Listed(i, w, m)
           P(m) == /\ g[m].status \in {"ok", "error", "crash"}
                   /\ g[m].status # "crash" => Kept(g[m])
                   /\ g[m].status = "ok" => Full(g[m], m)
           Q == {m \in Nat : m <= n => P(m)}
<1>5. 0 \in Q
  <2>1. g[0].table = t /\ g[0].status = "ok"
    BY <1>3
  <2>2. \A i, w : ~ Listed(i, w, 0)
    OBVIOUS
  <2> QED BY <2>1, <2>2
<1>6. ASSUME NEW m \in Nat, m \in Q PROVE m + 1 \in Q
  <2> SUFFICES ASSUME m + 1 <= n PROVE P(m + 1)
    OBVIOUS
  <2>1. P(m)
    BY <1>6
  <2>2. CASE g[m].status # "ok"
    <3>1. g[m + 1] = g[m]
      BY <1>4, <2>2 DEF AddStep
    <3> QED BY <2>1, <2>2, <3>1
  <2>3. CASE g[m].status = "ok"
    <3> DEFINE s == Syms[f][m + 1]
               b == g[m].table
               r == _upb_DefPool_InsertSym(b, s, f)
    <3>1. g[m + 1] = r
      BY <1>4, <2>3 DEF AddStep
    <3>2. s \in Symbol
      <4>1. Syms[f] \in Seq(Symbol)
        BY DefPoolAssumption
      <4>2. m + 1 \in 1..Len(Syms[f])
        <5>1. Len(Syms[f]) \in Nat
          BY <4>1
        <5> QED BY <5>1
      <4> QED BY <4>1, <4>2
    <3>3. Kept(g[m]) /\ Full(g[m], m)
      BY <2>1, <2>3
    <3>4. /\ r.status \in {"ok", "error", "crash"}
          /\ r.status = "error" => r.table = b
          /\ r.status = "ok" =>
                /\ SymTable(r.table) /\ Found(r.table, SymHash, {f})
                /\ \A i \in Symbol, w \in File :
                      Holds(r.table, i, w) <=> Holds(b, i, w) \/ (i = s /\ w = f)
      <4> HIDE DEF s
      <4> QED BY <3>2, <3>3, InsertSymOK
    <3>5. ASSUME NEW i \in Symbol, NEW w \in File
          PROVE  Listed(i, w, m + 1) <=> Listed(i, w, m) \/ (i = s /\ w = f)
      <4>1. \A l : l \in 1..(m + 1) <=> l \in 1..m \/ l = m + 1
        OBVIOUS
      <4> QED BY <4>1
    <3> HIDE DEF r, s, Listed
    <3>6. CASE r.status = "ok"
      <4>1. Full(r, m + 1)
        BY <3>3, <3>4, <3>5, <3>6
      <4>2. Kept(r)
        BY <3>3, <3>4, <3>6
      <4> QED BY <3>1, <3>6, <4>1, <4>2
    <3>7. CASE r.status = "error"
      <4>1. Kept(r)
        BY <3>3, <3>4, <3>7
      <4> HIDE DEF Kept
      <4> QED BY <3>1, <3>7, <4>1
    <3>8. CASE r.status = "crash"
      BY <3>1, <3>8
    <3> QED BY <3>4, <3>6, <3>7, <3>8
  <2> QED BY <2>2, <2>3
<1> HIDE DEF P, Q
<1>7. \A m \in Nat : m \in Q
  BY <1>5, <1>6, NumberInduction
<1>8. P(n)
  BY <1>7 DEF Q
<1> QED BY <1>1, <1>8 DEF P

-----------------------------------------------------------------------------
(* Removing the symbols of a file again.                                   *)

\* remove_filedef as a recursive function g, up to k.
RemoveStep(b, f, i) ==
    IF ~ IsEmpty(b, i - 1) /\ b.entries[i - 1].val = f THEN removeiter(b, i - 1) ELSE b

RemoveTo(g, t, f, k) ==
    g = [i \in 0..k |-> IF i = 0 THEN t ELSE RemoveStep(g[i - 1], f, i)]

\* There is such a function.
LEMMA RemovesExist ==
    ASSUME NEW t, NEW f
    PROVE  \A k \in Nat : \E g : RemoveTo(g, t, f, k)
<1> DEFINE Q == {k \in Nat : \E g : RemoveTo(g, t, f, k)}
<1>0. \A g, k : RemoveTo(g, t, f, k) <=>
                g = [i \in 0..k |-> IF i = 0 THEN t ELSE RemoveStep(g[i - 1], f, i)]
  BY DEF RemoveTo
<1>1. 0 \in Q
  <2> DEFINE g == [i \in 0..0 |-> t]
  <2>1. \A i \in 0..0 : i = 0
    OBVIOUS
  <2>2. g = [i \in 0..0 |-> IF i = 0 THEN t ELSE RemoveStep(g[i - 1], f, i)]
    BY <2>1
  <2> HIDE DEF g
  <2>3. RemoveTo(g, t, f, 0)
    BY <1>0, <2>2
  <2> QED BY <2>3
<1>2. ASSUME NEW k \in Nat, k \in Q PROVE k + 1 \in Q
  <2>1. PICK g : g = [i \in 0..k |-> IF i = 0 THEN t ELSE RemoveStep(g[i - 1], f, i)]
    BY <1>0, <1>2
  <2> DEFINE d == [i \in 0..(k + 1) |-> IF i = 0 THEN t ELSE RemoveStep(g[i - 1], f, i)]
  <2>2. \A i \in 0..k : i \in 0..(k + 1) /\ d[i] = g[i]
    <3> SUFFICES ASSUME NEW i \in 0..k PROVE i \in 0..(k + 1) /\ d[i] = g[i]
      OBVIOUS
    <3>1. i \in 0..(k + 1)
      OBVIOUS
    <3>2. g[i] = IF i = 0 THEN t ELSE RemoveStep(g[i - 1], f, i)
      BY <2>1, Zenon
    <3>3. d[i] = IF i = 0 THEN t ELSE RemoveStep(g[i - 1], f, i)
      BY <3>1, Zenon
    <3> QED BY <3>1, <3>2, <3>3, Zenon
  <2>3. \A i \in 0..(k + 1) : i # 0 => d[i - 1] = g[i - 1]
    <3> SUFFICES ASSUME NEW i \in 0..(k + 1), i # 0 PROVE d[i - 1] = g[i - 1]
      OBVIOUS
    <3>1. i - 1 \in 0..k
      OBVIOUS
    <3> QED BY <2>2, <3>1
  <2>4. d = [i \in 0..(k + 1) |-> IF i = 0 THEN t ELSE RemoveStep(d[i - 1], f, i)]
    BY <2>3
  <2> HIDE DEF d
  <2>5. RemoveTo(d, t, f, k + 1)
    BY <1>0, <2>4
  <2> QED BY <2>5
<1> HIDE DEF Q
<1>3. \A k \in Nat : k \in Q
  BY <1>1, <1>2, NumberInduction
<1> QED BY <1>3 DEF Q

\* remove_filedef() removes the symbols of the file and no other, although the
\* entries move under no iteration: removeiter() empties the one it is at.
LEMMA RemoveFileOK ==
    ASSUME NEW t, SymTable(t), NEW f \in File
    PROVE  LET r == remove_filedef(t, f)
           IN  /\ SymTable(r)
               /\ \A i \in Symbol, w \in File : Holds(r, i, w) <=> Holds(t, i, w) /\ w # f
<1> DEFINE k == upb_table_size(t)
           g == CHOOSE d : d = [i \in 0..k |->
                   IF i = 0 THEN t
                   ELSE LET before == d[i - 1]
                        IN  IF ~ IsEmpty(before, i - 1) /\ before.entries[i - 1].val = f
                            THEN removeiter(before, i - 1) ELSE before]
<1>0. /\ t.mask \in Nat /\ k = t.mask + 1 /\ k \in Nat /\ LooseTable(t, SymHash, Symbol, File)
      /\ Once(t) /\ t.count \in Nat /\ t.count <= Room(t) /\ Room(t) \in Nat
  BY SymTableFacts DEF SymTable, upb_table_size
<1>1. remove_filedef(t, f) = g[k]
  BY DEF remove_filedef
<1>2. RemoveTo(g, t, f, k)
  <2>1. PICK d : RemoveTo(d, t, f, k)
    <3> HIDE DEF k
    <3> QED BY <1>0, RemovesExist
  <2> QED BY <2>1, Zenon DEF RemoveTo, RemoveStep
<1> HIDE DEF g, k
<1>3. g[0] = t
  <2>1. 0 \in 0..k
    BY <1>0
  <2> QED BY <1>2, <2>1 DEF RemoveTo
<1>4. ASSUME NEW m \in Nat, m + 1 <= k PROVE g[m + 1] = RemoveStep(g[m], f, m + 1)
  <2>1. m + 1 \in 0..k /\ m + 1 # 0 /\ (m + 1) - 1 = m
    BY <1>0, <1>4
  <2>2. g[m + 1] = IF m + 1 = 0 THEN t ELSE RemoveStep(g[(m + 1) - 1], f, m + 1)
    BY <1>2, <2>1, Zenon DEF RemoveTo
  <2> QED BY <2>1, <2>2
<1> DEFINE Left(m) == {x \in Used(t) : ~(x < m /\ t.entries[x].val = f)}
           P(m) == /\ LooseTable(g[m], SymHash, Symbol, File) /\ g[m].mask = t.mask
                   /\ Used(g[m]) = Left(m)
                   /\ \A x \in Left(m) : /\ g[m].entries[x].key = t.entries[x].key
                                         /\ g[m].entries[x].val = t.entries[x].val
           Q == {m \in Nat : m <= k => P(m)}
<1>5. 0 \in Q
  <2>1. Left(0) = Used(t)
    BY <1>0 DEF Used, Slot
  <2> QED BY <1>0, <1>3, <2>1
<1>6. ASSUME NEW m \in Nat, m \in Q PROVE m + 1 \in Q
  <2> SUFFICES ASSUME m + 1 <= k PROVE P(m + 1)
    OBVIOUS
  <2>1. P(m) /\ m \in Slot(t) /\ m \in Slot(g[m])
    BY <1>0, <1>6 DEF Slot
  <2>2. g[m + 1] = IF ~ IsEmpty(g[m], m) /\ g[m].entries[m].val = f
                   THEN removeiter(g[m], m) ELSE g[m]
    <3>1. (m + 1) - 1 = m
      OBVIOUS
    <3> QED BY <1>4, <3>1 DEF RemoveStep
  <2>3. \A x \in Used(t) : x < m + 1 <=> x < m \/ x = m
    BY <1>0 DEF Slot, Used
  <2>4. m \in Used(g[m]) <=> m \in Used(t)
    <3>1. ~(m < m)
      OBVIOUS
    <3> QED BY <2>1, <3>1
  <2>5. CASE ~ IsEmpty(g[m], m) /\ g[m].entries[m].val = f
    <3>1. m \in Used(g[m]) /\ m \in Used(t) /\ t.entries[m].val = f
      BY <2>1, <2>4, <2>5 DEF Used
    <3>2. g[m + 1] = removeiter(g[m], m)
      BY <2>2, <2>5
    <3>3. LooseTable(g[m + 1], SymHash, Symbol, File) /\ Removed(g[m], g[m + 1], m)
      BY <2>1, <3>1, <3>2, SymHashed, RemoveLoose
    <3>4. Left(m + 1) = Left(m) \ {m}
      BY <2>3, <3>1
    <3> HIDE DEF Left
    <3> QED BY <2>1, <3>3, <3>4 DEF Removed
  <2>6. CASE ~(~ IsEmpty(g[m], m) /\ g[m].entries[m].val = f)
    <3>1. g[m + 1] = g[m]
      BY <2>2, <2>6
    <3>2. m \in Used(t) => t.entries[m].val # f
      BY <2>1, <2>4, <2>6 DEF Used
    <3>3. Left(m + 1) = Left(m)
      BY <2>3, <3>2
    <3> HIDE DEF Left
    <3> QED BY <2>1, <3>1, <3>3
  <2> QED BY <2>5, <2>6
<1> HIDE DEF P, Q
<1>7. \A m \in Nat : m \in Q
  BY <1>5, <1>6, NumberInduction
<1>8. P(k)
  BY <1>0, <1>7 DEF Q
<1> DEFINE r == g[k]
<1>9. /\ LooseTable(r, SymHash, Symbol, File) /\ r.mask = t.mask
      /\ Used(r) = {x \in Used(t) : t.entries[x].val # f}
      /\ \A x \in Used(r) : /\ r.entries[x].key = t.entries[x].key
                            /\ r.entries[x].val = t.entries[x].val
  <2>1. Left(k) = {x \in Used(t) : t.entries[x].val # f}
    BY <1>0 DEF Used, Slot
  <2> HIDE DEF Left
  <2> QED BY <1>8, <2>1 DEF P
<1> HIDE DEF r
<1>10. Once(r)
  BY <1>0, <1>9 DEF Once
<1>11. r.count <= Room(r)
  <2>1. Room(r) = Room(t)
    BY <1>9 DEF Room, upb_table_size
  <2>2. r.count = Cardinality(Used(r)) /\ t.count = Cardinality(Used(t)) /\ IsFiniteSet(Used(t))
    BY <1>9, SymTableFacts DEF LooseTable
  <2>3. r.count <= t.count /\ r.count \in Nat
    BY <1>9, <2>2, FS_Subset, FS_CardinalityType
  <2> QED BY <1>0, <2>1, <2>3
<1>12. ASSUME NEW i \in Symbol, NEW w \in File
       PROVE  Holds(r, i, w) <=> Holds(t, i, w) /\ w # f
  <2>1. i # Empty
    BY DefPoolAssumption
  <2>2. \A T : Holds(T, i, w) <=> \E x \in Used(T) : T.entries[x].key = i /\ T.entries[x].val = w
    BY <2>1 DEF Holds, Used, IsEmpty
  <2> QED BY <1>9, <2>2
<1> QED BY <1>1, <1>9, <1>10, <1>11, <1>12 DEF SymTable, r

-----------------------------------------------------------------------------
(* The content of a pool: the symbols and extensions of its files.         *)

\* File w defines symbol i; file f extends a message with extension x.
Defines(w, i) == \E m \in DOMAIN Syms[w] : Syms[w][m] = i
Extends(f, x) == \E i \in DOMAIN Exts[f] : Exts[f][i] = x

\* The table has the symbols of the files of the pool, and no other.
SymsExact(p) ==
    \A i \in Symbol, w \in File : Holds(p.syms, i, w) <=> w \in p.files /\ Defines(w, i)

\* An extension is registered for the one file of the pool that has it, if any.
ExtsExact(p) ==
    \A x \in Extension : {p.extreg[x]} \ {0} = {f \in p.files : Extends(f, x)}

\* A pool that no insertion crashed on.
PoolOK(p) == SymTable(p.syms) /\ SymsExact(p) /\ ExtsExact(p)

\* The shape of a pool, in which the table may be what a crash left.
PoolTyped(p) ==
    /\ IsPool(p) /\ p.files \subseteq File /\ p.exts \subseteq File
    /\ p.extreg \in [Extension -> File \cup {0}]

\* A new pool has no files, no symbols and no extensions.
LEMMA NewPoolOK == PoolOK(upb_DefPool_New) /\ PoolTyped(upb_DefPool_New)
<1> DEFINE p == upb_DefPool_New
           t == init(SymsSize)
<1>1. /\ p.syms = t /\ p.files = {} /\ p.exts = {} /\ p.extreg = [x \in Extension |-> 0]
      /\ IsPool(p)
  BY DEF upb_DefPool_New, IsPool
<1>2. SymsSize \in Nat \ {0}
  BY DefPoolAssumption
<1>3. /\ LooseTable(t, SymHash, Symbol, File)
      /\ t.mask = SymsSize - 1 /\ t.count = 0 /\ Used(t) = {}
  BY <1>2, SymHashed, InitLoose
<1> HIDE DEF p, t
<1>4. SymTable(t)
  <2>1. upb_table_size(t) = SymsSize
    BY <1>2, <1>3 DEF upb_table_size
  <2>2. 0 <= SymsSize - SymsSize \div 8
    BY <1>2
  <2>3. Once(t)
    BY <1>3 DEF Once
  <2> QED BY <1>3, <2>1, <2>2, <2>3 DEF SymTable, Room
<1>5. SymsExact(p)
  <2>1. ASSUME NEW i \in Symbol, NEW w PROVE ~ Holds(t, i, w)
    <3>1. i # Empty
      BY DefPoolAssumption
    <3> QED BY <1>3, <3>1 DEF Holds, Used, IsEmpty
  <2> QED BY <1>1, <2>1 DEF SymsExact
<1>6. ExtsExact(p)
  BY <1>1 DEF ExtsExact
<1>7. PoolTyped(p)
  BY <1>1 DEF PoolTyped
<1> QED BY <1>1, <1>4, <1>5, <1>6, <1>7 DEF PoolOK, p

\* The extensions of a file are registered all or not at all.
LEMMA RegistryOK ==
    ASSUME NEW reg, reg \in [Extension -> File \cup {0}], NEW f \in File
    PROVE  LET r == upb_ExtensionRegistry_AddArray(reg, f)
           IN  /\ r.status \in {"ok", "error"} /\ r.reg \in [Extension -> File \cup {0}]
               /\ r.status = "error" => r.reg = reg
               /\ r.status = "ok" =>
                     \A x \in Extension : /\ Extends(f, x) => reg[x] = 0 /\ r.reg[x] = f
                                          /\ ~ Extends(f, x) => r.reg[x] = reg[x]
<1> DEFINE new   == {Exts[f][i] : i \in DOMAIN Exts[f]}
           taken == \/ \E x \in new : reg[x] # 0
                    \/ Cardinality(new) < Len(Exts[f])
           more  == [x \in Extension |-> IF x \in new THEN f ELSE reg[x]]
           r     == upb_ExtensionRegistry_AddArray(reg, f)
<1>1. r = [reg |-> IF taken THEN reg ELSE more, status |-> IF taken THEN "error" ELSE "ok"]
  BY DEF upb_ExtensionRegistry_AddArray
<1>2. \A x \in Extension : x \in new <=> Extends(f, x)
  BY DEF Extends
<1>3. more \in [Extension -> File \cup {0}]
  OBVIOUS
<1>4. ~ taken => \A x \in new : reg[x] = 0
  OBVIOUS
<1>5. \A x \in Extension : more[x] = IF x \in new THEN f ELSE reg[x]
  OBVIOUS
<1> HIDE DEF r, more, taken, new
<1>6. CASE taken
  <2>1. r.reg = reg /\ r.status = "error"
    BY <1>1, <1>6
  <2> QED BY <2>1 DEF r
<1>7. CASE ~ taken
  <2>1. r.reg = more /\ r.status = "ok"
    BY <1>1, <1>7
  <2> QED BY <1>2, <1>3, <1>4, <1>5, <1>7, <2>1 DEF r
<1> QED BY <1>6, <1>7

\* The ends of upb_DefPool_AddFile.
LEMMA AddFileEnds ==
    ASSUME NEW p, IsPool(p), NEW f \in File, NEW n
    PROVE  LET len   == Len(Syms[f])
               named == AddSyms(p.syms, f, IF n > len THEN len ELSE n)
               laid  == IF Exts[f] = <<>> THEN p.exts ELSE p.exts \cup {f}
               reg   == upb_ExtensionRegistry_AddArray(p.extreg, f)
               gone  == remove_filedef(named.table, f)
               r     == upb_DefPool_AddFile(p, f, n)
           IN  \/ r.pool = p /\ r.status = "error"
               \/ /\ r.pool = [syms |-> named.table, files |-> p.files, exts |-> p.exts,
                               extreg |-> p.extreg]
                  /\ r.status = "crash"
               \/ /\ f \notin p.files /\ named.status # "crash"
                  /\ \/ r.pool = [syms |-> gone, files |-> p.files, exts |-> p.exts,
                                  extreg |-> p.extreg]
                     \/ /\ reg.status = "error"
                        /\ r.pool = [syms |-> gone, files |-> p.files, exts |-> laid,
                                     extreg |-> reg.reg]
                  /\ r.status = "error"
               \/ /\ f \notin p.files /\ named.status \notin {"crash", "error"}
                  /\ ~(n <= len) /\ reg.status # "error"
                  /\ r.pool = [syms |-> named.table, files |-> p.files \cup {f},
                               exts |-> laid, extreg |-> reg.reg]
                  /\ r.status = "ok"
<1> DEFINE len   == Len(Syms[f])
           named == AddSyms(p.syms, f, IF n > len THEN len ELSE n)
           laid  == IF Exts[f] = <<>> THEN p.exts ELSE p.exts \cup {f}
           reg   == upb_ExtensionRegistry_AddArray(p.extreg, f)
           gone  == remove_filedef(named.table, f)
           undone == [p EXCEPT !.syms = gone]
           r     == upb_DefPool_AddFile(p, f, n)
<1>1. r = IF f \in p.files THEN [pool |-> p, status |-> "error"]
          ELSE IF ~ (Deps[f] \subseteq p.files) THEN [pool |-> p, status |-> "error"]
          ELSE IF named.status = "crash"
          THEN [pool |-> [p EXCEPT !.syms = named.table], status |-> "crash"]
          ELSE IF named.status = "error" \/ n <= len
          THEN [pool |-> undone, status |-> "error"]
          ELSE IF reg.status = "error"
          THEN [pool |-> [undone EXCEPT !.exts = laid, !.extreg = reg.reg], status |-> "error"]
          ELSE [pool |-> [syms |-> named.table, files |-> p.files \cup {f},
                          exts |-> laid, extreg |-> reg.reg],
                status |-> "ok"]
  BY DEF upb_DefPool_AddFile
<1>2. p = [syms |-> p.syms, files |-> p.files, exts |-> p.exts, extreg |-> p.extreg]
  BY DEF IsPool
<1> HIDE DEF named, laid, reg, r
<1>3. [p EXCEPT !.syms = named.table] =
         [syms |-> named.table, files |-> p.files, exts |-> p.exts, extreg |-> p.extreg]
  BY <1>2
<1> HIDE DEF gone
<1>4. undone = [syms |-> gone, files |-> p.files, exts |-> p.exts, extreg |-> p.extreg]
  BY <1>2
<1> HIDE DEF undone
<1>5. [undone EXCEPT !.exts = laid, !.extreg = reg.reg] =
         [syms |-> gone, files |-> p.files, exts |-> laid, extreg |-> reg.reg]
  <2> DEFINE u == [undone EXCEPT !.exts = laid]
             g == reg.reg
  <2> HIDE DEF g
  <2>1. u = [syms |-> gone, files |-> p.files, exts |-> laid, extreg |-> p.extreg]
    BY <1>4
  <2>2. [undone EXCEPT !.exts = laid, !.extreg = g] = [u EXCEPT !.extreg = g]
    BY Zenon
  <2> HIDE DEF u
  <2>3. [u EXCEPT !.extreg = g] =
           [syms |-> gone, files |-> p.files, exts |-> laid, extreg |-> g]
    BY <2>1
  <2> QED BY <2>2, <2>3 DEF g
<1> DEFINE cr == [p EXCEPT !.syms = named.table]
           er == [undone EXCEPT !.exts = laid, !.extreg = reg.reg]
           ok == [syms |-> named.table, files |-> p.files \cup {f}, exts |-> laid,
                  extreg |-> reg.reg]
<1>6. \/ r = [pool |-> p, status |-> "error"]
      \/ r = [pool |-> cr, status |-> "crash"]
      \/ f \notin p.files /\ named.status # "crash" /\ r = [pool |-> undone, status |-> "error"]
      \/ /\ f \notin p.files /\ named.status # "crash" /\ reg.status = "error"
         /\ r = [pool |-> er, status |-> "error"]
      \/ /\ f \notin p.files /\ named.status \notin {"crash", "error"} /\ ~(n <= len)
         /\ reg.status # "error" /\ r = [pool |-> ok, status |-> "ok"]
  BY <1>1
<1> HIDE DEF cr, er, ok
<1>7. /\ cr = [syms |-> named.table, files |-> p.files, exts |-> p.exts, extreg |-> p.extreg]
      /\ er = [syms |-> gone, files |-> p.files, exts |-> laid, extreg |-> reg.reg]
      /\ ok = [syms |-> named.table, files |-> p.files \cup {f}, exts |-> laid,
               extreg |-> reg.reg]
  BY <1>3, <1>5 DEF cr, er, ok
<1>8. \/ r.pool = p /\ r.status = "error"
      \/ r.pool = cr /\ r.status = "crash"
      \/ /\ f \notin p.files /\ named.status # "crash"
         /\ r.pool = undone /\ r.status = "error"
      \/ /\ f \notin p.files /\ named.status # "crash" /\ reg.status = "error"
         /\ r.pool = er /\ r.status = "error"
      \/ /\ f \notin p.files /\ named.status \notin {"crash", "error"} /\ ~(n <= len)
         /\ reg.status # "error" /\ r.pool = ok /\ r.status = "ok"
  <2>1. CASE r = [pool |-> p, status |-> "error"]
    BY <2>1
  <2>2. CASE r = [pool |-> cr, status |-> "crash"]
    BY <2>2
  <2>3. CASE /\ f \notin p.files /\ named.status # "crash"
             /\ r = [pool |-> undone, status |-> "error"]
    BY <2>3
  <2>4. CASE /\ f \notin p.files /\ named.status # "crash" /\ reg.status = "error"
             /\ r = [pool |-> er, status |-> "error"]
    BY <2>4
  <2>5. CASE /\ f \notin p.files /\ named.status \notin {"crash", "error"} /\ ~(n <= len)
             /\ reg.status # "error" /\ r = [pool |-> ok, status |-> "ok"]
    <3>1. r.pool = ok /\ r.status = "ok"
      BY <2>5
    <3> QED BY <2>5, <3>1
  <2> QED BY <1>6, <2>1, <2>2, <2>3, <2>4, <2>5
<1> QED BY <1>4, <1>7, <1>8, Zenon DEF r, named, laid, reg, gone

\* Whatever its end, AddFile leaves a pool.
LEMMA AddFileTyped ==
    ASSUME NEW p, PoolTyped(p), NEW f \in File, NEW n
    PROVE  PoolTyped(upb_DefPool_AddFile(p, f, n).pool)
<1> DEFINE len   == Len(Syms[f])
           named == AddSyms(p.syms, f, IF n > len THEN len ELSE n)
           laid  == IF Exts[f] = <<>> THEN p.exts ELSE p.exts \cup {f}
           reg   == upb_ExtensionRegistry_AddArray(p.extreg, f)
           gone  == remove_filedef(named.table, f)
           q     == upb_DefPool_AddFile(p, f, n).pool
<1>1. IsPool(p) /\ p.files \subseteq File /\ p.exts \subseteq File
      /\ p.extreg \in [Extension -> File \cup {0}]
  BY DEF PoolTyped
<1>2. reg.reg \in [Extension -> File \cup {0}] /\ laid \subseteq File
  BY <1>1, RegistryOK
<1>3. \/ q = p
      \/ q = [syms |-> named.table, files |-> p.files, exts |-> p.exts, extreg |-> p.extreg]
      \/ q = [syms |-> gone, files |-> p.files, exts |-> p.exts, extreg |-> p.extreg]
      \/ q = [syms |-> gone, files |-> p.files, exts |-> laid, extreg |-> reg.reg]
      \/ q = [syms |-> named.table, files |-> p.files \cup {f}, exts |-> laid,
              extreg |-> reg.reg]
  BY <1>1, AddFileEnds
<1> HIDE DEF named, laid, reg, gone, q
<1>4. PoolTyped(q)
  BY <1>1, <1>2, <1>3 DEF PoolTyped, IsPool
<1> QED BY <1>4 DEF q

\* A file is added with all its symbols and extensions, or leaves no trace.
LEMMA AddFileOK ==
    ASSUME NEW p, PoolTyped(p), PoolOK(p), NEW f \in File, NEW n \in Nat,
           upb_DefPool_AddFile(p, f, n).status # "crash"
    PROVE  PoolOK(upb_DefPool_AddFile(p, f, n).pool)
<1> DEFINE len   == Len(Syms[f])
           l     == IF n > len THEN len ELSE n
           named == AddSyms(p.syms, f, l)
           laid  == IF Exts[f] = <<>> THEN p.exts ELSE p.exts \cup {f}
           reg   == upb_ExtensionRegistry_AddArray(p.extreg, f)
           gone  == remove_filedef(named.table, f)
           r     == upb_DefPool_AddFile(p, f, n)
<1>1. /\ IsPool(p) /\ p.files \subseteq File /\ p.extreg \in [Extension -> File \cup {0}]
      /\ SymTable(p.syms) /\ SymsExact(p) /\ ExtsExact(p)
  BY DEF PoolTyped, PoolOK
<1>2. len \in Nat /\ DOMAIN Syms[f] = 1..len /\ l \in Nat /\ l <= len
  <2>1. Syms[f] \in Seq(Symbol)
    BY DefPoolAssumption
  <2>2. len \in Nat /\ DOMAIN Syms[f] = 1..len
    BY <2>1
  <2> QED BY <2>2
<1>3. f # 0
  BY DefPoolAssumption
<1>4. \/ r.pool = p /\ r.status = "error"
      \/ r.status = "crash"
      \/ /\ f \notin p.files /\ named.status # "crash"
         /\ \/ r.pool = [syms |-> gone, files |-> p.files, exts |-> p.exts,
                         extreg |-> p.extreg]
            \/ /\ reg.status = "error"
               /\ r.pool = [syms |-> gone, files |-> p.files, exts |-> laid,
                            extreg |-> reg.reg]
      \/ /\ f \notin p.files /\ named.status \notin {"crash", "error"}
         /\ ~(n <= len) /\ reg.status # "error"
         /\ r.pool = [syms |-> named.table, files |-> p.files \cup {f},
                      exts |-> laid, extreg |-> reg.reg]
  BY <1>1, AddFileEnds
<1>5. /\ reg.status \in {"ok", "error"}
      /\ reg.status = "error" => reg.reg = p.extreg
      /\ reg.status = "ok" =>
            \A x \in Extension : /\ Extends(f, x) => p.extreg[x] = 0 /\ reg.reg[x] = f
                                 /\ ~ Extends(f, x) => reg.reg[x] = p.extreg[x]
  BY <1>1, RegistryOK
<1> HIDE DEF len, l
<1>6. ASSUME f \notin p.files
      PROVE  /\ named.status \in {"ok", "error", "crash"}
             /\ named.status # "crash" =>
                   /\ SymTable(named.table)
                   /\ \A i \in Symbol, w \in File \ {f} :
                         Holds(named.table, i, w) <=> Holds(p.syms, i, w)
             /\ named.status = "ok" =>
                   \A i \in Symbol, w \in File :
                      Holds(named.table, i, w) <=>
                         Holds(p.syms, i, w) \/ (w = f /\ \E m \in 1..l : Syms[f][m] = i)
  <2>1. Found(p.syms, SymHash, {f})
    <3> SUFFICES ASSUME NEW x \in Used(p.syms), p.syms.entries[x].val = f PROVE FALSE
      BY DEF Found
    <3>1. x \in Slot(p.syms) /\ p.syms.entries[x].key \in Symbol
      BY <1>1, SymTableFacts
    <3>2. Holds(p.syms, p.syms.entries[x].key, f)
      BY <3>1 DEF Holds
    <3> QED BY <1>1, <1>6, <3>1, <3>2 DEF SymsExact
  <2> QED BY <1>1, <1>2, <2>1, AddSymsOK
<1> HIDE DEF named, laid, reg, r, gone
<1>7. CASE r.pool = p
  BY <1>7 DEF r
<1>8. CASE /\ f \notin p.files /\ named.status # "crash"
           /\ r.pool.syms = gone /\ r.pool.files = p.files /\ r.pool.extreg = p.extreg
  <2>1. /\ SymTable(named.table)
        /\ \A i \in Symbol, w \in File \ {f} : Holds(named.table, i, w) <=> Holds(p.syms, i, w)
    BY <1>6, <1>8
  <2>2. /\ SymTable(gone)
        /\ \A i \in Symbol, w \in File : Holds(gone, i, w) <=> Holds(named.table, i, w) /\ w # f
    BY <2>1, RemoveFileOK DEF gone
  <2>3. SymsExact(r.pool)
    <3> SUFFICES ASSUME NEW i \in Symbol, NEW w \in File
                 PROVE  Holds(gone, i, w) <=> w \in p.files /\ Defines(w, i)
      BY <1>8 DEF SymsExact
    <3>1. CASE w = f
      BY <1>8, <2>2, <3>1
    <3>2. CASE w # f
      BY <1>1, <2>1, <2>2, <3>2 DEF SymsExact
    <3> QED BY <3>1, <3>2
  <2>4. ExtsExact(r.pool)
    BY <1>1, <1>8 DEF ExtsExact
  <2> QED BY <1>8, <2>2, <2>3, <2>4 DEF PoolOK, r
<1>9. CASE /\ f \notin p.files /\ named.status \notin {"crash", "error"}
           /\ ~(n <= len) /\ reg.status # "error"
           /\ r.pool.syms = named.table /\ r.pool.files = p.files \cup {f}
           /\ r.pool.extreg = reg.reg
  <2>1. named.status = "ok" /\ reg.status = "ok"
    BY <1>5, <1>6, <1>9
  <2>2. l = len
    BY <1>2, <1>9 DEF l
  <2>3. /\ SymTable(named.table)
        /\ \A i \in Symbol, w \in File :
              Holds(named.table, i, w) <=> Holds(p.syms, i, w) \/ (w = f /\ Defines(f, i))
    BY <1>2, <1>6, <1>9, <2>1, <2>2 DEF Defines
  <2>4. SymsExact(r.pool)
    <3> SUFFICES ASSUME NEW i \in Symbol, NEW w \in File
                 PROVE  Holds(named.table, i, w) <=> w \in p.files \cup {f} /\ Defines(w, i)
      BY <1>9 DEF SymsExact
    <3> QED BY <1>1, <2>3 DEF SymsExact
  <2>5. ExtsExact(r.pool)
    <3> SUFFICES ASSUME NEW x \in Extension
                 PROVE  {reg.reg[x]} \ {0} = {g \in p.files \cup {f} : Extends(g, x)}
      BY <1>9 DEF ExtsExact
    <3>1. {p.extreg[x]} \ {0} = {g \in p.files : Extends(g, x)}
      BY <1>1 DEF ExtsExact
    <3>2. CASE Extends(f, x)
      <4>1. p.extreg[x] = 0 /\ reg.reg[x] = f
        BY <1>5, <2>1, <3>2
      <4>2. \A g \in p.files : ~ Extends(g, x)
        BY <3>1, <4>1
      <4> QED BY <1>3, <3>2, <4>1, <4>2
    <3>3. CASE ~ Extends(f, x)
      <4>1. reg.reg[x] = p.extreg[x]
        BY <1>5, <2>1, <3>3
      <4> QED BY <3>1, <3>3, <4>1
    <3> QED BY <3>2, <3>3
  <2> QED BY <1>9, <2>3, <2>4, <2>5 DEF PoolOK, r
<1>10. r.status # "crash"
  BY DEF r
<1>11. /\ \A s, e, x : LET q == [syms |-> s, files |-> p.files, exts |-> e, extreg |-> x]
                       IN  q.syms = s /\ q.files = p.files /\ q.extreg = x
       /\ \A s, e, x : LET q == [syms |-> s, files |-> p.files \cup {f}, exts |-> e, extreg |-> x]
                       IN  q.syms = s /\ q.files = p.files \cup {f} /\ q.extreg = x
  OBVIOUS
<1>12. \/ r.pool = p
       \/ /\ f \notin p.files /\ named.status # "crash"
          /\ r.pool.syms = gone /\ r.pool.files = p.files /\ r.pool.extreg = p.extreg
       \/ /\ f \notin p.files /\ named.status \notin {"crash", "error"}
          /\ ~(n <= len) /\ reg.status # "error"
          /\ r.pool.syms = named.table /\ r.pool.files = p.files \cup {f}
          /\ r.pool.extreg = reg.reg
  BY <1>4, <1>5, <1>10, <1>11
<1> QED BY <1>7, <1>8, <1>9, <1>12

-----------------------------------------------------------------------------
(***************************************************************************)
(* The content of the pool is exact, in every state.                       *)
(***************************************************************************)
\* The inductive part about the content of the pool: exact in every state, with
\* names and Descriptors for its files only.
PoolInv ==
    /\ PoolTyped(pool) /\ made <= MaxPools
    /\ phase # "crashed" => PoolOK(pool)
    /\ names.mem \in {"none", "persistent", "request", "released"}
    /\ \A f \in File : names.of[f] # 0 => f \in pool.files
    /\ descriptors \subseteq pool.files
    /\ phase \in {"idle", "shutdown", "stopped"} => descriptors = {}

\* The pool is a new one, without names and Descriptors.
LEMMA EmptyPoolInv ==
    ASSUME pool' = upb_DefPool_New, names'.of = NoEntries, descriptors' = {},
           names'.mem \in {"none", "persistent", "request", "released"}, made' <= MaxPools
    PROVE  PoolInv'
<1>1. PoolTyped(pool') /\ PoolOK(pool')
  BY NewPoolOK
<1> QED BY <1>1, NoEntriesFacts DEF PoolInv

LEMMA InitPoolInv == Init => PoolInv
<1>1. SUFFICES ASSUME Init PROVE PoolInv
  OBVIOUS
<1>2. PoolTyped(pool) /\ PoolOK(pool)
  BY <1>1, NewPoolOK DEF Init
<1>3. 0 <= MaxPools
  BY LifecycleAssumption
<1> QED BY <1>1, <1>2, <1>3, NoEntriesFacts DEF PoolInv, Init, NoNames

\* RINIT makes a new pool, or takes over the one that was kept.
LEMMA RINITPoolInv == ASSUME LifecycleInv, PoolInv, RINIT PROVE PoolInv'
<1>1. phase = "idle" /\ phase' = "request" /\ descriptors' = {}
  BY DEF RINIT
<1>2. CASE /\ made < MaxPools /\ made' = made + 1 /\ pool' = upb_DefPool_New
           /\ names' = [mem |-> NameMemory, of |-> NoEntries]
  <2>1. made' <= MaxPools
    BY <1>2, LifecycleAssumption DEF LifecycleInv, PoolsOK
  <2>2. NameMemory \in {"persistent", "request"}
    BY DEF NameMemory
  <2>3. names'.of = NoEntries /\ names'.mem = NameMemory
    BY <1>2
  <2> QED BY <1>1, <1>2, <2>1, <2>2, <2>3, EmptyPoolInv
<1>3. CASE UNCHANGED <<made, live, global_symtab, pool, names>>
  BY <1>1, <1>3 DEF PoolInv
<1> QED BY <1>2, <1>3 DEF RINIT

\* The pool is freed with everything that leads into it.
LEMMA FreedPoolInv ==
    ASSUME PoolInv, free_protobuf_globals, made' = made, descriptors' = {} PROVE PoolInv'
BY EmptyPoolInv DEF PoolInv, free_protobuf_globals, NoNames

\* A file that depends on descriptor.proto may bring it along.
LEMMA BuiltOK ==
    ASSUME PoolTyped(pool), PoolOK(pool), NEW f \in File
    PROVE  LET r == WithBuiltin(f)
           IN  PoolTyped(r.pool) /\ (r.status # "crash" => PoolOK(r.pool))
<1>1. CASE Builtin \in Deps[f] /\ Builtin \notin pool.files
  <2> DEFINE n == Len(Syms[Builtin]) + 1
             r == upb_DefPool_AddFile(pool, Builtin, n)
  <2>1. WithBuiltin(f) = r
    BY <1>1 DEF WithBuiltin
  <2>2. Builtin \in File
    BY LifecycleAssumption
  <2>3. n \in Nat
    <3>1. Syms[Builtin] \in Seq(Symbol)
      BY <2>2, DefPoolAssumption
    <3> QED BY <3>1
  <2> HIDE DEF n
  <2>4. PoolTyped(r.pool)
    BY <2>2, AddFileTyped
  <2>5. r.status # "crash" => PoolOK(r.pool)
    BY <2>2, <2>3, AddFileOK
  <2> HIDE DEF r
  <2> QED BY <2>1, <2>4, <2>5
<1>2. CASE ~(Builtin \in Deps[f] /\ Builtin \notin pool.files)
  BY <1>2 DEF WithBuiltin
<1> QED BY <1>1, <1>2

\* A file is added to the pool with its names, or neither is.
LEMMA AddedPool ==
    ASSUME NamesOK, PoolTyped(pool), PoolOK(pool), NEW f \in File, NEW n \in Nat,
           add_descriptor(f, n)
    PROVE  /\ PoolTyped(pool') /\ (phase' # "crashed" => PoolOK(pool'))
           /\ \/ names' = names
              \/ names' = add_name_mappings(f, names) /\ f \in pool'.files
<1> DEFINE built == WithBuiltin(f)
           added == upb_DefPool_AddFile(built.pool, f, n)
<1>1. PoolTyped(built.pool) /\ (built.status # "crash" => PoolOK(built.pool))
  BY BuiltOK
<1>2. IsPool(built.pool)
  BY <1>1 DEF PoolTyped
<1>3. pool' = added.pool
      /\ LET end == IF built.status = "crash" THEN "crash" ELSE added.status
         IN  \/ end = "ok" /\ names' = add_name_mappings(f, names) /\ UNCHANGED phase
             \/ end = "error" /\ phase' = "bailed" /\ UNCHANGED names
             \/ end = "crash" /\ phase' = "crashed" /\ UNCHANGED names
  BY Zenon DEF add_descriptor
<1> HIDE DEF built
<1>4. added.status = "ok" => added.pool.files = built.pool.files \cup {f}
  BY <1>2, AddFileFiles
<1>5. PoolTyped(added.pool)
  BY <1>1, AddFileTyped
<1>6. built.status # "crash" /\ added.status # "crash" => PoolOK(added.pool)
  BY <1>1, AddFileOK
<1> HIDE DEF added
<1> QED BY <1>3, <1>4, <1>5, <1>6

LEMMA add_descriptorPoolInv ==
    ASSUME LifecycleInv, PoolInv, NEW f \in File, NEW n \in Nat, add_descriptor(f, n)
    PROVE  PoolInv'
<1>1. phase = "request" /\ made' = made /\ descriptors' = descriptors
  BY DEF add_descriptor
<1>2. NamesOK /\ PoolTyped(pool) /\ PoolOK(pool)
  BY <1>1 DEF LifecycleInv, PoolInv
<1>3. /\ PoolTyped(pool') /\ (phase' # "crashed" => PoolOK(pool'))
      /\ \/ names' = names
         \/ names' = add_name_mappings(f, names) /\ f \in pool'.files
  BY <1>2, AddedPool
<1>4. pool.files \subseteq pool'.files /\ phase' \in {"request", "bailed", "crashed"}
  BY <1>1, <1>2, AddedFiles
<1>5. /\ names'.mem = names.mem
      /\ \A g \in File : names'.of[g] # 0 => g \in pool'.files
  <2>1. CASE names' = names
    BY <1>4, <2>1 DEF PoolInv
  <2>2. CASE names' = add_name_mappings(f, names) /\ f \in pool'.files
    <3> DEFINE m == [names.of EXCEPT ![f] = IF @ = 0 THEN global_symtab ELSE @]
    <3>1. \A g \in File : g # f => m[g] = names.of[g]
      BY <1>2 DEF NamesOK
    <3>2. names' = [mem |-> names.mem, of |-> m]
      BY <1>2, <2>2 DEF add_name_mappings, NamesOK
    <3> HIDE DEF m
    <3> QED BY <1>4, <2>2, <3>1, <3>2 DEF PoolInv
  <2> QED BY <1>3, <2>1, <2>2
<1> QED BY <1>1, <1>3, <1>4, <1>5 DEF PoolInv

\* A lookup may miss a symbol after a rollback, but what it finds is the symbol
\* of a file in the pool.
LEMMA getDescriptorByProtoNamePoolInv ==
    ASSUME PoolInv, NEW s \in Symbol, getDescriptorByProtoName(s)
    PROVE  PoolInv'
<1> DEFINE f == _upb_DefPool_LookupSym(pool, s)
           x == findentry(pool.syms, s, SymHash)
<1>1. /\ phase = "request" /\ f # 0 /\ descriptors' = descriptors \cup {f}
      /\ UNCHANGED <<phase, made, pool, names>>
  BY DEF getDescriptorByProtoName
<1>2. PoolOK(pool)
  BY <1>1 DEF PoolInv
<1>3. x # Null /\ f = pool.syms.entries[x].val
  BY <1>1 DEF _upb_DefPool_LookupSym
<1>4. x \in Used(pool.syms) /\ pool.syms.entries[x].key = s
  BY <1>2, <1>3, LookupFinds DEF PoolOK
<1> HIDE DEF x, f
<1>5. x \in Slot(pool.syms) /\ f \in File
  BY <1>2, <1>3, <1>4, SymTableFacts DEF PoolOK
<1>6. Holds(pool.syms, s, f)
  BY <1>3, <1>4, <1>5 DEF Holds
<1>7. f \in pool.files
  BY <1>2, <1>5, <1>6 DEF PoolOK, SymsExact
<1> QED BY <1>1, <1>7 DEF PoolInv

LEMMA OthersPoolInv ==
    ASSUME LifecycleInv, PoolInv,
           \/ \E v \in BOOLEAN : IniSet(v)
           \/ \E f \in File : Descriptor_FromMessageDef(f)
           \/ Deactivate \/ UNCHANGED vars
    PROVE  PoolInv'
<1>1. CASE \E v \in BOOLEAN : IniSet(v)
  BY <1>1 DEF IniSet, PoolInv
<1>2. CASE \E f \in File : Descriptor_FromMessageDef(f)
  BY <1>2 DEF Descriptor_FromMessageDef, PoolInv
<1>3. CASE Deactivate
  <2>1. /\ phase = "shutdown" /\ phase' = "idle" /\ UNCHANGED <<made, pool, descriptors>>
    BY <1>3 DEF Deactivate
  <2>2. /\ names'.of = names.of
        /\ names'.mem = IF names.mem = "request" THEN "released" ELSE names.mem
    BY <1>3 DEF Deactivate, LifecycleInv, NamesOK
  <2> QED BY <2>1, <2>2 DEF PoolInv
<1>4. CASE UNCHANGED vars
  BY <1>4 DEF vars, PoolInv
<1> QED BY <1>1, <1>2, <1>3, <1>4

\* The ends of a request and of the process.
LEMMA ShutdownPoolInv ==
    ASSUME LifecycleInv, PoolInv, RSHUTDOWN \/ GSHUTDOWN PROVE PoolInv'
<1>1. CASE RSHUTDOWN
  <2>1. /\ phase \in {"request", "bailed"} /\ phase' = "shutdown" /\ made' = made
        /\ descriptors' = {}
    BY <1>1 DEF RSHUTDOWN
  <2>2. CASE free_protobuf_globals
    BY <2>1, <2>2, FreedPoolInv
  <2>3. CASE UNCHANGED <<live, global_symtab, pool, names>>
    BY <2>1, <2>3 DEF PoolInv
  <2> QED BY <1>1, <2>2, <2>3 DEF RSHUTDOWN
<1>2. CASE GSHUTDOWN
  <2>1. phase = "idle" /\ phase' = "stopped" /\ made' = made /\ descriptors' = descriptors
    BY <1>2 DEF GSHUTDOWN
  <2>2. descriptors = {}
    BY <2>1 DEF PoolInv
  <2>3. CASE free_protobuf_globals
    BY <2>1, <2>2, <2>3, FreedPoolInv
  <2>4. CASE UNCHANGED <<live, global_symtab, pool, names>>
    BY <2>1, <2>4 DEF PoolInv
  <2> QED BY <1>2, <2>3, <2>4 DEF GSHUTDOWN
<1> QED BY <1>1, <1>2

LEMMA NextPoolInv == ASSUME LifecycleInv, PoolInv, [Next]_vars PROVE PoolInv'
<1>1. CASE RINIT
  BY <1>1, RINITPoolInv
<1>2. CASE RSHUTDOWN \/ GSHUTDOWN
  BY <1>2, ShutdownPoolInv
<1>3. CASE \E f \in File, n \in Nat : add_descriptor(f, n)
  BY <1>3, add_descriptorPoolInv
<1>4. CASE \E s \in Symbol : getDescriptorByProtoName(s)
  BY <1>4, getDescriptorByProtoNamePoolInv
<1>5. CASE \/ \E v \in BOOLEAN : IniSet(v)
           \/ \E f \in File : Descriptor_FromMessageDef(f)
           \/ Deactivate \/ UNCHANGED vars
  BY <1>5, OthersPoolInv
<1>6. \A n \in 0..(MaxSyms + 1) : n \in Nat
  OBVIOUS
<1> QED BY <1>1, <1>2, <1>3, <1>4, <1>5, <1>6 DEF Next

\* An iteration of the table finds what it holds, each symbol once.
LEMMA DefinedIsHeld ==
    ASSUME NEW p, PoolTyped(p), PoolOK(p)
    PROVE  /\ Defined(p) =
                 UNION {{<<Syms[f][i], f>> : i \in DOMAIN Syms[f]} : f \in p.files}
           /\ p.syms.count = Cardinality(Defined(p))
<1> DEFINE t == p.syms
           at == [x \in Used(t) |-> <<t.entries[x].key, t.entries[x].val>>]
<1>1. SymTable(t) /\ SymsExact(p) /\ p.files \subseteq File
  BY DEF PoolTyped, PoolOK
<1>2. Defined(p) = {<<t.entries[x].key, t.entries[x].val>> : x \in Used(t)}
  BY DEF Defined, Used, Slot
<1>3. Defined(p) = UNION {{<<Syms[f][i], f>> : i \in DOMAIN Syms[f]} : f \in p.files}
  <2>1. ASSUME NEW x \in Used(t)
        PROVE  \E f \in p.files : \E i \in DOMAIN Syms[f] :
                  <<t.entries[x].key, t.entries[x].val>> = <<Syms[f][i], f>>
    <3> DEFINE k == t.entries[x].key
               f == t.entries[x].val
    <3>1. x \in Slot(t) /\ k \in Symbol /\ f \in File
      BY <1>1, SymTableFacts
    <3>2. Holds(t, k, f)
      BY <3>1 DEF Holds
    <3> HIDE DEF k, f
    <3>3. f \in p.files /\ \E i \in DOMAIN Syms[f] : Syms[f][i] = k
      BY <1>1, <3>1, <3>2 DEF SymsExact, Defines
    <3> QED BY <3>3 DEF k, f
  <2>2. ASSUME NEW f \in p.files, NEW i \in DOMAIN Syms[f]
        PROVE  \E x \in Used(t) : <<t.entries[x].key, t.entries[x].val>> = <<Syms[f][i], f>>
    <3> DEFINE k == Syms[f][i]
    <3>1. k \in Symbol /\ f \in File
      <4>1. Syms[f] \in Seq(Symbol)
        BY <1>1, DefPoolAssumption
      <4> QED BY <1>1, <4>1
    <3>2. Defines(f, k)
      BY DEF Defines
    <3> HIDE DEF k
    <3>3. Holds(t, k, f)
      BY <1>1, <3>1, <3>2 DEF SymsExact
    <3>4. PICK x \in Slot(t) : t.entries[x].key = k /\ t.entries[x].val = f
      BY <3>3 DEF Holds
    <3>5. k # Empty
      BY <3>1, DefPoolAssumption
    <3>6. x \in Used(t)
      BY <3>4, <3>5 DEF Used, IsEmpty
    <3> QED BY <3>4, <3>6 DEF k
  <2> QED BY <1>2, <2>1, <2>2
<1>4. t.count = Cardinality(Defined(p))
  <2>1. IsFiniteSet(Used(t)) /\ t.count = Cardinality(Used(t))
    BY <1>1, SymTableFacts
  <2>2. at \in [Used(t) -> Defined(p)]
    BY <1>2
  <2>3. \A x, y \in Used(t) : at[x] = at[y] => x = y
    BY <1>1 DEF SymTable, Once
  <2>4. \A d \in Defined(p) : \E x \in Used(t) : at[x] = d
    BY <1>2
  <2> HIDE DEF at
  <2>5. at \in Bijection(Used(t), Defined(p))
    BY <2>2, <2>3, <2>4 DEF Bijection, Injection, Surjection, IsInjective
  <2>6. ExistsBijection(Used(t), Defined(p))
    BY <2>5 DEF ExistsBijection
  <2> QED BY <2>1, <2>6, FS_Bijection
<1> QED BY <1>3, <1>4

LEMMA InvImpliesPoolExact == ASSUME PoolInv PROVE PoolExact
<1> SUFFICES ASSUME phase # "crashed"
             PROVE  /\ Defined(pool) =
                       UNION {{<<Syms[f][i], f>> : i \in DOMAIN Syms[f]} : f \in pool.files}
                    /\ pool.syms.count = Cardinality(Defined(pool))
                    /\ \A x \in Extension :
                         {pool.extreg[x]} \ {0} =
                           {f \in pool.files : \E i \in DOMAIN Exts[f] : Exts[f][i] = x}
  BY DEF PoolExact
<1>1. PoolTyped(pool) /\ PoolOK(pool)
  BY DEF PoolInv
<1>2. \A x \in Extension : {pool.extreg[x]} \ {0} =
                           {f \in pool.files : \E i \in DOMAIN Exts[f] : Exts[f][i] = x}
  BY <1>1 DEF PoolOK, ExtsExact, Extends
<1> QED BY <1>1, <1>2, DefinedIsHeld

LEMMA InvImpliesTypeOK == ASSUME LifecycleInv, PoolInv PROVE TypeOK
<1>1. /\ made \in 0..MaxPools /\ global_symtab \in 0..MaxPools /\ live \subseteq 1..MaxPools
  BY LifecycleAssumption DEF LifecycleInv, PoolsOK, PoolInv
<1>2. /\ pool.files \subseteq File /\ pool.exts \subseteq File
      /\ pool.extreg \in [Extension -> File \cup {0}] /\ descriptors \subseteq pool.files
  BY DEF PoolInv, PoolTyped
<1>3. names.of \in [File -> 0..MaxPools] /\ object_cache \in [File -> 0..MaxPools]
  BY <1>1, LifecycleAssumption DEF LifecycleInv, NamesOK, CacheOK
<1>4. names \in [mem : {"none", "persistent", "request", "released"},
                 of : [File -> 0..MaxPools]]
  BY <1>3 DEF LifecycleInv, NamesOK, PoolInv
<1> QED BY <1>1, <1>2, <1>3, <1>4 DEF TypeOK, LifecycleInv

----------------------------------------------------------------------------
(***************************************************************************)
(* The theorems.                                                           *)
(***************************************************************************)

\* LifecycleInv is an invariant, whatever scripts do with the setting.
THEOREM LifecycleInvariant == Spec => []LifecycleInv
<1>1. LifecycleInv /\ [Next]_vars => LifecycleInv'
  BY NextInv, StutterInv
<1> QED BY <1>1, InitInv, PTL DEF Spec

\* RINIT makes a pool only if there is none, and RSHUTDOWN or GSHUTDOWN frees
\* it: at most one pool is live, and none at the end.
THEOREM OnePoolIsLive == Spec => []OnePool
<1>1. LifecycleInv => OnePool
  BY DEF LifecycleInv, PoolsOK, OnePool
<1> QED BY <1>1, LifecycleInvariant, PTL

\* A file that add_descriptor finds in the pool has its names mapped, although
\* the pool may be from an earlier request and additions may have failed.
THEOREM LoadedFilesAreNamed == Spec => []LoadedIsNamed
<1>1. LifecycleInv => LoadedIsNamed
  BY DEF LifecycleInv, NamesOK, LoadedIsNamed
<1> QED BY <1>1, LifecycleInvariant, PTL

\* The name caches and the object cache lead into the pool that is live.
THEOREM EntriesAreCurrent == Spec => []EntriesCurrent
<1>1. LifecycleInv => EntriesCurrent
  BY DEF LifecycleInv, PoolsOK, NamesOK, CacheOK, EntriesCurrent
<1> QED BY <1>1, LifecycleInvariant, PTL

\* Where scripts do not switch keep_descriptor_pool_after_request on, a pool is
\* never kept longer than the memory of its name caches: RSHUTDOWN reads the
\* setting NameMemory was chosen by, or a lower one.
THEOREM NamesStayUsable == ASSUME IniValues \subseteq {FALSE} PROVE Spec => []NamesUsable
<1>1. Init => LifecycleInv /\ MemoryOK
  BY InitInv
<1>2. LifecycleInv /\ MemoryOK /\ [Next]_vars => LifecycleInv' /\ MemoryOK'
  BY NextInv, StutterInv
<1>3. MemoryOK => NamesUsable
  BY DEF MemoryOK, NamesUsable
<1> QED BY <1>1, <1>2, <1>3, PTL DEF Spec

\* While the setting is on, no step takes a file out of the pool, but for the
\* end of the process.
THEOREM KeptPoolOnlyGrows == Spec => KeptPoolGrows
<1> DEFINE Grow == (configured /\ keep) => pool.files \subseteq pool.files' \/ phase' = "stopped"
<1>1. ASSUME LifecycleInv, Next PROVE Grow
  <2>1. CASE RINIT
    <3>1. global_symtab = 0 => pool.files = {}
      BY <1>1 DEF LifecycleInv, NamesOK
    <3>2. pool' = pool \/ global_symtab = 0
      BY <2>1 DEF RINIT, NeedsPool
    <3> QED BY <3>1, <3>2
  <2>2. CASE RSHUTDOWN
    <3>1. ~keep \/ pool' = pool
      BY <2>2 DEF RSHUTDOWN
    <3> QED BY <3>1
  <2>3. CASE GSHUTDOWN
    BY <2>3 DEF GSHUTDOWN
  <2>4. CASE Deactivate \/ \E v \in BOOLEAN : IniSet(v)
    <3>1. pool' = pool
      BY <2>4 DEF Deactivate, IniSet
    <3> QED BY <3>1
  <2>5. CASE \E f \in File, n \in 0..(MaxSyms + 1) : add_descriptor(f, n)
    <3>1. pool.files \subseteq pool'.files
      BY <1>1, <2>5, AddedFiles DEF LifecycleInv
    <3> QED BY <3>1
  <2>6. CASE \E f \in File : Descriptor_FromMessageDef(f)
    <3>1. pool' = pool
      BY <2>6 DEF Descriptor_FromMessageDef
    <3> QED BY <3>1
  <2>7. CASE \E s \in Symbol : getDescriptorByProtoName(s)
    <3>1. pool' = pool
      BY <2>7 DEF getDescriptorByProtoName
    <3> QED BY <3>1
  <2> QED BY <1>1, <2>1, <2>2, <2>3, <2>4, <2>5, <2>6, <2>7 DEF Next
<1>2. LifecycleInv /\ [Next]_vars => [Grow]_vars
  BY <1>1
<1> QED BY <1>2, LifecycleInvariant, PTL DEF Spec, KeptPoolGrows

\* PoolInv is an invariant, wherever building a file fails and however the
\* table of symbols chains and evicts its entries.
THEOREM PoolInvariant == Spec => []PoolInv
<1>1. LifecycleInv /\ PoolInv /\ [Next]_vars => PoolInv'
  BY NextPoolInv
<1> QED BY <1>1, InitPoolInv, LifecycleInvariant, PTL DEF Spec

\* However often and wherever adding a file fails, the pool holds the symbols
\* and extensions of the files that were added and no others: remove_filedef
\* misses none of the entries of the file it takes back.
THEOREM PoolIsExact == Spec => []PoolExact
<1>1. PoolInv => PoolExact
  BY InvImpliesPoolExact
<1> QED BY <1>1, PoolInvariant, PTL

\* The module globals have their shape, the caches lead into the live pool, and
\* Descriptors are made for files of that pool only.
THEOREM PointersAreCurrent == Spec => []PointersCurrent
<1>1. LifecycleInv /\ PoolInv => TypeOK
  BY InvImpliesTypeOK
<1>2. TypeOK /\ EntriesCurrent => PointersCurrent
  BY DEF PointersCurrent
<1> QED BY <1>1, <1>2, LifecycleInvariant, PoolInvariant, EntriesAreCurrent, PTL

=============================================================================
