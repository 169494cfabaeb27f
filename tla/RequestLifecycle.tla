-------------------------- MODULE RequestLifecycle --------------------------
(***************************************************************************)
(* What the PHP extension keeps from one request to the next               *)
(* (php/ext/google/protobuf/protobuf.c, def.c): the descriptor pool, the   *)
(* name caches that lead from PHP class names to its definitions, and the  *)
(* Descriptor objects.  Module globals are thread-local, so one thread is  *)
(* the whole system: GINIT, then any number of requests (RINIT, the script *)
(* itself, RSHUTDOWN, Zend's own clean-up), then GSHUTDOWN.                *)
(*                                                                         *)
(* Pools are numbered in the order they are made; `pool' is the content of *)
(* the current one (module DefPool).  One entry per file                   *)
(* stands for the messages and enums of that file in name_msg_cache and    *)
(* name_enum_cache, which are always created and destroyed together.  The  *)
(* class names of different files are taken to be different.               *)
(***************************************************************************)
EXTENDS DefPool

CONSTANTS
    Builtin,    \* descriptor.proto, which is compiled into the extension
    IniValues,  \* what scripts pass to ini_set for the setting, at run time
    MaxPools    \* bound: descriptor pools made

ASSUME LifecycleAssumption ==
    /\ Builtin \in File /\ Deps[Builtin] = {}
    /\ IniValues \subseteq BOOLEAN /\ MaxPools \in Nat \ {0}

VARIABLES
    phase,          \* between requests, in one, ended by a fatal error,
                    \* shutting one down, stopped, crashed
    configured,     \* the setting as the process was started with
    keep,           \* keep_descriptor_pool_after_request, now
    made,           \* pools made so far
    live,           \* pools not freed yet
    global_symtab,  \* the current pool, or 0
    pool,           \* the current pool; an empty one when there is none
    names,          \* the name caches: their memory, and the pool of each entry
    object_cache,   \* for each file, the pool of the cached Descriptor, or 0
    descriptors     \* files whose Descriptors the request keeps alive

vars == <<phase, configured, keep, made, live, global_symtab, pool, names,
          object_cache, descriptors>>

NoEntries == [f \in File |-> 0]
NoNames == [mem |-> "none", of |-> NoEntries]

\* PHP_GINIT_FUNCTION, and MINIT registering the setting.
Init ==
    /\ phase = "idle"
    /\ configured \in BOOLEAN /\ keep = configured
    /\ made = 0 /\ live = {} /\ global_symtab = 0 /\ pool = upb_DefPool_New
    /\ names = NoNames
    /\ object_cache = NoEntries /\ descriptors = {}

----------------------------------------------------------------------------
\* Faulty variant: forgets to reset global_symtab.
free_protobuf_globals_no_reset ==
    /\ live' = live \ {global_symtab}
    /\ names' = NoNames
    /\ UNCHANGED <<global_symtab, pool>>

\* Faulty variant: forgets the name caches.
free_protobuf_globals_no_names ==
    /\ live' = live \ {global_symtab}
    /\ global_symtab' = 0
    /\ pool' = upb_DefPool_New
    /\ UNCHANGED names

\* free_protobuf_globals: the name caches go with the pool they point into.
free_protobuf_globals ==
    /\ live' = live \ {global_symtab}
    /\ global_symtab' = 0
    /\ pool' = upb_DefPool_New
    /\ names' = NoNames

\* Faulty variant: the name caches always live in request memory.
RequestMemory == "request"
\* The allocator the name caches use for their lifetime: zend_hash_init with
\* persistent, read from the setting when the pool is made.
NameMemory == IF keep THEN "persistent" ELSE "request"

\* Faulty variant: every request makes a pool.
AlwaysNeedsPool == TRUE
\* No pool was left by the last request.
NeedsPool == global_symtab = 0

\* PHP_RINIT_FUNCTION.
RINIT ==
    /\ phase = "idle" /\ phase' = "request"
    /\ \/ /\ NeedsPool /\ made < MaxPools
          /\ made' = made + 1
          /\ live' = live \cup {made + 1}
          /\ global_symtab' = made + 1
          /\ pool' = upb_DefPool_New
          /\ names' = [mem |-> NameMemory, of |-> NoEntries]
       \/ ~NeedsPool /\ UNCHANGED <<made, live, global_symtab, pool, names>>
    /\ object_cache' = NoEntries
    /\ descriptors' = {}
    /\ UNCHANGED <<configured, keep>>

\* A script calls ini_set: OnUpdateBool writes the global at once.
IniSet(v) ==
    /\ phase = "request" /\ v \in IniValues
    /\ keep' = v
    /\ UNCHANGED <<phase, configured, made, live, global_symtab, pool, names,
                   object_cache, descriptors>>

\* Faulty variant: the file is added, its names are not.
Unnamed(f, cache) == cache

\* add_name_mappings: zend_hash_str_add_ptr leaves an existing entry alone.
add_name_mappings(f, cache) ==
    [cache EXCEPT !.of[f] = IF @ = 0 THEN global_symtab ELSE @]

\* The pool with descriptor.proto, for a file that depends on it: generated
\* code never adds it, and its names are not mapped.
WithBuiltin(f) ==
    IF Builtin \in Deps[f] /\ Builtin \notin pool.files
    THEN upb_DefPool_AddFile(pool, Builtin, Len(Syms[Builtin]) + 1)
    ELSE [pool |-> pool, status |-> "ok"]

\* add_descriptor: a file that is not in the pool yet is added to it, and its
\* names are mapped.  CheckUpbStatus raises E_ERROR, which ends the script.
add_descriptor(f, n) ==
    LET built == WithBuiltin(f)
        added == upb_DefPool_AddFile(built.pool, f, n)
        end   == IF built.status = "crash" THEN "crash" ELSE added.status
    IN  /\ phase = "request" /\ f \notin pool.files
        /\ pool' = added.pool
        /\ \/ end = "ok" /\ names' = add_name_mappings(f, names)
              /\ UNCHANGED phase
           \/ end = "error" /\ phase' = "bailed" /\ UNCHANGED names
           \/ end = "crash" /\ phase' = "crashed" /\ UNCHANGED names
        /\ UNCHANGED <<configured, keep, made, live, global_symtab,
                       object_cache, descriptors>>

\* NameMap_GetMessage and Descriptor_FromMessageDef: a mapped name leads to the
\* cached Descriptor, or to a new one that the request will own.
Descriptor_FromMessageDef(f) ==
    /\ phase = "request" /\ names.of[f] # 0
    /\ object_cache[f] = 0
    /\ object_cache' = [object_cache EXCEPT ![f] = names.of[f]]
    /\ descriptors' = descriptors \cup {f}
    /\ UNCHANGED <<phase, configured, keep, made, live, global_symtab, pool, names>>

\* DescriptorPool::getDescriptorByProtoName asks the pool, not the name caches.
getDescriptorByProtoName(s) ==
    LET f == _upb_DefPool_LookupSym(pool, s)
    IN  /\ phase = "request" /\ f # 0
        /\ object_cache[f] = 0
        /\ object_cache' = [object_cache EXCEPT ![f] = global_symtab]
        /\ descriptors' = descriptors \cup {f}
        /\ UNCHANGED <<phase, configured, keep, made, live, global_symtab, pool, names>>

\* PHP_RSHUTDOWN_FUNCTION.
RSHUTDOWN ==
    /\ phase \in {"request", "bailed"} /\ phase' = "shutdown"
    /\ \/ ~keep /\ free_protobuf_globals
       \/ keep /\ UNCHANGED <<live, global_symtab, pool, names>>
    /\ object_cache' = NoEntries
    /\ descriptors' = {}
    /\ UNCHANGED <<configured, keep, made>>

\* Zend ends the request: settings are restored, request memory is released.
Deactivate ==
    /\ phase = "shutdown" /\ phase' = "idle"
    /\ keep' = configured
    /\ names' = [names EXCEPT !.mem = IF @ = "request" THEN "released" ELSE @]
    /\ UNCHANGED <<configured, made, live, global_symtab, pool, object_cache,
                   descriptors>>

\* PHP_GSHUTDOWN_FUNCTION.
GSHUTDOWN ==
    /\ phase = "idle" /\ phase' = "stopped"
    /\ \/ global_symtab # 0 /\ free_protobuf_globals
       \/ global_symtab = 0 /\ UNCHANGED <<live, global_symtab, pool, names>>
    /\ UNCHANGED <<configured, keep, made, object_cache, descriptors>>

MaxSyms == Max({Len(Syms[f]) : f \in File})

Next ==
    \/ RINIT \/ RSHUTDOWN \/ Deactivate \/ GSHUTDOWN
    \/ \E v \in BOOLEAN : IniSet(v)
    \/ \E f \in File \ {Builtin}, n \in 0..(MaxSyms + 1) :
          n <= Len(Syms[f]) + 1 /\ add_descriptor(f, n)
    \/ \E f \in File : Descriptor_FromMessageDef(f)
    \/ \E s \in Symbol : getDescriptorByProtoName(s)

Spec == Init /\ [][Next]_vars

----------------------------------------------------------------------------
\* The shape of the module globals; Descriptors are made for loaded files only.
TypeOK ==
    /\ phase \in {"idle", "request", "bailed", "shutdown", "stopped", "crashed"}
    /\ configured \in BOOLEAN /\ keep \in BOOLEAN
    /\ made \in 0..MaxPools /\ live \subseteq 1..MaxPools
    /\ global_symtab \in 0..MaxPools
    /\ pool.files \subseteq File /\ pool.exts \subseteq File
    /\ pool.extreg \in [Extension -> File \cup {0}]
    /\ names \in [mem : {"none", "persistent", "request", "released"},
                  of : [File -> 0..MaxPools]]
    /\ object_cache \in [File -> 0..MaxPools]
    /\ descriptors \subseteq pool.files

\* "Reuse the symtab (if any) left to us by the last request": whoever finds a
\* pool, RINIT, a lookup or GSHUTDOWN, finds name caches that are still
\* allocated.  The memory is chosen when the pool is made, whether the pool is
\* kept is decided when a request ends.
NamesUsable ==
    (phase \notin {"stopped", "crashed"} /\ global_symtab # 0) =>
        \/ names.mem = "persistent"
        \/ names.mem = "request" /\ phase \in {"request", "bailed", "shutdown"}

\* "The generated __construct method calls initOnce() to load the descriptor":
\* the early return for a file that is already in the pool is right because
\* its names are then mapped too, in whatever request that happened.
LoadedIsNamed ==
    phase = "request" => \A f \in pool.files \ {Builtin} : names.of[f] = global_symtab

\* Nothing that is looked up leads into a pool that has been freed, and what is
\* cached is alive; with the shape of the state.
EntriesCurrent ==
    \A f \in File :
        /\ names.of[f] # 0 => names.of[f] = global_symtab /\ global_symtab \in live
        /\ object_cache[f] # 0 => object_cache[f] = global_symtab /\ f \in descriptors
PointersCurrent == TypeOK /\ EntriesCurrent

\* There is at most one pool, it is the current one, and none is left at the end.
OnePool ==
    /\ live = {global_symtab} \ {0}
    /\ phase = "stopped" => live = {}

\* "Preserve the symtab if requested": a process configured to keep the pool,
\* whose scripts leave the setting alone, never loads a file twice.
KeptPoolGrows ==
    [][(configured /\ keep) => pool.files \subseteq pool.files' \/ phase' = "stopped"]_vars

\* "so we know which entries to remove if building this file fails": however
\* often and wherever adding a file fails, an iteration of the pool finds the
\* symbols of the files that were added and of no other, each once, and the
\* extension registry holds all their extensions and no other.
PoolExact ==
    phase # "crashed" =>
       /\ Defined(pool) =
             UNION {{<<Syms[f][i], f>> : i \in DOMAIN Syms[f]} : f \in pool.files}
       /\ pool.syms.count = Cardinality(Defined(pool))
       /\ \A x \in Extension :
             {pool.extreg[x]} \ {0} =
                {f \in pool.files : \E i \in DOMAIN Exts[f] : Exts[f][i] = x}

\* The same comment, of lookups: removing the entries of a file that could not
\* be built leaves every symbol of the other files where a lookup finds it.
LoadedIsFound ==
    phase # "crashed" =>
       \A f \in pool.files : \A i \in DOMAIN Syms[f] :
          _upb_DefPool_LookupSym(pool, Syms[f][i]) = f
============================================================================
