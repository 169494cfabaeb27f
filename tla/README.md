# A verification project for the protobuf PHP extension

The repository packages Google's protobuf tree so that the PHP extension in
`src/src/php/ext/google/protobuf` can be built from it. The extension is a thin
C layer over **upb** (`src/src/upb`). What makes it work is not parsing but
*lifetimes*: PHP objects come and go in any order, they point into memory that
belongs to upb arenas, and arenas that point into each other are *fused* so that
they live equally long. Modelled here are the parts that carry that logic, and
those parts of upb below it whose correctness rests on pointers and positions:

1. the lock-free fusing and reference counting of upb arenas,
2. how an arena gets, hands out and gives back memory,
3. the PHP wrappers, their Arena objects and the weak object cache,
4. the module globals that survive (or do not survive) the end of a request, and
   the pool of definitions among them,
5. upb's hash table, the maps on it, and PHP iterators over maps that change,
6. the wire decoder's input stream, limits and nesting.

Paths below are relative to `src/src/`.

## 1. Inventory

| component | state | operations | what is hard | what makes it correct |
|---|---|---|---|---|
| **arena fusing** `upb/mem/arena.c`, `.h` | per arena: `parent_or_count` (a tagged word: parent pointer or reference count), `next`, `previous_or_tail` (tagged: previous node or cached tail) | `Fuse`, `IsFused`, `IncRefFor`, `DecRefFor`, `Free`, `SpaceAllocated`, `RefArena` | threads race on all three words; a fuse is two compare-exchanges that can half succeed; path splitting is a blind store; the list is linked in three steps while others walk it | no cycle of parents, a non-root stays one, no reference lost or invented, no use after free, groups freed as a whole, lists agree, calls return |
| **arena allocation** `upb/mem/arena.c`, `upb/mem/internal/arena.h` | bump pointer, block list, `size_hint`, references to other arenas | `Init`, `Malloc`, `Realloc`, `TryExtend`, `ShrinkLast`, `RefArena`, `Free`, `SwapIn/Out` | block policy at its limits, allocation failure in the middle, decoders that work on a copy, a freeing walk that frees what it reads | allocations disjoint and inside the arena, every block given back once, nothing referred to is freed |
| **PHP object lifetimes** `php/ext/google/protobuf/{message,array,map,arena,protobuf}.c` | wrapper: arena zval and upb pointer; object cache: upb address -> wrapper (weak) | create, construct, clone, read, write, unset, clear, destroy | release in any order, reuse of addresses, constructors called twice or never | no dangling pointer, one wrapper per upb object, cache holds only live objects, everything given back |
| **request lifecycle** `php/ext/google/protobuf/{protobuf,def}.c` | `global_symtab`, name caches, object cache, descriptors, the setting `keep_descriptor_pool_after_request` | GINIT, RINIT, `add_descriptor`, `Descriptor_FromMessageDef`, RSHUTDOWN, GSHUTDOWN | what survives a request must not point to what does not | names lead into the current pool, usable memory, no pool lost |
| **MapField** `map.c` and **upb maps** `upb/message/map.c`, `internal/map.h` | table, iterator position | `offsetSet/Unset`, clone, compare, iterate | the map changes during iteration; replacing is removing and inserting | agrees with a dictionary; each element is met once |
| **RepeatedField** `array.c` | vector, index | append, `offsetSet/Unset`, iterate | the vector shrinks under an iterator | index checked at each access |
| **conversions** `convert.c` | none | PHP value <-> upb value | ranges, truncation | value preserved or error |
| **class names** `names.c` | none | proto name -> PHP class name | reserved words | injective enough |
| **upb hash tables** `upb/hash/common.c` | scatter tables with chains inside the table, array part of inttables | insert, find, remove, grow, compact, iterate, remove through an iterator | eviction of foreign entries, chain repair, growth | lookups and iteration agree |
| **def pool** `upb/reflection/def_pool.c`, `file_def.c`, `upb/mini_table/extension_registry.c` | symbols, files, extensions | add a file, look a symbol up | a file that fails half way is rolled back in tables shared with earlier files | a failed file leaves no trace, others stay found |
| **wire decoder** `upb/wire/decode.c`, `reader.c`, `eps_copy_input_stream.{c,h}` | current buffer, limit, depth, capture | decode a message | reads that are not checked until afterwards, a switch of buffers in mid-field, limits relative to a buffer | reads see the input, limits restored, overruns noticed, decoding returns |
| **wire encoder, JSON, messages, mini descriptors** | message memory | encode, format, lay out | formatting | round trip |

Not part of the extension, and listed in `PROJECT.json` as not modelled: the
generated amalgamation `php-upb.c`, `wkt.inc`, the pure PHP runtime, the other
languages and the compiler.

**How the parts interact.** A PHP object holds a reference on an Arena object,
which holds one reference on a `upb_Arena`. Storing one message in another calls
`upb_Arena_Fuse` on their arenas and then stores the raw pointer. Reading a field
looks its address up in the object cache and wraps it if there is no wrapper.
Wrappers find their definition through a Descriptor, and that through the name
caches in the current pool. RSHUTDOWN tears the cache and the Descriptors down
and may free the pool.

The hazards, each at its line, with the properties that would catch them, are in
`PROJECT.json` under `hazards`.

## 2. Modules

| module | models | kind |
|---|---|---|
| `ArenaGroups` | the promise of `arena.h`: fuse, reference, release, reclaim as atomic steps on a partition | abstract specification |
| `ArenaFuse` | every atomic access of `Fuse`, `IsFused`, `IncRefFor`, `DecRefFor`/`Free`, `SpaceAllocated` | detailed specification, refines `ArenaGroups` |
| `ArenaAlloc` | memory of arenas: blocks, bump allocation, references between arenas, the freeing walk, decoders that borrow an arena | component |
| `PhpObjects` | wrappers, Arena objects, fused groups (as one atomic step), upb objects, object cache | component |
| `UpbTable` | the hash table of `common.c` as functions of a table value | operators |
| `Dictionary` | what a map promises | abstract actions |
| `MapField` | `upb_Map` on `UpbTable`, `MapField` and `MapFieldIter`, moving together with a `Dictionary` | component |
| `DefPool` | the pool's symbols (on `UpbTable`), files and extensions as functions of a pool value | operators |
| `RequestLifecycle` | module globals over any number of requests, on `DefPool` | component |
| `EpsCopyStream` | `upb_EpsCopyInputStream` as functions of a stream value | operators |
| `WireDecoder` | the decoder's loops on `EpsCopyStream` | component |
| `MCArenaFuse`, `MCArenaAlloc`, `MCPhpObjects`, `MCMapField`, `MCRequestLifecycle`, `MCWireDecoder` | instances for TLC | |
| `ArenaFuseProofs`, `ArenaRefsProofs`, `ArenaAllocProofs`, `PhpObjectsProofs`, `UpbTableProofs`, `MapFieldProofs`, `RequestLifecycleProofs`, `WireDecoderProofs` | theorems (section 5) | TLAPS |

`ArenaFuse` implements `ArenaGroups` (theorem `FuseImplementsGroups`), and
`PhpObjects` relies on that: it takes a fuse, and the release of a group with its
last reference, as single steps.

### ArenaFuse

A thread runs one library call at a time. `pc` says which atomic access is next,
and a step is that access with the local computation up to the next one. So the
interleavings are those of the C code's atomic accesses. The variables
`parent_or_count`, `next` and `previous_or_tail` are the shared words of
`upb_ArenaInternal`; the tags are explicit. `find`, `fuse`, `ref_delta`, `link`
and `space` are the C stack frames. `refs` is what the application holds: a
caller needs a reference on each arena it passes for the duration of the call,
which is the rule of `arena.h`, and so starting the last `Free` of an arena that
another call still uses is excluded (`InUse`; a `Free` uses the reference it gives up,
so two owners' releases of one arena overlap freely). `owed`, `call[t].was` and
`space[t].visible` are history variables for the properties; no guard reads them.

| C function | actions |
|---|---|
| `_upb_Arena_FindRoot` | `FindRootLoad`, `FindRootReload`, `FindRootNext`, `FindRootSplit`; `FindRootReturns` continues at the caller |
| `upb_Arena_Fuse`, `_upb_Arena_DoFuse` | `StartFuse`, `GotFirstRoot`, `GotSecondRoot`, `DoFuseAddRefs`, `DoFuseReparent`, `Retry` |
| `_upb_Arena_LinkForward`, `UpdateParentTail`, `LinkBackward` | `LinkForward*`, `UpdateTail*`, `LinkBackward` |
| `_upb_Arena_FixupRefs` | `FixupRefsLoad`, `FixupRefsCAS` |
| `upb_Arena_IsFused` | `StartIsFused`, `GotRa`, `GotRb`, `GotTmp` |
| `upb_Arena_IncRefFor` | `StartIncRef`, `GotIncRefRoot`, `IncRefCAS` (a weak exchange: it may fail spuriously) |
| `upb_Arena_Free`, `DecRefFor`, `_upb_Arena_DoFree` | `StartFree`, `FreeLoad`, `FreeCAS`, `DoFree` |
| `upb_Arena_SpaceAllocated` | `StartSpaceAllocated`, `SpaceBackward`, `SpaceForward` |

Abstractions: memory is sequentially consistent (the `memory_order` arguments are
not modelled); block memory and sizes are left out, so the space counted is the
set of arenas counted. The exchanges of `LinkForward` and `Free` are weak as well;
their spurious failure reloads the same word and repeats the exchange, so it is a
stuttering step here. The others are strong.

### PhpObjects

`Obj`, `Cell` and `Arena` are addresses, reused as soon as they are free. A
message has one submessage field and one repeated or map field, a container has
one element; scalars play no part in lifetimes. `RepeatedField` and `MapField`
are one class "container" because the code that handles their lifetimes has the
same structure in `array.c` and `map.c`. PHP executes one operation at a time, so
there is no interleaving inside an operation, but operations come in any order.
With `Misuse = {"reconstruct"}` programs also call a constructor on a constructed
object. Reference counting of PHP variables and of Arena zvals is Zend's and
marked external. An object is destroyed with its last reference. The engine may also
destroy objects that are still referenced, which the comments at `message.c:76-78`,
`array.c:62-64` and `map.c:77-79` mention; that is not modelled, so `NothingDangles` says
nothing about a script that uses such an object.

### ArenaAlloc

Memory is `HeapSize` units of `Align` bytes. The allocator (`upb_alloc`) may fail
or return more than it was asked for (`Slack`), and it reuses what was freed; it
takes the lowest place that fits. `arena[a]` is the `upb_Arena` with its current
block (`ptr`, `end`), block list, `size_hint`, `space_allocated` and the caller's
memory if it was made over some. `upb_Decoder_Init` swaps the arena's state into
the decoder (`decoders`, a stack: a decoder can run inside another one on the
same arena) and `upb_Decoder_Destroy` swaps it out again, which the code does
after a failed decoding as well. `_upb_Arena_DoFree` is a walk of one step per
block (`FreeBlock`, `ReleaseRef`, `WalkDone`), because it reads the list from the
memory it frees and may start a walk of another arena. Fusing is not repeated
here: arenas are groups of one, and what a reference needs of a group is one
counter. `live` and `last` are history.

### UpbTable, Dictionary, MapField

A table is a function from indices to entries with a chain pointer. Every
function of `common.c` is an operator with its name. The hash function is a
parameter, which the instances choose to collide. `MapField` is a state machine:
its actions are the PHP operations with every combination of failing allocations
(`value`, `table`, `key`), the map is either an inttable with an array part or a
strtable, and each action also takes the corresponding step of `Dictionary`.
`MapFieldIter` is the position `pos`; `seen`, `twice` and `since` are history.
Cloning and compaction build a second table and leave the first alone, so they
are operators, compared with the original in every state (`CopiesAgree`).

### EpsCopyStream, WireDecoder

A byte of the input is its index. The patch buffer starts at address `Patch` and
holds copies of indices or zeros, so a read at a wrong place, or of a wrong copy,
shows. `Slop` stands for `kUpb_EpsCopyInputStream_SlopBytes`, `IntHalf` for 2^31:
`ToInt` is the conversion of the overrun to `int`. `WireDecoder` keeps the C stack
as `frames` (the top message, submessages, groups, packed fields, message set
items and skipped groups) with the limit delta each saved. The input is not
enumerated: its tags, lengths and sizes are chosen as they are read, which covers
every input of the given sizes. A field that turns out malformed is `BadField`. The
result "ok" stands for `MissingRequired` too, which depends on values.

### RequestLifecycle and DefPool

Module globals are thread-local, so one thread is the whole system. A phase
`shutdown` separates RSHUTDOWN from Zend's own clean-up (`Deactivate`, external),
which releases request memory and restores settings. Pools are numbered, so that
a pointer into an old pool can be told from one into the current pool. The pool's
symbol table is a real `UpbTable`; adding a file inserts its symbols one by one,
may fail after any of them or at a duplicate symbol or extension, and then takes
the file's symbols out again through an iterator, as `remove_filedef` does. An
error ends the script (`bailed`); a pool that is kept is used by the next request. The
name caches have one entry per file: two files whose messages map to the same PHP
class name, of which the first keeps the entry, do not occur.

Definitions whose comment says "faulty variant", or named `Faulty...`, are plausible mistakes in the code. No
specification uses them; each shows that some property notices the mistake.

## 3. Runs

| run | states | expects | question and answer |
|---|---|---|---|
| `arena_fuse` | 436 342 | pass | Two threads fuse three arenas pairwise, ask `IsFused`, add up space and free. Nothing freed is touched, asserts hold, counts at roots are exactly references held, being released or owed by a fuse in progress, lists hold exactly the group in both directions, links are final, space counts are monotone, `IsFused` answers truly, groups are freed together, and the algorithm implements `ArenaGroups`. `OrderInv` is the invariant proved below. |
| `arena_live` | 281 620 | pass | Increments and releases without end, overlapping releases of one arena, an arena over caller-provided memory, threads stopped for ever in the middle of a call: while calls are running some call returns again and again, counts are exact, `Fuse` reports exactly whether lifetimes were joined, non-roots stay non-roots; and if no thread is stopped, an unreferenced group is given back. |
| `arena_alloc` | 832 184 | pass | Two arenas and nested decoders on one heap with failures: allocations disjoint and inside, blocks in exactly one list, the freeing walk reads only what is there, a switch of blocks gains space. |
| `arena_fixed` | | violation | Finding 5. |
| `php_lifetimes` | 130 922 | pass | Each constructor once: nothing dangles, one wrapper per upb object, cache exact, nothing leaks. |
| `php_reconstruct` | | violation | Finding 1. |
| `requests` | 2 827 | pass | Several requests, files that fail to load, scripts that may turn keeping off: names usable and current, one pool, a pool holds exactly the symbols and extensions of its files, a kept pool only grows. |
| `requests_ini` | | violation | Finding 2. |
| `pool_rollback` | | violation | Finding 4. |
| `map` | 78 226 | pass | Lookups agree with a dictionary, every position where an iterator can stop holds an element, an undisturbed iteration meets every key once, clones and compactions are equal maps. |
| `map_replace` | | violation | Finding 3. |
| `decode` | 430 403 | pass | Reads and views show the input's bytes, limits are restored exactly, running past a limit is noticed before anything depends on it, decoding returns. |

**Bounds.** *Arenas*: two threads and three arenas. Three arenas are the least
with which a root can be fused away under a thread that just found it, with a
tree deep enough for path splitting (parent, grandparent) and with a stale tail;
the pairs given to `Fuse` are named in `MCArenaFuse` and include both address
orders. `arena_live` fuses two arenas in both argument orders, and a third that
must be refused, because temporal checking is dearer and uses no symmetry. The number
of calls is not bounded. Two bounds keep counts finite. Increments lead to at most
`MaxRefs = 3` references held at once, as many as at the start: once one was given up,
one can be added again, which lets an increment race each step of a fuse and of a free,
over and over. And no increment starts beside a fuse that has left more than one excess
reference in a count (`MaxOwed = 1`), because that excess grows with every failure of
the second exchange. Both restrict when a call may start, neither how often
a running call retries; and where no call returned any more, each thread could start
at most one, so what a violation of `LockFree` would repeat for ever consists of
retries. Left out are only states with larger counts. Threads are interchangeable
(`ThreadSymmetry`), addresses are not: the code compares them. *Allocation*: one arena of its own and one over
a caller's memory, a heap of 11 units, so that blocks run out, are reused and are
rounded up; requests below and above what a block has left; two maximum block
sizes, so that both a one-off block and a switch happen; decoders nested twice.
*PHP*: three objects, three cells and two arenas make a parent, a child and one
more wrapper of either, two groups to fuse, and the reuse of addresses; two
variables per object (`MaxRefs`) distinguish the last release from others. All
addresses are only compared for equality and are symmetric. *Requests*: five
files with a duplicate symbol, a duplicate extension, a dependency and the
built-in file; three pools cover a pool kept, dropped and remade; symbol tables
start with two entries and grow twice. *Maps*: tables of two entries that grow to
four and then cannot, with keys of which three share a chain and one is displaced
by it, key 0 and both kinds of map. `map_replace` uses the size of the code
(eight entries). *Decoding*: four slop bytes, inputs shorter than, equal to and
longer than them and up to nearly four times as long, three levels of nesting,
and field sizes that fit, end at a boundary, or run over; `IntHalf = 6` puts the
limit of `int` inside the inputs.

**Deadlock** is checked in `arena_alloc`, where something is always possible. It is
not checked elsewhere: threads may stop calling, PHP programs may end, the process
stops, a map iterator ends, decoding is over when it returned. That no call hangs
is `LockFree` and `DecodeReturns`.

**Fairness.** `arena_live`: of the threads inside calls some one is scheduled again,
while the others may be stopped for ever wherever they are (weak fairness of the
disjunction of their `Step`s); nobody is obliged to make calls. `IncRefFor` uses a weak
compare-exchange, which may fail spuriously, and nothing in C limits how often; the
third conjunct of `FairSpec` states that one which fails for no reason again and again
also succeeds again and again. That the weak exchanges of `LinkForward` and `Free` do
not fail for ever is part of the fairness of `Step`. `GroupReclaimed` needs more and
says so: that each thread inside a call keeps running.

The calls are lock-free, not wait-free. That *every* call returns does not hold, even
if each of them keeps running: while one thread increments and releases a root's
count for ever, the first exchange of another thread's `Fuse` can fail each time, and
TLC finds that behaviour. `LockFree` is what remains true: such interference is itself made of
calls that return. In particular, once no more calls are made, those that are running
all return. (`IsFused` and `SpaceAllocated` are not in this run. They write nothing
but path splittings, and only a fuse by another thread prolongs them.)

`decode`: weak fairness of `Next`; the decoder is a loop of one thread that waits for nothing.

## 4. Findings

Each is shown by a run that TLC ends with a counterexample.

1. `Message_Initialize` replaces `arena` and `msg` of an object already
   constructed without removing its cache entry, so the cache can hold a
   destroyed object, against `php/ext/google/protobuf/protobuf.h:36-38`.
2. `keep_descriptor_pool_after_request` is read in RINIT (which memory the name
   caches use) and again in RSHUTDOWN (whether they survive). Turned on in
   between, it keeps name caches that were allocated from request memory.
3. Replacing a value in a map removes the key and inserts it again, which moves
   entries. An iteration in progress meets a key twice or misses one, though
   `upb/message/map.h:53-54` and `60-61` say that iterators are invalidated if the
   key was (newly) inserted.
4. Rolling back a file that failed to build empties chain heads of the symbol
   table without moving their successors (`upb_strtable_removeiter`), so symbols
   of files loaded before are no longer found, and a later insertion may follow a
   chain that does not lead to the entry it evicts.
5. An arena over caller-provided memory without an allocator asks the missing
   allocator for a block when its memory runs out, where `upb/mem/arena.h:44-45`
   says it "cannot grow".

Met while modelling, and not shown by a run:

* Path splitting stores the grandparent without a compare-exchange; a delayed
  store can move a parent pointer away from the root, against
  `upb/mem/arena.c:772-773` ("it will always approach a root"). Harmless: the
  pointer still leads to an ancestor (`ParentBelow`).
* `Message_create` leaves `msg` unset, so the assertion at `protobuf.c:200` need
  not hold for an object whose constructor never ran.
* A file that fails after `_upb_FieldDef_BuildMiniTableExtension`
  (`upb/reflection/field_def.c:977`) leaves entries in the pool's table of
  extensions (`def_pool.c:180`); the model keeps them too (`exts`).
* `upb_inttable_removeiter` does not clear the presence bit of an array element
  (`upb/hash/common.c:1018-1020`); nothing modelled calls it.
* The status of inserting a file's name is not checked (`def_pool.c:418`).
* The debug `check()` of inttables (`common.c:782-789`) never increments its count.
* A string map whose replacement runs out of memory loses the old value
  (`offsetSet` models it).
* `WouldReduceFreeSpace` does not count what is left of a caller's initial block.
* The debug check of `ShrinkLast` (`upb/mem/arena.c:1006`) does not hold for a one-off
  block when the allocator returns more than it was asked for.

## 5. Proofs

TLC checks small instances. The theorems hold for every value of the constants
that the named assumptions allow; TLC evaluates those assumptions in every run of
the corresponding MC module.

| module | theorem | states |
|---|---|---|
| `ArenaFuseProofs` | `OrderInvariant`, `TypeCorrect` | `[]OrderInv`, `[]TypeOK` |
| | `ParentsBelow` | `[]ParentBelow`: no interleaving closes a cycle of parents |
| | `NonRootForever` | `NeverRootAgain` (action property) |
| | `ListInvariant` | `[](OrderInv /\ ListInv)` |
| | `BackwardMirrorsForward` | `[]PreviousPointsBack` |
| | `LinksAreFinal` | `LinksFinal` (action property) |
| | `NextIsInjective` | no arena has two predecessors |
| | `ListsHaveEnds` | `[](OrderInv /\ ListInv /\ HeadInv)`: lists have heads and are no rings |
| | `GroupsInvariant` | `[](OrderInv /\ GroupInv)` |
| | `GroupsNeverPart` | `NeverParted` (action property) |
| | `FuseTellsTheTruth`, `IsFusedTellsTheTruth` | `[]FuseResult`, `[]IsFusedResult` |
| | `ListsStayInGroups` | `[](OrderInv /\ GroupInv /\ ListGroupInv)` |
| `ArenaRefsProofs` | `RefsInvariant` | `[]FuseInv`, all invariants of the arenas together |
| | `NoReferenceLost` | `[]RefsConserved` |
| | `NoFreedMemoryTouched` | `[]MemorySafe` |
| | `AssertionsHold` | `[]AssertsHold` |
| | `FuseImplementsGroups` | `ImplementsGroups`: `ArenaFuse` implements `ArenaGroups` |
| | `PromiseKept` | `[](Groups!TypeOK /\ Groups!FreedUnreferenced)` |
| | `GroupsFreedTogether`, `ListsAreSound` | `[]FreedTogether`, `[]ListsSound` |
| | `SpaceIsMonotone` | `[]SpaceMonotone` |
| `ArenaAllocProofs` | `AllocInvariant` | `[]AllocInv` |
| | `AllocationsAreSafe` | `[]AllocationsSafe` |
| | `BlocksAreAccounted` | `[]BlocksAccounted` |
| | `ReleaseIsOrdered` | `[]ReleaseOrder` |
| | `SwitchesGain` | `SwitchGains` (action property) |
| `PhpObjectsProofs` | `ObjectsInvariant` | `[]ObjectsInv` |
| | `ReferencesAreExact` | `[]Owned` |
| | `NoPointerDangles`, `MemoryIsReturned` | `[]NothingDangles`, `[]NothingLeaks` |
| | `WrappersAreUnique`, `CacheIsExact` | `[]OneWrapper`, `[](CacheExact /\ CacheOnlyLive)` |
| `MapFieldProofs` | `MapInvariant` | `[]MapInv` |
| | `LookupsAreRight` | `[]LookupsAgree` |
| | `StopsAreReal`, `IterationsAreExact` | `[]StopsAreElements`, `[]IterationExact` |
| | `CopiesAreEqual` | `[]CopiesAgree` |
| `RequestLifecycleProofs` | `LifecycleInvariant` | `[]LifecycleInv` |
| | `OnePoolIsLive`, `LoadedFilesAreNamed` | `[]OnePool`, `[]LoadedIsNamed` |
| | `PoolInvariant` | `[]PoolInv` |
| | `PoolIsExact` | `[]PoolExact` |
| | `EntriesAreCurrent`, `PointersAreCurrent` | `[]EntriesCurrent`, `[]PointersCurrent` |
| | `NamesStayUsable` | `[]NamesUsable` |
| | `KeptPoolOnlyGrows` | `KeptPoolGrows` (action property) |
| `WireDecoderProofs` | `DecoderInvariant` | `[]DecoderInv` |
| | `ReadsAreExact`, `LimitsAreExact`, `OverrunsAreNoticed` | `[]ReadsExact`, `[]LimitsExact`, `[]OverrunNoticed` |

### The order of arenas (`ArenaFuseProofs`)

`ParentBelow` is not inductive. A thread stores pointers that it read some time
ago: path splitting writes a grandparent, `DoFuse` makes one root the parent of
another. The strengthening `OrderInv` adds, for each thread, `WalkOrdered`
(grandparent < parent < cursor at the moment of the store, and a word seen as a
pointer still is one at the reload) and `FuseOrdered` (`r1.root < r2.root` from
the comparison to the last use). These facts are stable because they are about
addresses held by the thread, and memory enters only through "a pointer stays a
pointer".

Each action has a lemma. Its effect is split into what it does to memory and what
it does to the stepping thread's frames; `OrderFromParts` puts the two together,
and says once and for all why other threads' frames stay ordered. Memory changes
in three ways only: not at all (`ParentsSame`), a count replaced by a count
(`CountChanges`), a lower pointer stored (`PointerStored`). `NonRootForever`
follows from the same memory lemmas.

Assumptions: `ArenaAssumption` (addresses are positive numbers, finitely many),
`InitialBlockAssumption`, `OpsAssumption`, `RefsAssumption`.

### The lists of arenas (`ArenaFuseProofs`)

A fuse sets two links in separate steps while other threads append to the same
list. `PreviousPointsBack` needs to know who may write what. `ListInv` says that a
root has a cached tail and no previous pointer (`RootsHaveTails`), that a thread
between its reparenting and `LinkBackward` owns the root it reparented, which is a
non-root without a previous pointer (`LinkerOK`), that no two threads own the same
one (`LinkersApart`), and that a forward link either has its backward link or a
thread about to set it (`ForwardOwned`). That the owner stays alone rests on
`NeverRootAgain`: the compare-exchange that reparents succeeds on a root only, so
once for each arena. `LinksFinal` and `NextIsInjective` follow.

`HeadInv` is about lists as wholes. "b is on the list of a" (`Reaches`) is "b is in
every set that a is in and `next` does not leave", which needs no recursion and
grows with the list (`ReachGrows`). A function `Heads` gives each arena the head of
its list, at an address not above its own; `Acyclic` says that every set of arenas
has one without predecessor in it. The step to prove is the exchange of
`LinkForward`: the head of the parent's list is at or below the parent, the parent
below the child, and the child is the head of its own list, so two different lists
are joined (`Appended`). `TailsInv` says that cached tails, and the tails held by a
linking thread, are reached from the arena they are tails of.

### The groups of arenas (`ArenaFuseProofs`)

`Root` is defined by recursion over pointers, so it needs an induction. The
library's induction theorems take a predicate, which the provers cannot
instantiate; `SetInduction`, from the well-foundedness of `<`, takes a set. With
it `RootFacts` shows that on words that point downwards (`ParentBelow`) exactly one
function follows the pointers. From then on the proofs use only its equation.

Roots change in three ways: not at all, because words that keep their target's
root keep all roots (`RootsKept`: path splitting stores a grandparent) or because
only counts changed (`CountsKeepRoots`); or by a reparenting, which makes one root
of two (`ReparentJoins`). So roots of one group stay roots of one group
(`GroupsNeverPart`).

`FuseResult` and `IsFusedResult` speak of roots when a call returns, the code
compares roots it found earlier. `GroupInv` ties the two: at every label, the
cursor of a walk, the roots already found and the operands of the next attempt
lie in the groups of the arguments. `IsFused` says no after a third walk has
found the first root again; the invariant records that the arenas' roots differed
while it was a root. A fuse that says no has an argument with an initial block, and
`InitialBlocksAlone` says that nobody is fused with it. `ListGroupInv` adds the
same for the words of the lists and for the frame of the appending thread.

### The references of arenas (`ArenaRefsProofs`)

A group's count is one word at its root; the references it stands for are spread
over the members and over the frames of running calls. `Balance(G)` is what the
application holds on the members of `G`, the releases that have begun, and `owed`,
the counts a fuse has added to a root before it reparents (a racing reader may see
them) and later takes back in `FixupRefs`. `FuseInv` is the inductive invariant.
Its new parts:

* `HoldInv`: a call holds a reference on its arguments until it returns. This is
  the caller's duty of `arena.h`, kept by `InUse`.
* `CountInv`: the count of a root that is not freed is the balance of its group
  (`Conserved`), counts are positive, a thread owes counts only in the groups of
  its arguments (`Debts`), `ref_delta` is what it owes (`Delta`), and a count it
  has read is positive when it is used (`CountsRead`).
* `FreedInv`: freed arenas are in groups without references, with the root freed
  first (`FreedOK`), then each along its predecessor in the list
  (`FreedPredecessor`); one thread frees a group (`OneFrees`), and the arena it
  frees next is not freed yet (`FreeingOK`).

Three arguments carry the proof. `FreerAlone`: a thread that reads the count 1 with
its own release in the balance knows that nothing else is in it, so that no other
call has an argument in the group, and the plain stores of `DoFree` race with
nobody. `DoFree` follows `next`: the arena it comes to is not freed because a freed
arena is a root or has a freed predecessor, no arena has two predecessors
(`PredecessorsUnique`), and a root has none (`RootsAreHeads`). Reparenting
merges two groups, and `BalanceUnion` adds their balances: the count the fuse has
added to the parent is what it read at the child, and becomes a true count at the
exchange.

`Total` is a sum over a finite set; its lemmas (change at one element, disjoint
union, sum of two) are by induction over the size of the set (`SizeInduction`).
`RefsOnIs`, `OwedToIs` tie it to the folds `ArenaFuse` uses. `MemorySafe` then says: every address a
call is about to use is in the group of an argument, which is held, so not freed.

Refinement: the exchange of `DoFuseReparent` is `Fuse`, `IncRefCAS` is `IncRef`,
`StartFree` is `Release`, `DoFree` is `Reclaim`, and every other step changes
neither roots nor references (`HiddenSteps`). `PromiseKept` says what clients get from it:
a group that has lost a member is unreferenced, also while `DoFree` is half way along
its list. `ThreadAssumption` (finitely many
threads) makes the sum over threads a number.

*Whole groups.* That a list stays inside its group is `ListGroupInv`; that it reaches
all of it is the converse. `Joined`: an arena that is no root has a predecessor or a
thread that is about to append it. When no call runs, every arena of the group that
the list of the root missed would have a predecessor that it missed too, against
`Acyclic` (`GroupOnList`). `FreedOn`: the successor of a freed arena is freed, or a thread is
about to free it. Together they give `FreedTogether`. `ListsSound` speaks of `Walk`, a
recursive function that takes `Cardinality(Arena)` steps; `StepsComplete` shows that
this is enough, because a walk that is not complete has met a new arena at each
step.

*What SpaceAllocated counts.* Others append to the list, and set previous pointers,
between the steps of its two walks. `Behind`, on the way back, says that what was
visible at the start is in the union of any set closed under `next` and any set closed
under previous pointers that both contain the arena. Sets closed under the new links
are closed under the old ones, so this survives every append. At the head the
counted arenas are such a set, and `Ahead` takes over: what was visible is counted or
still ahead. No arena is counted twice because `previous` mirrors `next` and no list
leads back (`NoReturn`, from `Acyclic`).

### Allocation (`ArenaAllocProofs`)

The properties speak of addresses, of who frees a block and of counts, and one list
per arena carries all three: its blocks and, as entries without a size, its
references to other arenas. `AllocInv` has two layers.

`View`: while a decoder runs, the live state of the arena it borrows is the
decoder's copy. `Now` is that state for every arena, and the rest of the invariant
speaks of `Now` only, so that an allocation is the same step in and out of a
decoder. `Core` is about it:

* `Local`, one arena at a time (`RecordOK`): allocations, references and the free
  space lie apart, inside the blocks and outside their headers (`Tidy`); the
  `upb_ArenaState` has its place at the start of the caller's memory or inside the
  first block (`Home`); `space_allocated` is the sum of the sizes on the list.
* `Books`, all arenas together: each heap block is on exactly one list, once; blocks
  and callers' memory do not overlap; a reference lies in memory that stands *behind*
  it on the list (`Behind`). The last part is why the freeing walk may read a
  reference after it has freed the blocks in front of it.
* `Frees`: the walks on the stack are of different arenas, and what a walk has left
  to do is the list (`Lists`) that the other parts speak of. Freeing one block is
  thus an ordinary step that shortens a list.
* `Counts`: an arena's count is the number of references to it plus one for its
  owner; what a reference leads to exists and is not being walked.

Allocation has four policies (bump, a block of its own, a new current block, a
refusal by the allocator or by a fixed arena). `MallocOutcomes` reduces them to
two: `Denied`, nothing changed, or `Served`, a span that was free or new. All
operations that allocate use only these two, including `RefArena`, which allocates
the reference, and `InitSlow`, which allocates its own state. The rest is one
lemma for each change of a list: `BooksAdd`, `BooksTake`, `BooksPop`, `BooksDrop`, and
the same for counts.

`Total`, the sum of sizes, is a fold of the community modules over a recursive
function on sets. `SumsExist` and `SumsAgree` show by induction on the number of
elements that it does not depend on the order in which the set is taken apart, so
that a block adds its size (`TotalAdd`). `SwitchesGain` comes from the same lemmas as
the invariant: each step lemma also gives `Steady`, that an arena which changes its
current block has more room than before.

`AllocAssumption`: the sizes of alignment, headers, state and reference are
positive, a caller's block has room for the state (the code falls back to
`InitSlow` otherwise), maximal block sizes are below `UINT32`. The number of arenas,
the size of the heap and all other sizes are arbitrary.

### PHP objects (`PhpObjectsProofs`)

`ObjectsInv` is `Owned` with the parts that a step relies on: what a created but
not yet constructed object has (`CreatedOK`), that PHP holds exactly the objects
there are (`HeldOK`), that live wrappers and cache entries are inverse to each
other (`CacheOK`), and that memory is in a group somebody references
(`MemoryOK`). The critical step is `ReleaseArena` of a destructor: it frees a
whole group if no member has a reference left. `CountsOK` (counts are cardinalities
of the sets of holders) makes "no reference left" mean "no wrapper", and
`PointsOK` (pointers stay inside a group) makes the cells of the group unreachable
from any other. Fusing joins groups and separates nothing (`FusedPartition`).

The theorems assume `Misuse = {}`, programs that construct each object once, as
the extension's own code and generated code do. The run `php_reconstruct` shows
that `CacheOnlyLive` fails without the assumption (finding 1). `ObjectsAssumption`
says that PHP objects are finitely many, so that counts are numbers.

### The tables and maps (`UpbTableProofs`, `MapFieldProofs`)

`UpbTable` chains the entries of a table through the table itself, and a lookup
follows a chain. That it finds what was stored is a statement about all chains at
once. `Sound` states it without walks: keys differ, a link leads to an entry of the
same main position, no two links lead to one entry, an entry that is not at its
main position is linked to, and some numbering rises along the links (`Rises`). From
these, `ChainComplete` shows by induction that the chain of a main position holds
exactly the entries of that position; no chain is a ring.

One lemma for each way the table is rewired shows that it stays sound: an entry
put into an empty main position (`SoundFresh`), appended at the free slot
(`SoundAppend`), put in the place of an entry that is moved to the free slot because
it is in a foreign chain (`SoundEvict`), taken from the middle
(`SoundRemoveLast`, `SoundUnlink`) or from the head of a chain, where the second entry
moves up (`SoundRemoveHead`). `InsertOK` and `RmOK` are the code's operations,
`ResizeOK` is the loop that reinserts every entry into a table of double size, a
recursive function with the invariant "what was reinserted is what the old table
holds up to here". Insertion needs a free slot: `SomeSlotEmpty`, from the load limit
`Room`.

`MapOK` adds what integer maps keep outside the table (an array part of any length,
with key 0 at least), and that the table is not overfull and that its size is a power
of two. `Fits` adds what holds of a map that was not compacted: an array part of at
most one element, and a table within `MaxSize`.
`Gives` says what a map returns after
one key was set. `MapInv` is `MapOK`, agreement with the `Dictionary` on every key,
and for a running iteration that `seen` is the set of keys of the stops up to the
iterator (`SeenUpTo`). `NextStop` shows that `next` skips no stop, `StopKeysDiffer`
and `ElementHasStop` that stops and elements correspond one to one, so that an
undisturbed iteration gives each element once.

A clone and a compaction are built alike, by inserting the elements of an iteration
into an empty map. `CopyOK` is about any such copy: after n positions it has the
elements at the stops before n. An insertion fails where the table would have to grow
beyond the largest size, so that a copy could silently lack elements; `PartHasRoom`
excludes it. A copy whose table is full and that lacks an element has fewer hashed
elements than the table of the map has room for (key 0 is in the array of both, so
every key the copy hashes is one the map hashes), so its table is smaller, and as
sizes are powers of two, the double of the smaller is at most the larger
(`SizesApart`). `CloneOK` and `CompactOK` apply it to the two empty maps. For the
compaction nothing has to be known of the density rule that chooses the sizes but
that the array size is a number and the table size a power of two (`CompactSizes`);
a bad choice costs space, not elements.

`MapAssumption`: key 0 is an integer key, so that the array part exists; hash
functions, keys, values and sizes (powers of two) are arbitrary.

### Requests (`RequestLifecycleProofs`)

`LifecycleInv` ties the phase to the pool (`PoolsOK`: a pool exists while a script
runs, and none after the end), the pool to the names (`NamesOK`: every file of the
pool but the built-in one has its names mapped, and no entry is of another pool)
and the phase to the object cache (`CacheOK`: it is empty between requests).
`NamesUsable` needs one more invariant, `MemoryOK`: request memory holds the name
caches only if the setting is off, so the pool will not outlive it. It is
inductive only if scripts do not turn the setting on, which the theorem assumes
(`IniValues \subseteq {FALSE}`); the run `requests_ini` shows the violation
otherwise (finding 2).

`PoolInv` is about the content of the pool. `remove_filedef` takes entries out with
`removeiter`, which unlinks an entry from its predecessor but does not move the
successor of the head of a chain. Afterwards an entry may be out of reach of its main
position (finding 4), and the same symbol may then be added again for another file.
`Sound` is no invariant of such tables. `Loose` (`UpbTableProofs`) is what is left of
it: an empty slot has no successor, a link leads to an entry of the same main position
that is not there itself, and no two links lead to the same slot. `LooseFresh`,
`LooseAppend`, `LooseEvict` and `LooseRemove` show that the four ways to rewire keep
it, `InsertEffects` and `ResizeLoose` that nothing is lost or held twice.

What an insertion needs beyond that is that the symbol it adds is not in the table
for the same file, and all it checks is that a lookup misses. For the file that is
being added this suffices: none of its symbols was there before, and the ones
inserted since can all be reached (`Found`), because insertions never cut a chain
and a rollback ends the addition (`LookupMisses`). So `AddSymsOK`: the table gets
exactly the first n symbols of the file, or the addition ends with an error and
`RemoveFileOK` takes exactly those out again, or it crashes in `insert`
(finding 4; nothing is claimed about the pool after that). `AddFileOK` combines them with
the registry of extensions, which takes all extensions of a file or none
(`RegistryOK`). A lookup in a loose table may miss, but it never finds a symbol of a
file that is not in the pool (`LookupFinds`), which `PointersCurrent` needs for
Descriptors found by proto name.

`DefPoolAssumption`: symbols have hashes, any hashes; a file is a sequence of
symbols, which may be symbols of other files or the same one twice; the first size
of the table is a power of two.

### The decoder (`WireDecoderProofs`)

`DecoderInv` fixes where the pointer may be. `PlaceOK`: the stream reads from the
input or from the patch buffer, the pointer is at most `Slop` bytes behind the
end of the buffer, in either case it stands for the position `pos` in the input
and the limit stands for the end of the innermost loop's field. `FramesOK`: the
saved deltas lead from each loop's end to that of the loop around it. `CaptureOK`:
at most one unknown group is captured, from where the outermost skipped group
began. `StatusOK`: an overrun leaves the pointer behind the limit until `IsDone`
sees it. One lemma per stream operation shows that it keeps the place (the switch
of buffers, `SetLimit`, reading a string, starting and ending a capture), one per
action uses it.

`StreamAssumption` and `DecoderAssumption` give the sizes: a tag with a number
or with a size fits into the slop bytes, the two buffers do not overlap. The conversion to `int`
is exact for inputs up to `IntHalf`, and above it a wrapped value is a negative
one, which never ends a loop as if it were done.

### Only model-checked

Liveness (`LockFree`, `DecodeReturns`, `GroupReclaimed`): fairness and ENABLED
are beyond the prover.

## 6. Not modelled, and the plan

* *Weak memory* is out of reach of both tools: the model is sequentially
  consistent.
* *Constructors that throw* (`Message_InitFromPhp`), the `constructing_class`
  guard and autoloading: they depend on rules of the PHP engine that are not in
  this repository.
* *RepeatedField's contents and iterator*: a vector and an index that is compared
  with the size at each access.
* *The decoder's values*: where they are stored, merging of submessages, oneofs,
  extensions found lazily in message sets; the optional fast table
  (`decode_fast`), including its reading of short delimited fields. The encoder.
* *Two small operations*: the callback of `upb_Arena_SetAllocCleanup`, which runs
  once after the last block is freed, and the frozen bit of `upb_Map_Freeze`.
* *Conversions* (`convert.c`) are about 64-bit limits, doubles and strings.
  *JSON*, *class names*, *printing*, *mini descriptors* are text.
* *Building one definition*: resolution of types, features, layouts. Adding a
  file abstracts it to the symbols inserted and the place where it fails.
* *Generated code* (`php-upb.c`, `wkt.inc`, `*.pb.*`) and the mirrored parts of
  the protobuf repository (C++, Java, C#, Python, Ruby, Objective-C, Rust, the
  compiler). They make up nearly all of the tree's half a million lines and are
  not part of the extension, so the share of the tree that is modelled is small.

All safety properties of `ArenaFuse`, `ArenaAlloc`, `PhpObjects` (of programs that
construct once), `MapField`, `RequestLifecycle` (but for findings 2 and 4) and
`WireDecoder` are proved.
