----------------------------- MODULE ArenaAlloc -----------------------------
(***************************************************************************)
(* Allocation from a upb_Arena (upb/mem/arena.c, upb/mem/internal/arena.h):*)
(* the bump pointer, the list of blocks and its growth, resizing in place, *)
(* references between arenas, the copy of an arena that a decoder works    *)
(* on, and the release of the blocks.  ArenaFuse models the reference      *)
(* counts of fused arenas; here no two arenas are fused.                   *)
(*                                                                         *)
(* Addresses and block sizes are in units of UPB_MALLOC_ALIGN, requests in *)
(* bytes, of which Align make a unit.  Addresses are numbers, so that two  *)
(* blocks may touch and pointers are compared as the code compares them.   *)
(***************************************************************************)
EXTENDS Integers, FiniteSets, Sequences, FiniteSetsExt, SequencesExt

CONSTANTS
    Arena,
    Initial,        \* the arenas made with an initial block of the caller
    Fixed,          \* ... and without an allocator
    Align,          \* bytes in a unit
    Reserve,        \* kUpb_MemblockReserve
    StateSize,      \* sizeof(upb_ArenaState)
    RefReserve,     \* kUpb_ArenaRefReserve, in bytes
    FirstSize,      \* the 256 bytes of a first block
    InitialHint,    \* the 128 bytes a first own block is at least doubled from
    InitialSize,    \* size of the caller's initial blocks
    MaxBlockSizes,  \* values given to upb_Arena_SetMaxBlockSize
    UINT32,         \* 2^32
    Slack,          \* how much more than asked for the allocator may return
    HeapSize,       \* bound: units of memory
    Sizes,          \* bound: the sizes requested
    MaxLive,        \* bound: allocations at a time
    MaxRefs,        \* bound: references to an arena
    MaxNested       \* bound: decoders working at a time
ASSUME AllocAssumption ==
    /\ Fixed \subseteq Initial /\ Initial \subseteq Arena
    /\ {Align, Reserve, StateSize, RefReserve, UINT32} \subseteq Nat \ {0}
    /\ {FirstSize, InitialHint, HeapSize} \subseteq Nat
    /\ Slack \subseteq Nat /\ Sizes \subseteq Nat
    /\ InitialSize \in Nat /\ InitialSize >= StateSize
    /\ MaxBlockSizes \subseteq 0 .. UINT32 - 1

VARIABLES
    arena,          \* the upb_Arenas that exist
    decoders,       \* upb_Decoder.arena of the decoders at work, innermost last
    decoding,       \* the set of the arena they were given, if any
    refcount,       \* upb_ArenaInternal.parent_or_count
    owned,          \* the arenas whose creator has not freed them
    max_block_size, \* g_max_block_size
    heap,           \* the blocks held from the allocator
    freeing,        \* the calls of _upb_Arena_DoFree in progress, innermost last
    live,           \* ghost: the allocations in use
    last,           \* ghost: the latest allocation of each arena
    crashed         \* a NULL allocator was called

vars == <<arena, decoders, decoding, refcount, owned, max_block_size, heap,
          freeing, live, last, crashed>>

None == [at |-> -1, size |-> -1]
NoArena == [at |-> -1]
Exists(a) == arena[a] # NoArena
Units(at, n) == at .. (at + n - 1)
BlockUnits(b) == Units(b.at, b.size)

Init ==
    /\ arena = [a \in Arena |-> NoArena]
    /\ decoders = <<>> /\ decoding = {}
    /\ refcount = [a \in Arena |-> 0]
    /\ owned = {}
    /\ max_block_size \in MaxBlockSizes
    /\ heap = {}
    /\ freeing = <<>>
    /\ live = {}
    /\ last = [a \in Arena |-> None]
    /\ crashed = FALSE

----------------------------------------------------------------------------
(***************************************************************************)
(* Memory.  upb_alloc may fail, or return more than was asked for; of the  *)
(* free places it takes the lowest that fits.                              *)
(***************************************************************************)
InUse ==
    (UNION {BlockUnits(b) : b \in heap}) \cup
    (UNION {BlockUnits(arena[a].mem) : a \in {a \in Arena : Exists(a)}})
Fitting(n) == {i \in 0 .. HeapSize - n : Units(i, n) \cap InUse = {}}
upb_SizeReturningMalloc(n) ==
    {[at |-> Min(Fitting(n + x)), size |-> n + x] :
        x \in {x \in Slack : Fitting(n + x) # {}}}

NoMem == [at |-> 0, size |-> 0]

----------------------------------------------------------------------------
(***************************************************************************)
(* Allocation.  An outcome is the arena afterwards, the address returned   *)
(* (-1 for NULL) and the block obtained, if any.                           *)
(***************************************************************************)
AllocSpan(n) == (n + Align - 1) \div Align
ArenaHas(r) == r.end - r.ptr
HasInitialBlock(r) == r.mem # NoMem

Bump(r, span, got) ==
    [arena |-> [r EXCEPT !.ptr = @ + span], p |-> r.ptr, got |-> got, crash |-> FALSE]
Refused(r) == [arena |-> r, p |-> -1, got |-> {}, crash |-> FALSE]
Crash(r) == [Refused(r) EXCEPT !.crash = TRUE]

\* _upb_Arena_AddBlock.
AddBlock(r, b) ==
    [r EXCEPT !.space_allocated = @ + b.size, !.blocks = <<b>> \o @]

\* _upb_Arena_UseBlockInternal.
UseBlockInternal(r, b, offset) ==
    [r EXCEPT !.ptr = b.at + Reserve + offset, !.end = b.at + b.size]

\* Faulty variant: growth always switches to the new block.
NeverReduces(r, span, block_size) == FALSE
\* _upb_Arena_WouldReduceFreeSpace.  The free space of an initial block does
\* not count.  The subtraction is reached only if the block is large enough.
WouldReduceFreeSpace(r, span, block_size) ==
    LET current_free == IF r.blocks = <<>> THEN 0 ELSE ArenaHas(r)
        future_free == block_size - Reserve - span
    IN  current_free >= future_free

\* The two ways _upb_Arena_SlowMalloc ends: a block for this request alone, or
\* a new current block.
Dedicated(r, span, b) ==
    [arena |-> [r EXCEPT !.size_hint = Min({@ + (span \div 2), max_block_size \div 2})],
     p |-> b.at + Reserve, got |-> {b}, crash |-> FALSE]
Switched(r, span, b) ==
    LET size == Min({b.size, UINT32 - 1})
    IN  Bump(UseBlockInternal([r EXCEPT !.last_block_size = size, !.size_hint = size], b, 0),
             span, {b})

\* _upb_Arena_SlowMalloc.  block_alloc is zero only if both the allocator is
\* missing and there is no initial block.
SlowMalloc(r, span) ==
    LET doubled == Min({(2 * r.last_block_size) % UINT32, max_block_size})
        hinted == Min({(2 * r.size_hint) % UINT32, max_block_size})
        regular == IF span + Reserve > doubled THEN hinted ELSE doubled
        one_off == \/ span + Reserve > regular
                   \/ WouldReduceFreeSpace(r, span, regular)
        block_size == IF one_off THEN span + Reserve ELSE regular
        Grow(b) == LET s == AddBlock(r, b)
                   IN  IF one_off /\ WouldReduceFreeSpace(s, span, b.size)
                          THEN Dedicated(s, span, b)
                          ELSE Switched(s, span, b)
    IN  IF ~r.alloc /\ ~HasInitialBlock(r) THEN {Refused(r)}
        ELSE IF ~r.alloc THEN {Crash(r)}
        ELSE {Refused(r)} \cup {Grow(b) : b \in upb_SizeReturningMalloc(block_size)}

\* upb_Arena_Malloc.
Malloc(r, n) ==
    LET span == AllocSpan(n)
    IN  IF ArenaHas(r) < span THEN SlowMalloc(r, span) ELSE {Bump(r, span, {})}

\* _upb_Arena_WasLastAllocFromCurrentBlock.
WasLastAllocFromCurrentBlock(r, x) == x.at + AllocSpan(x.size) = r.ptr

\* What upb_Arena_ShrinkLast and upb_Arena_TryExtend do to the arena.
Resized(r, x, n) == [r EXCEPT !.ptr = @ + AllocSpan(n) - AllocSpan(x.size)]
ShrinkLast(r, x, n) == IF WasLastAllocFromCurrentBlock(r, x) THEN Resized(r, x, n) ELSE r
\* Faulty variant: the space left is not looked at.
ExtendBlindly(r, x, n) == WasLastAllocFromCurrentBlock(r, x)
\* The condition under which upb_Arena_TryExtend succeeds.
CanExtend(r, x, n) ==
    /\ WasLastAllocFromCurrentBlock(r, x)
    /\ ArenaHas(r) >= AllocSpan(n) - AllocSpan(x.size)

\* upb_Arena_Realloc of an allocation: in place, or a copy into a new one.
Realloc(r, x, n) ==
    IF n <= x.size THEN {[Bump(ShrinkLast(r, x, n), 0, {}) EXCEPT !.p = x.at]}
    ELSE IF CanExtend(r, x, n) THEN {[Bump(Resized(r, x, n), 0, {}) EXCEPT !.p = x.at]}
    ELSE Malloc(r, n)

----------------------------------------------------------------------------
(***************************************************************************)
(* The arena that calls for a work on: the innermost decoder's copy while  *)
(* a is being decoded into.                                                *)
(***************************************************************************)
Current(a) == IF a \in decoding THEN Last(decoders) ELSE arena[a]
Update(a, r) ==
    IF a \in decoding
       THEN /\ decoders' = [decoders EXCEPT ![Len(decoders)] = r]
            /\ UNCHANGED arena
       ELSE /\ arena' = [arena EXCEPT ![a] = r]
            /\ UNCHANGED decoders

Usable(a) == Exists(a) /\ a \in owned
Idle == freeing = <<>> /\ ~crashed
Alloc(a, at, n) == [arena |-> a, at |-> at, size |-> n]
In(a) == {x \in live : x.arena = a}

\* upb_Arena_Init with an initial block.
upb_Arena_Init(a) ==
    /\ Idle /\ a \in Initial /\ ~Exists(a)
    /\ Fitting(InitialSize) # {}
    /\ LET mem == [at |-> Min(Fitting(InitialSize)), size |-> InitialSize]
       IN  arena' = [arena EXCEPT ![a] =
             [mem |-> mem, alloc |-> a \notin Fixed, blocks |-> <<>>,
              last_block_size |-> InitialHint, size_hint |-> InitialHint,
              space_allocated |-> 0,
              ptr |-> mem.at + StateSize, end |-> mem.at + mem.size]]
    /\ refcount' = [refcount EXCEPT ![a] = 1]
    /\ owned' = owned \cup {a}
    /\ UNCHANGED <<decoders, decoding, max_block_size, heap, freeing, live, last, crashed>>

\* upb_Arena_Init without one (_upb_Arena_InitSlow): the first block also holds
\* the arena itself.  n is the caller's size hint.
upb_Arena_InitSlow(a, n) ==
    /\ Idle /\ a \notin Initial /\ ~Exists(a)
    /\ \E b \in upb_SizeReturningMalloc(Reserve + StateSize + Max({FirstSize, AllocSpan(n)})) :
          LET size == Min({b.size, UINT32 - 1})
              r == [mem |-> NoMem, alloc |-> TRUE, blocks |-> <<>>,
                    last_block_size |-> size, size_hint |-> size,
                    space_allocated |-> 0, ptr |-> 0, end |-> 0]
          IN  /\ arena' = [arena EXCEPT ![a] = UseBlockInternal(AddBlock(r, b), b, StateSize)]
              /\ heap' = heap \cup {b}
    /\ refcount' = [refcount EXCEPT ![a] = 1]
    /\ owned' = owned \cup {a}
    /\ UNCHANGED <<decoders, decoding, max_block_size, freeing, live, last, crashed>>

\* The caller's view of an outcome: x, if any, is replaced by the new
\* allocation, and stays as it was if there is none.
Received(a, o, x, n) ==
    /\ Update(a, o.arena)
    /\ heap' = heap \cup o.got
    /\ crashed' = o.crash
    /\ IF o.p = -1 THEN UNCHANGED <<live, last>>
       ELSE /\ live' = (live \ x) \cup {Alloc(a, o.p, n)}
            /\ last' = [last EXCEPT ![a] = [at |-> o.p, size |-> n]]
    /\ UNCHANGED <<decoding, refcount, owned, max_block_size, freeing>>

upb_Arena_Malloc(a, n) ==
    /\ Idle /\ Usable(a) /\ Cardinality(live) < MaxLive
    /\ \E o \in Malloc(Current(a), n) : Received(a, o, {}, n)

upb_Arena_Realloc(a, n) ==
    /\ Idle /\ Usable(a)
    /\ \E x \in In(a) : \E o \in Realloc(Current(a), x, n) : Received(a, o, {x}, n)

\* upb_Arena_TryExtend, when it fails, changes nothing.
upb_Arena_TryExtend(a, n) ==
    /\ Idle /\ Usable(a)
    /\ \E x \in In(a) :
          /\ n > x.size /\ CanExtend(Current(a), x, n)
          /\ Update(a, Resized(Current(a), x, n))
          /\ live' = (live \ {x}) \cup {[x EXCEPT !.size = n]}
          /\ last' = [last EXCEPT ![a] = [at |-> x.at, size |-> n]]
    /\ UNCHANGED <<decoding, refcount, owned, max_block_size, heap, freeing, crashed>>

\* upb_Arena_ShrinkLast, of the latest allocation only.
upb_Arena_ShrinkLast(a, n) ==
    /\ Idle /\ Usable(a) /\ a \notin decoding
    /\ \E x \in In(a) :
          /\ last[a] = [at |-> x.at, size |-> x.size] /\ n <= x.size
          /\ Update(a, ShrinkLast(arena[a], x, n))
          /\ live' = (live \ {x}) \cup {[x EXCEPT !.size = n]}
          /\ last' = [last EXCEPT ![a] = [at |-> x.at, size |-> n]]
    /\ UNCHANGED <<decoding, refcount, owned, max_block_size, heap, freeing, crashed>>

----------------------------------------------------------------------------
(***************************************************************************)
(* References.  An entry of the block list with size 0 is a upb_ArenaRef.  *)
(***************************************************************************)
IsRef(b) == b.size = 0
RefTo(at, to) == [at |-> at, size |-> 0, to |-> to]
RefsOf(blocks) == SelectSeq(blocks, IsRef)
Targets(a) == {b.to : b \in ToSet(RefsOf(arena[a].blocks))}
\* upb_Arena_HasRefChain, of chains of up to Cardinality(Arena) references.
Reach[n \in Nat] ==
    IF n = 0 THEN [a \in Arena |-> {a}]
    ELSE [a \in Arena |-> Reach[n - 1][a] \cup
             UNION {Targets(b) : b \in {b \in Reach[n - 1][a] : Exists(b)}}]
HasRefChain(from, to) == to \in Reach[Cardinality(Arena)][from]

\* Faulty variant: the target's count is left alone.
NoIncRef(to) == UNCHANGED refcount
\* upb_Arena_IncRefFor, of an arena that is not fused.
IncRefFor(to) == refcount' = [refcount EXCEPT ![to] = @ + 1]

\* upb_Arena_RefArena.  Callers keep references free of cycles.  If the target
\* has an initial block, nothing happens.
upb_Arena_RefArena(from, to) ==
    /\ Idle /\ Usable(from) /\ Usable(to) /\ from \notin decoding
    /\ from # to /\ ~HasRefChain(to, from)
    /\ ~HasInitialBlock(arena[to])
    /\ refcount[to] <= MaxRefs
    /\ \E o \in Malloc(arena[from], RefReserve) :
          /\ crashed' = o.crash
          /\ IF o.p = -1 THEN UNCHANGED <<arena, heap, refcount, last>>
             ELSE /\ arena' = [arena EXCEPT ![from] =
                                  [o.arena EXCEPT !.blocks = <<RefTo(o.p, to)>> \o @]]
                  /\ heap' = heap \cup o.got
                  /\ IncRefFor(to)
                  /\ last' = [last EXCEPT ![from] = None]
    /\ UNCHANGED <<decoders, decoding, owned, max_block_size, freeing, live>>

----------------------------------------------------------------------------
(***************************************************************************)
(* Release.  _upb_Arena_DoFree walks the list of blocks, and calls itself  *)
(* through upb_Arena_DecRefFor where a reference was the last; each step   *)
(* handles one entry of the innermost walk.                                *)
(***************************************************************************)
Walk(a) == [arena |-> a, rest |-> arena[a].blocks]

\* upb_Arena_Free of an arena that is not fused.
upb_Arena_Free(a) ==
    /\ Idle /\ Usable(a) /\ a \notin decoding
    /\ owned' = owned \ {a}
    /\ IF refcount[a] = 1
          THEN freeing' = <<Walk(a)>> /\ UNCHANGED refcount
          ELSE refcount' = [refcount EXCEPT ![a] = @ - 1] /\ UNCHANGED freeing
    /\ live' = {x \in live : x.arena # a \/ refcount[a] > 1}
    /\ UNCHANGED <<arena, decoders, decoding, max_block_size, heap, last, crashed>>

\* A block goes back to the allocator.
FreeBlock ==
    LET w == Last(freeing) b == Head(w.rest)
    IN  /\ freeing # <<>> /\ w.rest # <<>> /\ ~IsRef(b)
        /\ heap' = heap \ {b}
        /\ freeing' = [freeing EXCEPT ![Len(freeing)].rest = Tail(@)]
        /\ UNCHANGED <<arena, decoders, decoding, refcount, owned, max_block_size,
                       live, last, crashed>>

\* A reference is released (upb_Arena_DecRefFor).
ReleaseRef ==
    LET w == Last(freeing) b == Head(w.rest)
        popped == [freeing EXCEPT ![Len(freeing)].rest = Tail(@)]
    IN  /\ freeing # <<>> /\ w.rest # <<>> /\ IsRef(b)
        /\ IF refcount[b.to] = 1
              THEN /\ freeing' = Append(popped, Walk(b.to))
                   /\ UNCHANGED refcount
              ELSE /\ freeing' = popped
                   /\ refcount' = [refcount EXCEPT ![b.to] = @ - 1]
        /\ live' = {x \in live : x.arena # b.to \/ refcount[b.to] > 1}
        /\ UNCHANGED <<arena, decoders, decoding, owned, max_block_size, heap, last, crashed>>

\* The innermost walk returns.
WalkDone ==
    LET a == Last(freeing).arena
    IN  /\ freeing # <<>> /\ Last(freeing).rest = <<>>
        /\ freeing' = Front(freeing)
        /\ arena' = [arena EXCEPT ![a] = NoArena]
        /\ refcount' = [refcount EXCEPT ![a] = 0]
        /\ last' = [last EXCEPT ![a] = None]
        /\ UNCHANGED <<decoders, decoding, owned, max_block_size, heap, live, crashed>>

----------------------------------------------------------------------------
(***************************************************************************)
(* Decoders allocate from a copy of the arena.  A message set item is      *)
(* decoded by another decoder, into the copy of the first.                 *)
(***************************************************************************)
\* _upb_Arena_SwapIn in upb_Decoder_Init.
upb_Decoder_Init(a) ==
    /\ Idle /\ Usable(a) /\ Len(decoders) < MaxNested
    /\ decoding \in {{}, {a}}
    /\ decoders' = Append(decoders, Current(a))
    /\ decoding' = {a}
    /\ UNCHANGED <<arena, refcount, owned, max_block_size, heap, freeing, live, last, crashed>>

\* Faulty variant: the caller's arena is left as it was, as it would be if an
\* error left the decoder without passing upb_Decoder_Destroy.
SwapNothing(r, copy) == r
\* _upb_Arena_SwapOut.
SwapOut(r, copy) == copy

\* upb_Decoder_Destroy, after success and after every error.
upb_Decoder_Destroy ==
    LET n == Len(decoders) copy == Last(decoders)
    IN  /\ Idle /\ n > 0
        /\ IF n = 1
              THEN /\ arena' = [a \in Arena |-> IF a \in decoding THEN SwapOut(arena[a], copy)
                                                ELSE arena[a]]
                   /\ decoders' = <<>> /\ decoding' = {}
              ELSE /\ decoders' = [Front(decoders) EXCEPT ![n - 1] = SwapOut(@, copy)]
                   /\ UNCHANGED <<arena, decoding>>
        /\ UNCHANGED <<refcount, owned, max_block_size, heap, freeing, live, last, crashed>>

upb_Arena_SetMaxBlockSize(max) ==
    /\ Idle /\ max # max_block_size
    /\ max_block_size' = max
    /\ UNCHANGED <<arena, decoders, decoding, refcount, owned, heap, freeing, live, last,
                   crashed>>

Next ==
    \/ \E a \in Arena : \/ upb_Arena_Init(a)
                        \/ upb_Arena_Free(a)
                        \/ upb_Decoder_Init(a)
                        \/ \E n \in Sizes : \/ upb_Arena_InitSlow(a, n)
                                            \/ upb_Arena_Malloc(a, n)
                                            \/ upb_Arena_Realloc(a, n)
                                            \/ upb_Arena_TryExtend(a, n)
                                            \/ upb_Arena_ShrinkLast(a, n)
                        \/ \E b \in Arena : upb_Arena_RefArena(a, b)
    \/ \E max \in MaxBlockSizes : upb_Arena_SetMaxBlockSize(max)
    \/ FreeBlock \/ ReleaseRef \/ WalkDone
    \/ upb_Decoder_Destroy

Spec == Init /\ [][Next]_vars

----------------------------------------------------------------------------
(***************************************************************************)
(* Properties.                                                             *)
(***************************************************************************)
Existing == {a \in Arena : Exists(a)}
Walking == {w.arena : w \in ToSet(freeing)}
\* What a block list holds: memory to give back, and references.
Blocks(a) == {b \in ToSet(Current(a).blocks) : ~IsRef(b)}
Refs(a) == {b \in ToSet(Current(a).blocks) : IsRef(b)}
\* The units an arena may hand out: all of its blocks but the headers and the
\* place of the upb_ArenaState.
StateUnits(a) ==
    LET r == Current(a)
    IN  IF HasInitialBlock(r) THEN Units(r.mem.at, StateSize)
        ELSE Units(Last(r.blocks).at + Reserve, StateSize)
Territory(a) ==
    (BlockUnits(Current(a).mem) \cup
     UNION {BlockUnits(b) \ Units(b.at, Reserve) : b \in Blocks(a)}) \ StateUnits(a)
\* What is in use or may be handed out next, as (owner, units).
Pieces(a) ==
    {<<x, Units(x.at, AllocSpan(x.size))>> : x \in In(a)} \cup
    {<<b, Units(b.at, AllocSpan(RefReserve))>> : b \in Refs(a)} \cup
    {<<None, Units(Current(a).ptr, ArenaHas(Current(a)))>>}

\* Allocations, references and the space still to be handed out never overlap,
\* and lie in the arena's own blocks, beside their headers: through growth,
\* resizing in place, nested decoders that end in any way, and memory the
\* allocator reuses.  The bytes in use (not only the spans) are covered,
\* because a span is at least as long as its bytes.
AllocationsSafe ==
    \A a \in Existing \ Walking :
        /\ \A p \in Pieces(a) : p[2] \subseteq Territory(a)
        /\ \A p, q \in Pieces(a) : p # q => p[2] \cap q[2] = {}
        /\ Blocks(a) \subseteq heap

\* Every block held from the allocator is in exactly one block list, so it is
\* given back exactly once, and upb_Arena_SpaceAllocated counts it exactly once.
BlocksAccounted ==
    LET Held(a) == IF a \in Walking
                      THEN UNION {{b \in ToSet(w.rest) : ~IsRef(b)} :
                                     w \in {w \in ToSet(freeing) : w.arena = a}}
                      ELSE Blocks(a)
    IN  /\ heap = UNION {Held(a) : a \in Existing}
        /\ \A a, b \in Existing : a # b => Held(a) \cap Held(b) = {}
        /\ \A a \in Existing \ Walking :
              Current(a).space_allocated = MapThenSumSet(LAMBDA b : b.size, Blocks(a))

\* While arenas are released, what the walk still has to read is still
\* allocated, and an arena that somebody refers to exists and counts it.
ReleaseOrder ==
    LET Rest(a) == IF a \in Walking
                      THEN UNION {ToSet(w.rest) : w \in {w \in ToSet(freeing) : w.arena = a}}
                      ELSE ToSet(Current(a).blocks)
        Held(a) == BlockUnits(Current(a).mem) \cup
                   UNION {BlockUnits(b) : b \in {b \in Rest(a) : ~IsRef(b)}}
        RefsTo(a) == {b \in UNION {Rest(c) : c \in Existing} : IsRef(b) /\ b.to = a}
    IN  /\ \A a \in Existing : \A b \in Rest(a) : IsRef(b) =>
              Units(b.at, AllocSpan(RefReserve)) \subseteq Held(a)
        /\ \A a \in Existing \ Walking :
              refcount[a] = Cardinality(RefsTo(a)) + (IF a \in owned THEN 1 ELSE 0)
        /\ \A a \in Arena : RefsTo(a) # {} => Exists(a) /\ a \notin Walking

\* "If switching to a block of this size would *reduce* available free space,
\* we might as well make a one-off block instead": when the current block
\* changes, what is left of the new one is more than what is lost of the old.
\* (A caller's initial block does not count until there is another block.)
SwitchGains ==
    [][\A a \in Arena :
          (/\ Exists(a) /\ Exists(a)' /\ decoding = decoding'
           /\ Current(a).blocks # <<>>
           /\ Current(a)'.end # Current(a).end)
          => ArenaHas(Current(a)') > ArenaHas(Current(a))]_vars

\* arena.h: "If |alloc| is NULL, this is a fixed-size arena and cannot grow."
\* A request it cannot serve is refused.
FixedRefuses == ~crashed
============================================================================
