------------------------------ MODULE ArenaFuse ------------------------------
(***************************************************************************)
(* The lock-free part of upb's arena allocator (upb/mem/arena.c): fusing   *)
(* the lifetimes of arenas, counting references on a fused group, freeing  *)
(* the group with its last reference, and walking it to add up its size.   *)
(*                                                                         *)
(* Every thread runs one library call at a time.  A step of a thread is    *)
(* one atomic access of the C code (load, store or compare-exchange)       *)
(* together with the local computation up to the next access.  Memory is   *)
(* sequentially consistent: the memory_order arguments are not modelled.   *)
(* Addresses are positive numbers and NULL is 0, because the code compares *)
(* addresses to decide which root becomes the parent.                      *)
(***************************************************************************)
EXTENDS Integers, FiniteSets, FiniteSetsExt

CONSTANTS
    Arena,            \* addresses of the arenas that exist initially
    Thread,           \* threads calling into the library
    HasInitialBlock,  \* arenas created over caller-provided memory
    Ops,              \* the library calls the threads make
    Pairs,            \* the argument pairs of their Fuse and IsFused calls
    InitRefs,         \* references held on each arena at the start
    MaxRefs,          \* bound: references held at once to which increments lead
    MaxOwed           \* bound: excess of a fuse beside which increments are made

Op == {"fuse", "isfused", "incref", "free", "space"}

ASSUME ArenaAssumption == Arena \subseteq Nat \ {0} /\ IsFiniteSet(Arena)
ASSUME ThreadAssumption == IsFiniteSet(Thread)
ASSUME InitialBlockAssumption == HasInitialBlock \subseteq Arena
ASSUME OpsAssumption == Ops \subseteq Op /\ Pairs \subseteq Arena \X Arena
ASSUME RefsAssumption ==
    /\ InitRefs \in Nat \ {0}
    /\ MaxRefs \in Nat /\ MaxOwed \in Nat

NULL == 0

(***************************************************************************)
(* Tagged words.  parent_or_count is a reference count (low bit 1) or a    *)
(* parent pointer (low bit 0); previous_or_tail is a cached tail (low bit  *)
(* 1) or the previous list node (low bit 0).                               *)
(***************************************************************************)
TaggedFromRefcount(n) == [tag |-> "count", val |-> n]
TaggedFromPointer(a) == [tag |-> "pointer", val |-> a]
IsTaggedRefcount(w) == w.tag = "count"
IsTaggedPointer(w) == w.tag = "pointer"
TaggedFromTail(a) == [tag |-> "tail", val |-> a]
TaggedFromPrevious(a) == [tag |-> "previous", val |-> a]
IsTaggedTail(w) == w.tag = "tail"

Word == [tag : {"count"}, val : Int] \cup [tag : {"pointer"}, val : Arena]
ListWord == [tag : {"tail", "previous"}, val : Arena]

VARIABLES
    parent_or_count,   \* upb_ArenaInternal.parent_or_count
    next,              \* upb_ArenaInternal.next
    previous_or_tail,  \* upb_ArenaInternal.previous_or_tail
    freed,             \* arenas whose blocks went back to the allocator
    refs,              \* references the application still holds, per arena
    pc,                \* where each thread is
    call,              \* the call a thread is in: arguments and result
    find,              \* cursor of a walk: FindRoot, Free, SpaceAllocated
    fuse,              \* frame of _upb_Arena_DoFuse (and of IsFused)
    ref_delta,         \* upb_Arena_Fuse's ref_delta: excess references added
    owed,              \* history: where a thread's excess references went
    link,              \* frame of _upb_Arena_DoFuseArenaLists
    space              \* frame of upb_Arena_SpaceAllocated

memory == <<parent_or_count, next, previous_or_tail, freed>>
lists == <<next, previous_or_tail>>
vars == <<memory, refs, pc, call, find, fuse, ref_delta, owed, link, space>>

NoneOwed == [a \in Arena |-> 0]
Answer(b) == IF b THEN "true" ELSE "false"
CallOf(op, a, b, was, res) ==
    [op |-> op, a |-> a, b |-> b, was |-> was, res |-> res]
FindFrom(a, ret) ==
    [ai |-> a, up |-> NULL, poc |-> TaggedFromRefcount(0), ret |-> ret]
NoRoot == [root |-> NULL, count |-> 0]
FuseOf(a, b) == [ai1 |-> a, ai2 |-> b, r1 |-> NoRoot, r2 |-> NoRoot]
NoCall == CallOf("none", NULL, NULL, "none", "none")
NoFind == FindFrom(NULL, "none")
NoFuse == FuseOf(NULL, NULL)
NoLink == [tail |-> NULL, new_tail |-> NULL, old_tail |-> NULL]
NoSpace == [counted |-> {}, fused_count |-> 0, visible |-> {}]

(***************************************************************************)
(* upb_Arena_Init and _upb_Arena_InitSlow: an arena starts as the root of  *)
(* a one-element group, with itself as cached tail.  The first IncRefFor   *)
(* calls may have happened before the threads start, hence InitRefs.       *)
(***************************************************************************)
Init ==
    /\ parent_or_count = [a \in Arena |->
           TaggedFromRefcount(IF a \in HasInitialBlock THEN 1 ELSE InitRefs)]
    /\ next = [a \in Arena |-> NULL]
    /\ previous_or_tail = [a \in Arena |-> TaggedFromTail(a)]
    /\ freed = {}
    /\ refs = [a \in Arena |-> IF a \in HasInitialBlock THEN 1 ELSE InitRefs]
    /\ pc = [t \in Thread |-> "idle"]
    /\ call = [t \in Thread |-> NoCall]
    /\ find = [t \in Thread |-> NoFind]
    /\ fuse = [t \in Thread |-> NoFuse]
    /\ ref_delta = [t \in Thread |-> 0]
    /\ owed = [t \in Thread |-> NoneOwed]
    /\ link = [t \in Thread |-> NoLink]
    /\ space = [t \in Thread |-> NoSpace]

----------------------------------------------------------------------------
(***************************************************************************)
(* Helpers.                                                                *)
(***************************************************************************)
At(t, label) == pc[t] = label
Goto(t, label) == pc' = [pc EXCEPT ![t] = label]

\* The root an arena's parent pointers lead to, and the group of that root.
Root == [a \in Arena |->
            LET up[b \in Arena] ==
                    IF IsTaggedRefcount(parent_or_count[b]) THEN b
                    ELSE up[parent_or_count[b].val]
            IN up[a]]
Group(a) == {b \in Arena : Root[b] = Root[a]}

\* The arenas n steps along the list in one direction reach from a.
Walk(a, step(_)) ==
    LET from[n \in 0..Cardinality(Arena)] ==
            IF n = 0 THEN {a}
            ELSE from[n - 1] \cup UNION {step(b) : b \in from[n - 1]}
    IN from[Cardinality(Arena)]
ListFrom(a) == Walk(a, LAMBDA b : {next[b]} \ {NULL})
ListBefore(a) == Walk(a, LAMBDA b : IF IsTaggedTail(previous_or_tail[b]) THEN {}
                                    ELSE {previous_or_tail[b].val})
Visible(a) == {b \in Arena : b \in ListBefore(a) \cup ListFrom(a)}

\* The call returns res to its caller.
Finish(t, res) ==
    /\ Goto(t, "return")
    /\ call' = [call EXCEPT ![t].res = res]
    /\ UNCHANGED <<find, fuse>>

\* Begin _upb_Arena_FindRoot(a), to continue at ret with its result.
CallFindRoot(t, a, ret) ==
    /\ Goto(t, "find_load")
    /\ find' = [find EXCEPT ![t] = FindFrom(a, ret)]

\* Is a thread inside a call that relies on the caller's reference on arena a?
\* Free does not: the reference it gives up is its own.
InUse(a) ==
    \E u \in Thread : /\ pc[u] # "idle" /\ call[u].op # "free"
                      /\ a \in {call[u].a, call[u].b}

----------------------------------------------------------------------------
(***************************************************************************)
(* Starting a call.  The caller must hold a reference on each arena it     *)
(* passes for as long as the call runs (arena.h: only the operations       *)
(* listed as safe may run concurrently on it), and giving up the last      *)
(* reference on an arena some call is still using is the caller's error.   *)
(***************************************************************************)

\* upb_Arena_Fuse(a, b) up to its loop.
StartFuse(t, a, b) ==
    /\ At(t, "idle") /\ "fuse" \in Ops
    /\ refs[a] > 0 /\ refs[b] > 0
    /\ call' = [call EXCEPT ![t] = CallOf("fuse", a, b, "none", Answer(a = b))]
    /\ \/ /\ a = b \/ a \in HasInitialBlock \/ b \in HasInitialBlock
          /\ Goto(t, "return")
          /\ UNCHANGED <<find, fuse>>
       \/ /\ a # b /\ a \notin HasInitialBlock /\ b \notin HasInitialBlock
          /\ CallFindRoot(t, a, "r1")
          /\ fuse' = [fuse EXCEPT ![t] = FuseOf(a, b)]
    /\ UNCHANGED <<memory, refs, ref_delta, owed, link, space>>

\* upb_Arena_IsFused(a, b); was records whether they were fused at the call.
StartIsFused(t, a, b) ==
    /\ At(t, "idle") /\ "isfused" \in Ops
    /\ refs[a] > 0 /\ refs[b] > 0
    /\ call' = [call EXCEPT ![t] =
                    CallOf("isfused", a, b, Answer(Root[a] = Root[b]), Answer(a = b))]
    /\ \/ a = b /\ Goto(t, "return") /\ UNCHANGED <<find, fuse>>
       \/ /\ a # b /\ CallFindRoot(t, a, "ra")
          /\ fuse' = [fuse EXCEPT ![t] = FuseOf(NULL, b)]
    /\ UNCHANGED <<memory, refs, ref_delta, owed, link, space>>

\* The references held, and those about to be.
SumOver(S, f(_)) == MapThenSumSet(f, S)
RefsOn(S) == SumOver(S, LAMBDA a : refs[a])
Incrementing == {t \in Thread : call[t].op = "incref"}

\* upb_Arena_IncRefFor(a, owner).  A behaviour may contain any number of calls;
\* MaxRefs and MaxOwed only keep the counts finite: the references held, and the
\* excess a fuse builds up while others make its second exchange fail.
StartIncRef(t, a) ==
    /\ At(t, "idle") /\ "incref" \in Ops
    /\ refs[a] > 0 /\ RefsOn(Arena) + Cardinality(Incrementing) < MaxRefs
    /\ \A u \in Thread : ref_delta[u] <= MaxOwed
    /\ call' = [call EXCEPT ![t] = CallOf("incref", a, NULL, "none", "false")]
    /\ \/ a \in HasInitialBlock /\ Goto(t, "return") /\ UNCHANGED find
       \/ a \notin HasInitialBlock /\ CallFindRoot(t, a, "incref")
    /\ UNCHANGED <<memory, refs, fuse, ref_delta, owed, link, space>>

\* upb_Arena_Free(a), also reached as upb_Arena_DecRefFor(a, owner).
StartFree(t, a) ==
    /\ At(t, "idle") /\ "free" \in Ops
    /\ refs[a] > 1 \/ (refs[a] = 1 /\ ~InUse(a))
    /\ refs' = [refs EXCEPT ![a] = @ - 1]
    /\ call' = [call EXCEPT ![t] = CallOf("free", a, NULL, "none", "false")]
    /\ find' = [find EXCEPT ![t] = FindFrom(a, "none")]
    /\ Goto(t, "free_load")
    /\ UNCHANGED <<memory, fuse, ref_delta, owed, link, space>>

\* upb_Arena_SpaceAllocated(a, &fused_count); visible records what a walk that
\* nobody interferes with would count, hence what every earlier call counted.
StartSpaceAllocated(t, a) ==
    /\ At(t, "idle") /\ "space" \in Ops
    /\ refs[a] > 0
    /\ call' = [call EXCEPT ![t] = CallOf("space", a, NULL, "none", "false")]
    /\ find' = [find EXCEPT ![t] = FindFrom(a, "none")]
    /\ space' = [space EXCEPT ![t].visible = Visible(a)]
    /\ Goto(t, "space_backward")
    /\ UNCHANGED <<memory, refs, fuse, ref_delta, owed, link>>

\* The call is over; the thread's stack frames are gone.
Return(t) ==
    /\ At(t, "return")
    /\ Goto(t, "idle")
    /\ call' = [call EXCEPT ![t] = NoCall]
    /\ find' = [find EXCEPT ![t] = NoFind]
    /\ fuse' = [fuse EXCEPT ![t] = NoFuse]
    /\ link' = [link EXCEPT ![t] = NoLink]
    /\ space' = [space EXCEPT ![t] = NoSpace]
    /\ UNCHANGED <<memory, refs, ref_delta, owed>>

----------------------------------------------------------------------------
(***************************************************************************)
(* _upb_Arena_FindRoot, shared by Fuse, IsFused and IncRefFor.             *)
(***************************************************************************)

\* Make r the root found for the first operand, then find the second's.
GotFirstRoot(t, r) ==
    /\ fuse' = [fuse EXCEPT ![t].r1 = r]
    /\ CallFindRoot(t, fuse[t].ai2, "r2")
    /\ UNCHANGED call

\* DoFuse knows both roots: done if they are equal, otherwise the root with
\* the lower address is to become the parent (r1) of the other (r2).
\* The faulty variant lets the order of the arguments decide.
AsGiven(r, s) == <<r, s>>
LowerFirst(r, s) == IF r.root > s.root THEN <<s, r>> ELSE <<r, s>>
GotSecondRoot(t, r) ==
    LET r1 == fuse[t].r1
    IN  /\ \/ /\ r1.root = r.root
              /\ Goto(t, "fixup_load")
              /\ UNCHANGED fuse
           \/ /\ r1.root # r.root
              /\ Goto(t, "add_refs")
              /\ fuse' = [fuse EXCEPT ![t] =
                     [ai1 |-> r1.root, ai2 |-> r.root,
                      r1 |-> LowerFirst(r1, r)[1], r2 |-> LowerFirst(r1, r)[2]]]
        /\ find' = [find EXCEPT ![t] = NoFind]
        /\ UNCHANGED call

\* IsFused keeps ra and rb in ai1 and ai2.
GotRa(t, r) ==
    /\ fuse' = [fuse EXCEPT ![t].ai1 = r.root]
    /\ CallFindRoot(t, fuse[t].ai2, "rb")
    /\ UNCHANGED call

\* Faulty variant: different roots are taken for an answer without a recheck.
GotRbOnce(t, r) == Finish(t, Answer(fuse[t].ai1 = r.root))

GotRb(t, r) ==
    \/ fuse[t].ai1 = r.root /\ Finish(t, "true")
    \/ /\ fuse[t].ai1 # r.root
       /\ fuse' = [fuse EXCEPT ![t].ai2 = r.root]
       /\ CallFindRoot(t, fuse[t].ai1, "tmp")
       /\ UNCHANGED call

GotTmp(t, r) ==
    \/ fuse[t].ai1 = r.root /\ Finish(t, "false")
    \/ /\ fuse[t].ai1 # r.root
       /\ fuse' = [fuse EXCEPT ![t].ai1 = r.root]
       /\ CallFindRoot(t, fuse[t].ai2, "rb")
       /\ UNCHANGED call

GotIncRefRoot(t, r) ==
    /\ find' = [find EXCEPT ![t].ai = r.root,
                            ![t].poc = TaggedFromRefcount(r.count)]
    /\ Goto(t, "incref_cas")
    /\ UNCHANGED <<call, fuse>>

FindRootReturns(t, root, word) ==
    LET r == [root |-> root, count |-> word.val]
    IN  \/ find[t].ret = "r1" /\ GotFirstRoot(t, r)
        \/ find[t].ret = "r2" /\ GotSecondRoot(t, r)
        \/ find[t].ret = "ra" /\ GotRa(t, r)
        \/ find[t].ret = "rb" /\ GotRb(t, r)
        \/ find[t].ret = "tmp" /\ GotTmp(t, r)
        \/ find[t].ret = "incref" /\ GotIncRefRoot(t, r)

\* First, relaxed load: a root returns itself.
FindRootLoad(t) ==
    LET ai == find[t].ai
        word == parent_or_count[ai]
    IN  /\ At(t, "find_load")
        /\ \/ IsTaggedRefcount(word) /\ FindRootReturns(t, ai, word)
           \/ /\ IsTaggedPointer(word)
              /\ Goto(t, "find_reload")
              /\ UNCHANGED <<call, find, fuse>>
        /\ UNCHANGED <<memory, refs, ref_delta, owed, link, space>>

\* The acquire reload of the same word, taken to be a pointer.
FindRootReload(t) ==
    /\ At(t, "find_reload")
    /\ find' = [find EXCEPT ![t].poc = parent_or_count[find[t].ai]]
    /\ Goto(t, "find_next")
    /\ UNCHANGED <<memory, refs, call, fuse, ref_delta, owed, link, space>>

\* Load the parent's word; a root ends the walk.
FindRootNext(t) ==
    LET up == find[t].poc.val
        word == parent_or_count[up]
    IN  /\ At(t, "find_next")
        /\ \/ IsTaggedRefcount(word) /\ FindRootReturns(t, up, word)
           \/ /\ IsTaggedPointer(word)
              /\ find' = [find EXCEPT ![t].up = up, ![t].poc = word]
              /\ Goto(t, "find_split")
              /\ UNCHANGED <<call, fuse>>
        /\ UNCHANGED <<memory, refs, ref_delta, owed, link, space>>

\* Path splitting: point the arena at its grandparent, by a plain store.
FindRootSplit(t) ==
    LET f == find[t]
    IN  /\ At(t, "find_split")
        /\ parent_or_count' = [parent_or_count EXCEPT ![f.ai] = f.poc]
        /\ find' = [find EXCEPT ![t].ai = f.up, ![t].up = NULL]
        /\ Goto(t, "find_next")
        /\ UNCHANGED <<lists, freed, refs, call, fuse, ref_delta, owed, link, space>>

----------------------------------------------------------------------------
(***************************************************************************)
(* upb_Arena_Fuse: the two compare-exchanges of _upb_Arena_DoFuse, the     *)
(* linking of the lists, and _upb_Arena_FixupRefs.                         *)
(***************************************************************************)
\* Faulty variants: success is reported without trying again; the same
\* compare-exchange is tried again with the values that failed.
GiveUp(t) == Finish(t, "true")
RetryInPlace(t) == Goto(t, "add_refs") /\ UNCHANGED <<call, find, fuse>>

\* DoFuse or FixupRefs failed: the loop starts over, from the roots found.
Retry(t) ==
    /\ CallFindRoot(t, fuse[t].ai1, "r1")
    /\ fuse' = [fuse EXCEPT ![t] = FuseOf(fuse[t].ai1, fuse[t].ai2)]
    /\ UNCHANGED call

\* Add r2's references to r1 before r2 can be reached through r1.
DoFuseAddRefs(t) ==
    LET r1 == fuse[t].r1
        r2 == fuse[t].r2
    IN  /\ At(t, "add_refs")
        /\ \/ /\ parent_or_count[r1.root] = TaggedFromRefcount(r1.count)
              /\ parent_or_count' = [parent_or_count EXCEPT
                     ![r1.root] = TaggedFromRefcount(r1.count + r2.count)]
              /\ owed' = [owed EXCEPT ![t][r1.root] = @ + r2.count]
              /\ Goto(t, "reparent")
              /\ UNCHANGED <<call, find, fuse>>
           \/ /\ parent_or_count[r1.root] # TaggedFromRefcount(r1.count)
              /\ Retry(t)
              /\ UNCHANGED <<parent_or_count, owed>>
        /\ UNCHANGED <<lists, freed, refs, ref_delta, link, space>>

\* Swap r2's count for a pointer to r1, if the count is still what was added.
DoFuseReparent(t) ==
    LET r1 == fuse[t].r1
        r2 == fuse[t].r2
    IN  /\ At(t, "reparent")
        /\ \/ /\ parent_or_count[r2.root] = TaggedFromRefcount(r2.count)
              /\ parent_or_count' = [parent_or_count EXCEPT
                     ![r2.root] = TaggedFromPointer(r1.root)]
              /\ owed' = [owed EXCEPT ![t][r1.root] = @ - r2.count]
              /\ Goto(t, "link_tail")
              /\ UNCHANGED <<call, find, fuse, ref_delta>>
           \/ /\ parent_or_count[r2.root] # TaggedFromRefcount(r2.count)
              /\ ref_delta' = [ref_delta EXCEPT ![t] = @ + r2.count]
              /\ Retry(t)
              /\ UNCHANGED <<parent_or_count, owed>>
        /\ UNCHANGED <<lists, freed, refs, link, space>>

\* _upb_Arena_LinkForward: start at the cached tail, or at a parent that is
\* no longer a root.
LinkForwardStart(t) ==
    LET parent == fuse[t].r1.root
        word == previous_or_tail[parent]
    IN  /\ At(t, "link_tail")
        /\ link' = [link EXCEPT ![t].tail =
                        IF IsTaggedTail(word) THEN word.val ELSE parent]
        /\ Goto(t, "link_next")
        /\ UNCHANGED <<memory, refs, call, find, fuse, ref_delta, owed, space>>

\* Walk to a node without a successor.
LinkForwardWalk(t) ==
    LET n == next[link[t].tail]
    IN  /\ At(t, "link_next")
        /\ \/ n = NULL /\ Goto(t, "link_cas") /\ UNCHANGED link
           \/ /\ n # NULL
              /\ link' = [link EXCEPT ![t].tail = n]
              /\ UNCHANGED pc
        /\ UNCHANGED <<memory, refs, call, find, fuse, ref_delta, owed, space>>

\* Faulty variant: a plain store instead of a compare-exchange.
LinkForwardStore(t) ==
    /\ At(t, "link_cas")
    /\ next' = [next EXCEPT ![link[t].tail] = fuse[t].r2.root]
    /\ Goto(t, "tail_child")
    /\ UNCHANGED <<parent_or_count, previous_or_tail, freed, refs, call, find,
                   fuse, ref_delta, owed, link, space>>

\* Make the child that node's successor; a lost race continues the walk.
LinkForwardCAS(t) ==
    LET tail == link[t].tail
    IN  /\ At(t, "link_cas")
        /\ \/ /\ next[tail] = NULL
              /\ next' = [next EXCEPT ![tail] = fuse[t].r2.root]
              /\ Goto(t, "tail_child")
              /\ UNCHANGED link
           \/ /\ next[tail] # NULL
              /\ link' = [link EXCEPT ![t].tail = next[tail]]
              /\ Goto(t, "link_next")
              /\ UNCHANGED next
        /\ UNCHANGED <<parent_or_count, previous_or_tail, freed, refs, call, find,
                       fuse, ref_delta, owed, space>>

\* _upb_Arena_UpdateParentTail: load the child's cached tail ...
UpdateTailChild(t) ==
    /\ At(t, "tail_child")
    /\ link' = [link EXCEPT ![t].new_tail = previous_or_tail[fuse[t].r2.root].val]
    /\ Goto(t, "tail_parent")
    /\ UNCHANGED <<memory, refs, call, find, fuse, ref_delta, owed, space>>

\* ... load the parent's, to see whether it is still a tail ...
UpdateTailParent(t) ==
    LET word == previous_or_tail[fuse[t].r1.root]
    IN  /\ At(t, "tail_parent")
        /\ \/ /\ IsTaggedTail(word)
              /\ link' = [link EXCEPT ![t].old_tail = word.val]
              /\ Goto(t, "tail_cas")
           \/ ~IsTaggedTail(word) /\ Goto(t, "link_back") /\ UNCHANGED link
        /\ UNCHANGED <<memory, refs, call, find, fuse, ref_delta, owed, space>>

\* Faulty variant: the new tail is stored whatever happened meanwhile.
UpdateTailStore(t) ==
    /\ At(t, "tail_cas")
    /\ previous_or_tail' = [previous_or_tail EXCEPT
           ![fuse[t].r1.root] = TaggedFromTail(link[t].new_tail)]
    /\ Goto(t, "link_back")
    /\ UNCHANGED <<parent_or_count, next, freed, refs, call, find, fuse,
                   ref_delta, owed, link, space>>

\* ... and replace it, unless it changed meanwhile.
UpdateTailCAS(t) ==
    LET parent == fuse[t].r1.root
    IN  /\ At(t, "tail_cas")
        /\ \/ /\ previous_or_tail[parent] = TaggedFromTail(link[t].old_tail)
              /\ previous_or_tail' = [previous_or_tail EXCEPT
                     ![parent] = TaggedFromTail(link[t].new_tail)]
           \/ /\ previous_or_tail[parent] # TaggedFromTail(link[t].old_tail)
              /\ UNCHANGED previous_or_tail
        /\ Goto(t, "link_back")
        /\ UNCHANGED <<parent_or_count, next, freed, refs, call, find, fuse,
                       ref_delta, owed, link, space>>

\* Faulty variant: links back to the parent in the tree.
LinkBackwardToParent(t) ==
    /\ At(t, "link_back")
    /\ previous_or_tail' = [previous_or_tail EXCEPT ![fuse[t].r2.root] =
                                TaggedFromPrevious(fuse[t].r1.root)]
    /\ link' = [link EXCEPT ![t] = NoLink]
    /\ Goto(t, "fixup_load")
    /\ UNCHANGED <<parent_or_count, next, freed, refs, call, find, fuse,
                   ref_delta, owed, space>>

\* _upb_Arena_LinkBackward: the child's tail becomes its previous pointer.
LinkBackward(t) ==
    /\ At(t, "link_back")
    /\ previous_or_tail' = [previous_or_tail EXCEPT ![fuse[t].r2.root] =
                                TaggedFromPrevious(link[t].tail)]
    /\ link' = [link EXCEPT ![t] = NoLink]
    /\ Goto(t, "fixup_load")
    /\ UNCHANGED <<parent_or_count, next, freed, refs, call, find, fuse,
                   ref_delta, owed, space>>

\* Faulty variant: the excess references stay where they are.
FixupRefsForgotten(t) ==
    /\ At(t, "fixup_load")
    /\ Finish(t, "true")
    /\ UNCHANGED <<memory, refs, ref_delta, owed, link, space>>

\* _upb_Arena_FixupRefs: nothing to remove, or load the new root's count.
FixupRefsLoad(t) ==
    LET word == parent_or_count[fuse[t].r1.root]
    IN  /\ At(t, "fixup_load")
        /\ \/ ref_delta[t] = 0 /\ Finish(t, "true")
           \/ ref_delta[t] # 0 /\ IsTaggedPointer(word) /\ Retry(t)
           \/ /\ ref_delta[t] # 0 /\ IsTaggedRefcount(word)
              /\ find' = [find EXCEPT ![t].poc = word]
              /\ Goto(t, "fixup_cas")
              /\ UNCHANGED <<call, fuse>>
        /\ UNCHANGED <<memory, refs, ref_delta, owed, link, space>>

\* Faulty variant: the new count is stored whatever happened since the load.
FixupRefsStore(t) ==
    /\ At(t, "fixup_cas")
    /\ parent_or_count' = [parent_or_count EXCEPT
           ![fuse[t].r1.root] = TaggedFromRefcount(find[t].poc.val - ref_delta[t])]
    /\ ref_delta' = [ref_delta EXCEPT ![t] = 0]
    /\ owed' = [owed EXCEPT ![t] = NoneOwed]
    /\ Finish(t, "true")
    /\ UNCHANGED <<lists, freed, refs, link, space>>

\* Remove the excess references in one compare-exchange.
FixupRefsCAS(t) ==
    LET root == fuse[t].r1.root
        word == find[t].poc
    IN  /\ At(t, "fixup_cas")
        /\ \/ /\ parent_or_count[root] = word
              /\ parent_or_count' = [parent_or_count EXCEPT
                     ![root] = TaggedFromRefcount(word.val - ref_delta[t])]
              /\ ref_delta' = [ref_delta EXCEPT ![t] = 0]
              /\ owed' = [owed EXCEPT ![t] = NoneOwed]
              /\ Finish(t, "true")
           \/ /\ parent_or_count[root] # word
              /\ Retry(t)
              /\ UNCHANGED <<parent_or_count, ref_delta, owed>>
        /\ UNCHANGED <<lists, freed, refs, link, space>>

----------------------------------------------------------------------------
(***************************************************************************)
(* upb_Arena_IncRefFor, upb_Arena_Free and upb_Arena_SpaceAllocated.       *)
(***************************************************************************)

\* Faulty variant: the increment is stored without a compare-exchange.
IncRefStore(t) ==
    LET f == find[t]
    IN  /\ At(t, "incref_cas")
        /\ parent_or_count' = [parent_or_count EXCEPT
               ![f.ai] = TaggedFromRefcount(f.poc.val + 1)]
        /\ refs' = [refs EXCEPT ![call[t].a] = @ + 1]
        /\ Finish(t, "true")
        /\ UNCHANGED <<lists, freed, ref_delta, owed, link, space>>

\* Increment the root's count; a failed exchange finds the root again.  The
\* exchange is a weak one and may fail although the word is unchanged (so may
\* those of LinkForward and Free, but there the loop then repeats the exchange
\* with the same values, which changes nothing).
IncRefCAS(t) ==
    LET f == find[t]
    IN  /\ At(t, "incref_cas")
        /\ \/ /\ parent_or_count[f.ai] = f.poc
              /\ parent_or_count' = [parent_or_count EXCEPT
                     ![f.ai] = TaggedFromRefcount(f.poc.val + 1)]
              /\ refs' = [refs EXCEPT ![call[t].a] = @ + 1]
              /\ Finish(t, "true")
           \/ /\ CallFindRoot(t, f.ai, "incref")
              /\ UNCHANGED <<parent_or_count, refs, call, fuse>>
        /\ UNCHANGED <<lists, freed, ref_delta, owed, link, space>>

\* Is w the count of a group whose last reference is being given up?  The
\* faulty variant is off by one.
NearlyLastReference(w) == IsTaggedRefcount(w) /\ w.val <= 2
LastReference(w) == w = TaggedFromRefcount(1)

\* What upb_Arena_Free does with the word it has just read from ai.
FreeWith(t, word) ==
    /\ \/ /\ IsTaggedPointer(word)
          /\ find' = [find EXCEPT ![t].ai = word.val]
          /\ Goto(t, "free_load")
       \/ /\ LastReference(word)
          /\ Goto(t, "do_free")
          /\ UNCHANGED find
       \/ /\ IsTaggedRefcount(word) /\ ~LastReference(word)
          /\ find' = [find EXCEPT ![t].poc = word]
          /\ Goto(t, "free_cas")
    /\ UNCHANGED <<call, fuse>>

FreeLoad(t) ==
    /\ At(t, "free_load")
    /\ FreeWith(t, parent_or_count[find[t].ai])
    /\ UNCHANGED <<memory, refs, ref_delta, owed, link, space>>

\* Drop one of several references, or act on the word that got in the way.
FreeCAS(t) ==
    LET f == find[t]
    IN  /\ At(t, "free_cas")
        /\ \/ /\ parent_or_count[f.ai] = f.poc
              /\ parent_or_count' = [parent_or_count EXCEPT
                     ![f.ai] = TaggedFromRefcount(f.poc.val - 1)]
              /\ Finish(t, "true")
           \/ /\ parent_or_count[f.ai] # f.poc
              /\ FreeWith(t, parent_or_count[f.ai])
              /\ UNCHANGED parent_or_count
        /\ UNCHANGED <<lists, freed, refs, ref_delta, owed, link, space>>

\* The walk along a list goes on at a, without leaving the loop it is in.
WalkTo(t, a) ==
    /\ find' = [find EXCEPT ![t].ai = a]
    /\ UNCHANGED <<pc, call, fuse>>

\* _upb_Arena_DoFree: free one arena of the list, having loaded its next.
DoFree(t) ==
    LET ai == find[t].ai
    IN  /\ At(t, "do_free")
        /\ freed' = freed \cup {ai}
        /\ \/ next[ai] = NULL /\ Finish(t, "true")
           \/ next[ai] # NULL /\ WalkTo(t, next[ai])
        /\ UNCHANGED <<parent_or_count, lists, refs, ref_delta, owed, link, space>>

\* SpaceAllocated adds arena a to what it has counted.
Count(t, a) ==
    space' = [space EXCEPT ![t] =
                  [counted |-> space[t].counted \cup {a},
                   fused_count |-> space[t].fused_count + 1,
                   visible |-> space[t].visible]]

\* The head of the list is reached: go forward from the arena itself (in the
\* faulty variant: from the head).
TurnAroundAtHead(t) == Goto(t, "space_forward") /\ UNCHANGED <<call, find, fuse, space>>
TurnAround(t) ==
    /\ find' = [find EXCEPT ![t].ai = call[t].a]
    /\ Goto(t, "space_forward")
    /\ UNCHANGED <<call, fuse, space>>

\* Count the arenas reached over previous pointers, then turn around.
SpaceBackward(t) ==
    LET word == previous_or_tail[find[t].ai]
    IN  /\ At(t, "space_backward")
        /\ \/ IsTaggedTail(word) /\ TurnAround(t)
           \/ /\ ~IsTaggedTail(word)
              /\ Count(t, word.val)
              /\ WalkTo(t, word.val)
        /\ UNCHANGED <<memory, refs, ref_delta, owed, link>>

\* Count the arena itself and those that follow it.
SpaceForward(t) ==
    LET ai == find[t].ai
    IN  /\ At(t, "space_forward")
        /\ Count(t, ai)
        /\ \/ next[ai] = NULL /\ Finish(t, "true")
           \/ next[ai] # NULL /\ WalkTo(t, next[ai])
        /\ UNCHANGED <<memory, refs, ref_delta, owed, link>>

----------------------------------------------------------------------------
Start(t) ==
    \/ \E p \in Pairs : StartFuse(t, p[1], p[2]) \/ StartIsFused(t, p[1], p[2])
    \/ \E a \in Arena : \/ StartIncRef(t, a)
                        \/ StartFree(t, a)
                        \/ StartSpaceAllocated(t, a)

Step(t) ==
    \/ Return(t)
    \/ FindRootLoad(t) \/ FindRootReload(t) \/ FindRootNext(t) \/ FindRootSplit(t)
    \/ DoFuseAddRefs(t) \/ DoFuseReparent(t)
    \/ LinkForwardStart(t) \/ LinkForwardWalk(t) \/ LinkForwardCAS(t)
    \/ UpdateTailChild(t) \/ UpdateTailParent(t) \/ UpdateTailCAS(t)
    \/ LinkBackward(t)
    \/ FixupRefsLoad(t) \/ FixupRefsCAS(t)
    \/ IncRefCAS(t) \/ FreeLoad(t) \/ FreeCAS(t) \/ DoFree(t)
    \/ SpaceBackward(t) \/ SpaceForward(t)

Next == \E t \in Thread : Start(t) \/ Step(t)

Spec == Init /\ [][Next]_vars

\* Of the threads inside calls some one keeps running, while the others may be
\* stopped for ever wherever they are; nobody is obliged to make calls.  A weak
\* exchange may fail for no reason, but does not always.
IncRefSucceeds(t) == IncRefCAS(t) /\ pc'[t] = "return"
IncRefFails(t) ==
    IncRefCAS(t) /\ parent_or_count[find[t].ai] = find[t].poc /\ pc'[t] # "return"
FairSpec ==
    /\ Spec
    /\ WF_vars(\E t \in Thread : Step(t))
    /\ \A t \in Thread :
           []<><<IncRefFails(t)>>_vars => []<><<IncRefSucceeds(t)>>_vars

----------------------------------------------------------------------------
(***************************************************************************)
(* Properties.                                                             *)
(***************************************************************************)
Label == {"idle", "return", "find_load", "find_reload", "find_next", "find_split",
          "add_refs", "reparent", "link_tail", "link_next", "link_cas",
          "tail_child", "tail_parent", "tail_cas", "link_back", "fixup_load",
          "fixup_cas", "incref_cas", "free_load", "free_cas", "do_free",
          "space_backward", "space_forward"}
MaybeArena == Arena \cup {NULL}
RootResult == [root : MaybeArena, count : Int]
CallFrame == [op : Op \cup {"none"}, a : MaybeArena, b : MaybeArena,
              was : {"none", "true", "false"}, res : {"none", "true", "false"}]
FindFrame == [ai : MaybeArena, up : MaybeArena, poc : Word,
              ret : {"none", "r1", "r2", "ra", "rb", "tmp", "incref"}]
FuseFrame == [ai1 : MaybeArena, ai2 : MaybeArena, r1 : RootResult, r2 : RootResult]
LinkFrame == [tail : MaybeArena, new_tail : MaybeArena, old_tail : MaybeArena]
SpaceFrame == [counted : SUBSET Arena, fused_count : Nat, visible : SUBSET Arena]

\* The shape of every word of shared memory and of every stack frame.
TypeOK ==
    /\ parent_or_count \in [Arena -> Word]
    /\ next \in [Arena -> MaybeArena]
    /\ previous_or_tail \in [Arena -> ListWord]
    /\ freed \in SUBSET Arena
    /\ refs \in [Arena -> Nat]
    /\ pc \in [Thread -> Label]
    /\ call \in [Thread -> CallFrame]
    /\ find \in [Thread -> FindFrame]
    /\ fuse \in [Thread -> FuseFrame]
    /\ ref_delta \in [Thread -> Int]
    /\ owed \in [Thread -> [Arena -> Int]]
    /\ link \in [Thread -> LinkFrame]
    /\ space \in [Thread -> SpaceFrame]

\* Parent pointers lead to strictly lower addresses, so that no interleaving
\* of fuses and path splittings can close a cycle and every walk to the root
\* ends ("Avoid cycles by always fusing into the root with the lower address").
ParentBelow ==
    \A a \in Arena : IsTaggedPointer(parent_or_count[a]) =>
                         parent_or_count[a].val < a

\* The strengthening that makes ParentBelow inductive.  What a thread has read
\* may be out of date, but the addresses it holds are still ordered, because
\* pointers only ever came from higher to lower addresses: of a walk, what is
\* above the cursor; of a fuse, the parent-to-be and the child.
Finding == {"find_load", "find_reload", "find_next", "find_split"}
Linking == {"link_tail", "link_next", "link_cas", "tail_child", "tail_parent",
            "tail_cas", "link_back"}
Linked == {"tail_child", "tail_parent", "tail_cas", "link_back"}

WalkOrdered(t) ==
    LET f == find[t]
    IN  /\ pc[t] \in Finding \cup {"incref_cas", "free_load", "free_cas", "do_free",
                                   "space_backward", "space_forward"} => f.ai \in Arena
        /\ At(t, "find_reload") => IsTaggedPointer(parent_or_count[f.ai])
        /\ At(t, "find_next") => IsTaggedPointer(f.poc) /\ f.poc.val < f.ai
        /\ At(t, "find_split") => /\ f.up \in Arena /\ IsTaggedPointer(f.poc)
                                  /\ f.poc.val < f.up /\ f.up < f.ai
        /\ pc[t] \in {"incref_cas", "free_cas", "fixup_cas"} => IsTaggedRefcount(f.poc)
        /\ pc[t] \in {"incref_cas", "space_backward"} => call[t].a \in Arena
        /\ pc[t] \in Finding => f.ret # "none"
        /\ pc[t] \in Finding /\ f.ret = "incref" => call[t].a \in Arena

FuseOrdered(t) ==
    LET f == fuse[t]
    IN  /\ pc[t] \in Finding /\ find[t].ret \in {"r1", "r2", "rb", "tmp"} =>
               f.ai1 \in Arena /\ f.ai2 \in Arena
        /\ pc[t] \in Finding /\ find[t].ret = "ra" => f.ai2 \in Arena
        /\ pc[t] \in Finding /\ find[t].ret = "r2" => f.r1.root \in Arena
        /\ pc[t] \in Linking \cup {"add_refs", "reparent", "fixup_load", "fixup_cas"} =>
               f.ai1 \in Arena /\ f.ai2 \in Arena /\ f.r1.root \in Arena
        /\ pc[t] \in Linking \cup {"add_refs", "reparent"} =>
               f.r2.root \in Arena /\ f.r1.root < f.r2.root
        /\ pc[t] \in Linking \ {"link_tail"} => link[t].tail \in Arena
        /\ pc[t] \in {"tail_parent", "tail_cas"} => link[t].new_tail \in Arena

\* Type correctness, order in memory and order in every frame.
OrderInv ==
    /\ TypeOK
    /\ ParentBelow
    /\ \A t \in Thread : WalkOrdered(t) /\ FuseOrdered(t)

\* "If this Arena isn't a root, it can't ever become one": FindRoot's second
\* load relies on it, and so does everyone who caches a non-root.
NeverRootAgain ==
    [][\A a \in Arena : IsTaggedPointer(parent_or_count[a]) =>
                            IsTaggedPointer(parent_or_count'[a])]_vars

\* Threads that are inside Free and have not given up their reference yet.
Releasing(a) ==
    {t \in Thread : /\ pc[t] \in {"free_load", "free_cas", "do_free"}
                    /\ call[t].a \in Group(a)}

OwedTo(S) == SumOver(Thread, LAMBDA t : SumOver(S, LAMBDA a : owed[t][a]))

\* The count at the root of a group is exactly the references held on its
\* members, those being given up, and the excess that racing fuses have added
\* and still know about: no interleaving of fuse, increment and free loses or
\* invents a reference.
RefsConserved ==
    /\ \A r \in Arena \ freed :
           IsTaggedRefcount(parent_or_count[r]) =>
               parent_or_count[r].val =
                   RefsOn(Group(r)) + Cardinality(Releasing(r)) + OwedTo(Group(r))
    /\ \A t \in Thread :
           pc[t] # "reparent" =>
               ref_delta[t] = SumOver(Arena, LAMBDA a : owed[t][a])

\* The arenas whose memory a thread reads or writes with its next step.
Touches(t) ==
    CASE pc[t] \in {"find_load", "find_reload", "find_split", "incref_cas",
                    "free_load", "free_cas", "do_free", "space_backward",
                    "space_forward"} -> {find[t].ai}
      [] pc[t] = "find_next" -> {find[t].poc.val}
      [] pc[t] \in {"add_refs", "link_tail", "tail_parent", "tail_cas",
                    "fixup_load", "fixup_cas"} -> {fuse[t].r1.root}
      [] pc[t] \in {"reparent", "tail_child", "link_back"} -> {fuse[t].r2.root}
      [] pc[t] \in {"link_next", "link_cas"} -> {link[t].tail}
      [] OTHER -> {}

\* No step of any call touches freed memory (or NULL), no arena is freed twice,
\* and no arena is freed while an arena fused with it is still referenced.
MemorySafe ==
    /\ \A t \in Thread : Touches(t) \subseteq Arena \ freed
    /\ \A a \in freed : \A b \in Group(a) : refs[b] = 0

\* The UPB_ASSERTs of arena.c: the reload in FindRoot yields a pointer, to
\* another arena; the child's word is still a tail when it is linked; DoFree
\* starts at a count of one; FixupRefs leaves a positive count.
AssertsHold ==
    \A t \in Thread :
        /\ At(t, "find_reload") => IsTaggedPointer(parent_or_count[find[t].ai])
        /\ At(t, "find_next") => /\ IsTaggedPointer(find[t].poc)
                                 /\ find[t].poc.val # find[t].ai
        /\ At(t, "tail_child") => IsTaggedTail(previous_or_tail[fuse[t].r2.root])
        /\ (At(t, "do_free") /\ Group(find[t].ai) \cap freed = {}) =>
               parent_or_count[find[t].ai] = TaggedFromRefcount(1)
        /\ At(t, "fixup_cas") => find[t].poc.val > ref_delta[t]

\* "a->previous_or_tail->next == a": the backward list mirrors the forward
\* one, although a fuse sets the two links in separate steps.
PreviousPointsBack ==
    \A a \in Arena : ~IsTaggedTail(previous_or_tail[a]) =>
                         next[previous_or_tail[a].val] = a

\* Links are set once: next leaves NULL only once and a previous pointer is
\* "immutable", which is what lets SpaceAllocated walk while others fuse.
LinksFinal ==
    [][\A a \in Arena :
           /\ next[a] # NULL => next'[a] = next[a]
           /\ ~IsTaggedTail(previous_or_tail[a]) =>
                  previous_or_tail'[a] = previous_or_tail[a]]_vars

\* A cached tail, however stale, "will always be a valid node in the list",
\* and when no call is running the list of a root holds exactly the arenas of
\* its group, which is what DoFree frees.
ListsSound ==
    /\ \A a \in Arena : IsTaggedTail(previous_or_tail[a]) =>
                            previous_or_tail[a].val \in ListFrom(a)
    /\ (\A t \in Thread : pc[t] = "idle") =>
           \A a \in Arena : ListFrom(Root[a]) = Group(a)

\* Arenas fused together are freed together, when the last reference on any
\* of them is gone, and not before.
FreedTogether ==
    (\A t \in Thread : pc[t] = "idle") =>
        \A a \in Arena : a \in freed <=> RefsOn(Group(a)) = 0

\* upb_Arena_Fuse reports whether the lifetimes are joined, and if it says so
\* they are.
FuseResult ==
    \A t \in Thread : (At(t, "return") /\ call[t].op = "fuse") =>
        LET c == call[t]
        IN  c.res = Answer(Root[c.a] = Root[c.b])

\* upb_Arena_IsFused may say yes only for fused arenas, and may say no only if
\* they were not yet fused when it was called, whatever fuses race with it.
IsFusedResult ==
    \A t \in Thread : (At(t, "return") /\ call[t].op = "isfused") =>
        LET c == call[t]
        IN  /\ c.res = "true" => Root[c.a] = Root[c.b]
            /\ c.res = "false" => c.was = "false"

\* upb_Arena_SpaceAllocated counts every arena once, only fused ones, and at
\* least those that were on the list when it was called, so that "any arena
\* counted by a previous invocation is counted by this one".
SpaceMonotone ==
    \A t \in Thread : (At(t, "return") /\ call[t].op = "space") =>
        LET s == space[t]
        IN  /\ s.fused_count = Cardinality(s.counted)
            /\ s.visible \subseteq s.counted
            /\ s.counted \subseteq Group(call[t].a)

\* The algorithm is lock-free.  A compare-exchange fails only because another
\* call got further, so that while calls are running some call returns again and
\* again, though a thread may be stopped in the middle of a call for ever.  (It
\* is not wait-free: endless increments and releases by others can keep one
\* fuse, increment or release retrying.)
LockFree ==
    \/ []<>(\A t \in Thread : At(t, "idle"))
    \/ []<><<\E t \in Thread : Return(t)>>_vars

\* If every thread inside a call keeps running, a group nobody references any
\* more is given back to the allocator.
GroupReclaimed ==
    (\A t \in Thread : WF_vars(Step(t))) =>
        \A a \in Arena : (RefsOn(Group(a)) = 0) ~> (a \in freed)

\* The lock-free algorithm implements the atomic promise of ArenaGroups: a fuse
\* takes effect when the second compare-exchange succeeds, a release when Free
\* is called, and memory goes back only once its whole group is unreferenced.
Groups == INSTANCE ArenaGroups WITH groups <- {Group(a) : a \in Arena}
ImplementsGroups == Groups!Spec
============================================================================
