--------------------------- MODULE ArenaFuseProofs ---------------------------
(***************************************************************************)
(* Proofs about ArenaFuse, for any number of arenas and threads.  A step   *)
(* of a thread is split in two: what it does to memory (MemoryStep) and    *)
(* what it does to the thread's own frames (StackStep).  OrderFromParts    *)
(* puts the two together.                                                  *)
(***************************************************************************)
EXTENDS ArenaFuse, WellFoundedInduction, TLAPS

----------------------------------------------------------------------------
(***************************************************************************)
(* Types of addresses, words and frames.                                   *)
(***************************************************************************)

\* Addresses are numbers other than NULL.
LEMMA ArenaNat == \A a \in Arena : a \in Nat /\ a # NULL
BY ArenaAssumption DEF NULL

\* What may be in a pointer variable: NULL or an arena.
LEMMA ArenaMaybe ==
    /\ NULL \in MaybeArena
    /\ \A a \in Arena : a \in MaybeArena
    /\ \A a \in MaybeArena : a # NULL => a \in Arena
BY DEF MaybeArena

\* A Boolean result of a call is one of the two answers.
LEMMA AnswerTyped == \A p, q : Answer(p = q) \in {"none", "true", "false"}
BY DEF Answer

\* A word of the list, tail or previous, names an arena.
LEMMA ListWordTyped ==
    /\ \A w \in ListWord : w.val \in Arena
    /\ \A a \in Arena : TaggedFromTail(a) \in ListWord /\ TaggedFromPrevious(a) \in ListWord
BY DEF ListWord, TaggedFromTail, TaggedFromPrevious

\* The two tagged forms are words of memory.
LEMMA WordTyped ==
    /\ \A n \in Int : TaggedFromRefcount(n) \in Word
    /\ \A a \in Arena : TaggedFromPointer(a) \in Word
BY DEF TaggedFromRefcount, TaggedFromPointer, Word

\* A word is either a count or a pointer to an arena.
LEMMA WordCases ==
    \A w \in Word : \/ IsTaggedRefcount(w) /\ ~IsTaggedPointer(w) /\ w.val \in Int
                    \/ IsTaggedPointer(w) /\ ~IsTaggedRefcount(w) /\ w.val \in Arena
BY DEF Word, IsTaggedRefcount, IsTaggedPointer

\* What the tag of a word that was just built says.
LEMMA TagOfWord ==
    /\ \A n : ~IsTaggedPointer(TaggedFromRefcount(n)) /\ IsTaggedRefcount(TaggedFromRefcount(n))
    /\ \A a : /\ IsTaggedPointer(TaggedFromPointer(a)) /\ TaggedFromPointer(a).val = a
              /\ ~IsTaggedRefcount(TaggedFromPointer(a))
BY DEF TaggedFromRefcount, TaggedFromPointer, IsTaggedPointer, IsTaggedRefcount

\* The frame constructors build frames.
LEMMA FramesBuilt ==
    /\ \A op \in Op \cup {"none"}, a, b \in MaybeArena, was, res \in {"none", "true", "false"} :
           CallOf(op, a, b, was, res) \in CallFrame
    /\ \A a \in MaybeArena, ret \in {"none", "r1", "r2", "ra", "rb", "tmp", "incref"} :
           FindFrom(a, ret) \in FindFrame
    /\ \A a, b \in MaybeArena : FuseOf(a, b) \in FuseFrame
    /\ NoLink \in LinkFrame
<1>1. \A op \in Op \cup {"none"}, a, b \in MaybeArena, was, res \in {"none", "true", "false"} :
           CallOf(op, a, b, was, res) \in CallFrame
  BY DEF CallOf, CallFrame
<1>2. \A a \in MaybeArena, ret \in {"none", "r1", "r2", "ra", "rb", "tmp", "incref"} :
           FindFrom(a, ret) \in FindFrame
  BY WordTyped, ArenaMaybe DEF FindFrom, FindFrame
<1>3. \A a, b \in MaybeArena : FuseOf(a, b) \in FuseFrame
  BY ArenaMaybe DEF FuseOf, FuseFrame, NoRoot, RootResult
<1>4. NoLink \in LinkFrame
  BY ArenaMaybe DEF NoLink, LinkFrame
<1>5. QED
  BY <1>1, <1>2, <1>3, <1>4

\* Moving the cursor of a walk leaves a frame.
LEMMA CursorMoved ==
    ASSUME find \in [Thread -> FindFrame], NEW t \in Thread, NEW a \in MaybeArena,
           find' = [find EXCEPT ![t].ai = a]
    PROVE  find' \in [Thread -> FindFrame] /\ find'[t].ai = a
<1>1. find[t] \in FindFrame
  OBVIOUS
<1>2. [find[t] EXCEPT !.ai = a] \in FindFrame /\ [find[t] EXCEPT !.ai = a].ai = a
  BY <1>1 DEF FindFrame
<1>3. find' = [find EXCEPT ![t] = [find[t] EXCEPT !.ai = a]]
  OBVIOUS
<1>4. QED
  BY <1>2, <1>3

----------------------------------------------------------------------------
(***************************************************************************)
(* A step in two parts.                                                    *)
(***************************************************************************)
MemoryTyped ==
    /\ parent_or_count \in [Arena -> Word]
    /\ next \in [Arena -> MaybeArena]
    /\ previous_or_tail \in [Arena -> ListWord]
    /\ freed \in SUBSET Arena
    /\ refs \in [Arena -> Nat]
    /\ ref_delta \in [Thread -> Int]
    /\ owed \in [Thread -> [Arena -> Int]]
    /\ space \in [Thread -> SpaceFrame]

StackTyped ==
    /\ pc \in [Thread -> Label]
    /\ call \in [Thread -> CallFrame]
    /\ find \in [Thread -> FindFrame]
    /\ fuse \in [Thread -> FuseFrame]
    /\ link \in [Thread -> LinkFrame]

NonRootsStay ==
    \A a \in Arena : IsTaggedPointer(parent_or_count[a]) =>
                         IsTaggedPointer(parent_or_count'[a])

OthersSame(t) ==
    \A u \in Thread \ {t} :
        /\ pc'[u] = pc[u] /\ call'[u] = call[u] /\ find'[u] = find[u]
        /\ fuse'[u] = fuse[u] /\ link'[u] = link[u]

MemoryStep == MemoryTyped' /\ ParentBelow' /\ NonRootsStay

OrderStep == OrderInv' /\ NonRootsStay

StackStep(t) ==
    /\ StackTyped' /\ OthersSame(t)
    /\ WalkOrdered(t)' /\ FuseOrdered(t)'

\* A thread that keeps memory ordered and its own frames ordered keeps the
\* invariant: what the other threads know cannot become wrong, because an
\* arena that is not a root never becomes one again.
LEMMA OrderFromParts ==
    ASSUME OrderInv, NEW t \in Thread, MemoryStep, StackStep(t)
    PROVE  OrderStep
<1>1. ASSUME NEW u \in Thread, u # t
      PROVE  WalkOrdered(u)' /\ FuseOrdered(u)'
  <2>1. /\ pc'[u] = pc[u] /\ call'[u] = call[u] /\ find'[u] = find[u]
        /\ fuse'[u] = fuse[u] /\ link'[u] = link[u]
    BY <1>1 DEF StackStep, OthersSame
  <2>2. WalkOrdered(u) /\ FuseOrdered(u)
    BY DEF OrderInv
  <2>3. pc[u] \in Finding => find[u].ai \in Arena
    BY <2>2 DEF WalkOrdered
  <2>4. WalkOrdered(u)'
    BY <2>1, <2>2, <2>3 DEF MemoryStep, NonRootsStay, WalkOrdered, At, Finding
  <2>5. FuseOrdered(u)'
    BY <2>1, <2>2 DEF FuseOrdered
  <2>6. QED
    BY <2>4, <2>5
<1>2. TypeOK'
  BY DEF TypeOK, MemoryStep, StackStep, MemoryTyped, StackTyped
<1>3. QED
  BY <1>1, <1>2 DEF OrderInv, MemoryStep, StackStep, OrderStep

----------------------------------------------------------------------------
(***************************************************************************)
(* The memory part.                                                        *)
(***************************************************************************)

\* A step that writes no memory.
LEMMA MemorySame ==
    ASSUME OrderInv, UNCHANGED <<memory, refs, ref_delta, owed, space>>
    PROVE  MemoryStep
<1>1. MemoryTyped'
  BY DEF OrderInv, TypeOK, MemoryTyped, memory
<1>2. ParentBelow' /\ NonRootsStay
  BY DEF OrderInv, memory, ParentBelow, NonRootsStay
<1>3. QED
  BY <1>1, <1>2 DEF MemoryStep

\* A step that leaves the parent pointers and counts alone.
LEMMA ParentsSame ==
    ASSUME OrderInv, MemoryTyped', UNCHANGED parent_or_count
    PROVE  MemoryStep
BY DEF OrderInv, ParentBelow, NonRootsStay, MemoryStep

\* A step that changes a count into another count.
LEMMA CountChanges ==
    ASSUME OrderInv, MemoryTyped', NEW r \in Arena, NEW n \in Int,
           IsTaggedRefcount(parent_or_count[r]),
           parent_or_count' = [parent_or_count EXCEPT ![r] = TaggedFromRefcount(n)]
    PROVE  MemoryStep
<1>1. \A c \in Arena \ {r} : parent_or_count'[c] = parent_or_count[c]
  BY DEF OrderInv, TypeOK
<1>2. parent_or_count'[r] = TaggedFromRefcount(n)
  BY DEF OrderInv, TypeOK
<1>3. ~IsTaggedPointer(parent_or_count[r]) /\ ~IsTaggedPointer(parent_or_count'[r])
  BY <1>2, TagOfWord DEF IsTaggedRefcount, IsTaggedPointer
<1>4. QED
  BY <1>1, <1>3 DEF OrderInv, MemoryStep, ParentBelow, NonRootsStay

\* A step that stores a pointer to a lower address.
LEMMA PointerStored ==
    ASSUME OrderInv, MemoryTyped', NEW a \in Arena, NEW w \in Word,
           IsTaggedPointer(w), w.val < a,
           parent_or_count' = [parent_or_count EXCEPT ![a] = w]
    PROVE  MemoryStep
<1>1. \A c \in Arena \ {a} : parent_or_count'[c] = parent_or_count[c]
  BY DEF OrderInv, TypeOK
<1>2. parent_or_count'[a] = w
  BY DEF OrderInv, TypeOK
<1>3. QED
  BY <1>1, <1>2 DEF OrderInv, MemoryStep, ParentBelow, NonRootsStay

----------------------------------------------------------------------------
(***************************************************************************)
(* The stack part of the helpers.                                          *)
(***************************************************************************)

\* A thread that is about to return, or idle, knows nothing that could be out
\* of order.
LEMMA QuietStack ==
    ASSUME NEW t \in Thread, StackTyped', OthersSame(t),
           pc'[t] \in {"idle", "return"}
    PROVE  StackStep(t)
BY DEF StackStep, WalkOrdered, FuseOrdered, Finding, Linking, At

\* Finish(t, res).
LEMMA FinishStack ==
    ASSUME OrderInv, NEW t \in Thread, NEW res \in {"true", "false"},
           Finish(t, res), UNCHANGED link
    PROVE  StackStep(t)
<1>1. call' \in [Thread -> CallFrame]
  BY DEF OrderInv, TypeOK, Finish, CallFrame
<1>2. pc' \in [Thread -> Label] /\ pc'[t] = "return"
  BY DEF OrderInv, TypeOK, Finish, Goto, Label
<1>3. StackTyped'
  BY <1>1, <1>2 DEF OrderInv, TypeOK, StackTyped, Finish
<1>4. OthersSame(t)
  BY DEF OrderInv, TypeOK, OthersSame, Finish, Goto
<1>5. QED
  BY <1>2, <1>3, <1>4, QuietStack

\* CallFindRoot(t, a, ret), with the frame of the caller in place.
LEMMA CallFindRootStack ==
    ASSUME OrderInv, NEW t \in Thread, NEW a \in Arena,
           NEW ret \in {"r1", "r2", "ra", "rb", "tmp", "incref"},
           CallFindRoot(t, a, ret), UNCHANGED link,
           call' \in [Thread -> CallFrame], fuse' \in [Thread -> FuseFrame],
           \A u \in Thread \ {t} : call'[u] = call[u] /\ fuse'[u] = fuse[u],
           ret = "incref" => call'[t].a \in Arena,
           ret # "incref" => fuse'[t].ai2 \in Arena,
           ret \notin {"incref", "ra"} => fuse'[t].ai1 \in Arena,
           ret = "r2" => fuse'[t].r1.root \in Arena
    PROVE  StackStep(t)
<1>1. find' \in [Thread -> FindFrame]
  BY FramesBuilt, ArenaMaybe DEF OrderInv, TypeOK, CallFindRoot
<1>2. find'[t].ai = a /\ find'[t].ret = ret
  BY DEF OrderInv, TypeOK, CallFindRoot, FindFrom
<1>3. pc' \in [Thread -> Label] /\ pc'[t] = "find_load"
  BY DEF OrderInv, TypeOK, CallFindRoot, Goto, Label
<1>4. StackTyped'
  BY <1>1, <1>3 DEF OrderInv, TypeOK, StackTyped
<1>5. OthersSame(t)
  BY DEF OrderInv, TypeOK, OthersSame, CallFindRoot, Goto
<1>6. WalkOrdered(t)'
  BY <1>2, <1>3 DEF WalkOrdered, Finding, At
<1>7. FuseOrdered(t)'
  BY <1>2, <1>3 DEF FuseOrdered, Finding, Linking
<1>8. QED
  BY <1>4, <1>5, <1>6, <1>7 DEF StackStep

\* Retry(t): the loop of upb_Arena_Fuse starts over.
LEMMA RetryStack ==
    ASSUME OrderInv, NEW t \in Thread, fuse[t].ai1 \in Arena, fuse[t].ai2 \in Arena,
           Retry(t), UNCHANGED link
    PROVE  StackStep(t)
<1>1. fuse' \in [Thread -> FuseFrame]
  BY FramesBuilt, ArenaMaybe DEF OrderInv, TypeOK, Retry
<1>2. fuse'[t].ai1 \in Arena /\ fuse'[t].ai2 \in Arena
  BY DEF OrderInv, TypeOK, Retry, FuseOf
<1>3. call' \in [Thread -> CallFrame]
  BY DEF OrderInv, TypeOK, Retry
<1>4. \A u \in Thread \ {t} : call'[u] = call[u] /\ fuse'[u] = fuse[u]
  BY DEF OrderInv, TypeOK, Retry
<1>5. CallFindRoot(t, fuse[t].ai1, "r1")
  BY DEF Retry
<1>6. QED
  BY <1>1, <1>2, <1>3, <1>4, <1>5, CallFindRootStack

\* WalkTo(t, a): only the cursor moves.
LEMMA WalkToStack ==
    ASSUME OrderInv, NEW t \in Thread, NEW a \in Arena,
           pc[t] \in {"do_free", "space_backward", "space_forward"},
           WalkTo(t, a), UNCHANGED link
    PROVE  StackStep(t)
<1>1. find' = [find EXCEPT ![t].ai = a]
  BY DEF WalkTo
<1>2. find' \in [Thread -> FindFrame] /\ find'[t].ai = a
  BY <1>1, CursorMoved, ArenaMaybe DEF OrderInv, TypeOK
<1>3. StackTyped'
  BY <1>2 DEF OrderInv, TypeOK, StackTyped, WalkTo
<1>4. OthersSame(t)
  BY DEF OrderInv, TypeOK, OthersSame, WalkTo
<1>5. WalkOrdered(t)'
  BY <1>2 DEF OrderInv, WalkOrdered, Finding, At, WalkTo
<1>6. FuseOrdered(t)'
  BY DEF FuseOrdered, Finding, Linking, WalkTo
<1>7. QED
  BY <1>3, <1>4, <1>5, <1>6 DEF StackStep

\* FreeWith(t, w): go up, free the group, or try to drop a reference.
LEMMA FreeWithStack ==
    ASSUME OrderInv, NEW t \in Thread, NEW w \in Word, find[t].ai \in Arena,
           FreeWith(t, w), UNCHANGED link
    PROVE  StackStep(t)
<1>1. CASE /\ IsTaggedPointer(w)
           /\ find' = [find EXCEPT ![t].ai = w.val]
           /\ Goto(t, "free_load")
  <2>1. w.val \in Arena
    BY <1>1, WordCases
  <2>2. find' \in [Thread -> FindFrame] /\ find'[t].ai \in Arena
    BY <1>1, <2>1, ArenaMaybe, CursorMoved DEF OrderInv, TypeOK
  <2>3. pc' \in [Thread -> Label] /\ pc'[t] = "free_load"
    BY <1>1 DEF OrderInv, TypeOK, Goto, Label
  <2>4. StackTyped'
    BY <2>2, <2>3 DEF OrderInv, TypeOK, StackTyped, FreeWith
  <2>5. OthersSame(t)
    BY <1>1 DEF OrderInv, TypeOK, OthersSame, FreeWith, Goto
  <2>6. WalkOrdered(t)' /\ FuseOrdered(t)'
    BY <2>2, <2>3 DEF WalkOrdered, FuseOrdered, Finding, Linking, At
  <2>7. QED
    BY <2>4, <2>5, <2>6 DEF StackStep
<1>2. CASE /\ w = TaggedFromRefcount(1)
           /\ Goto(t, "do_free")
           /\ UNCHANGED find
  <2>1. pc' \in [Thread -> Label] /\ pc'[t] = "do_free"
    BY <1>2 DEF OrderInv, TypeOK, Goto, Label
  <2>2. StackTyped'
    BY <1>2, <2>1 DEF OrderInv, TypeOK, StackTyped, FreeWith
  <2>3. OthersSame(t)
    BY <1>2 DEF OrderInv, TypeOK, OthersSame, FreeWith, Goto
  <2>4. WalkOrdered(t)' /\ FuseOrdered(t)'
    BY <1>2, <2>1 DEF WalkOrdered, FuseOrdered, Finding, Linking, At
  <2>5. QED
    BY <2>2, <2>3, <2>4 DEF StackStep
<1>3. CASE /\ IsTaggedRefcount(w)
           /\ find' = [find EXCEPT ![t].poc = w]
           /\ Goto(t, "free_cas")
  <2>1. find' \in [Thread -> FindFrame] /\ find'[t].ai \in Arena /\ find'[t].poc = w
    BY <1>3 DEF OrderInv, TypeOK, FindFrame
  <2>2. pc' \in [Thread -> Label] /\ pc'[t] = "free_cas"
    BY <1>3 DEF OrderInv, TypeOK, Goto, Label
  <2>3. StackTyped'
    BY <2>1, <2>2 DEF OrderInv, TypeOK, StackTyped, FreeWith
  <2>4. OthersSame(t)
    BY <1>3 DEF OrderInv, TypeOK, OthersSame, FreeWith, Goto
  <2>5. WalkOrdered(t)' /\ FuseOrdered(t)'
    BY <1>3, <2>1, <2>2 DEF WalkOrdered, FuseOrdered, Finding, Linking, At
  <2>6. QED
    BY <2>3, <2>4, <2>5 DEF StackStep
<1>4. QED
  BY <1>1, <1>2, <1>3 DEF FreeWith, LastReference

----------------------------------------------------------------------------
(***************************************************************************)
(* One lemma per action: it preserves OrderInv.                            *)
(***************************************************************************)

\* upb_Arena_Fuse, entry.
LEMMA StartFuseOrdered ==
    ASSUME OrderInv, NEW t \in Thread, NEW a \in Arena, NEW b \in Arena,
           StartFuse(t, a, b)
    PROVE  OrderStep
<1>1. MemoryStep
  BY MemorySame DEF StartFuse
<1>2. call' \in [Thread -> CallFrame] /\ \A u \in Thread \ {t} : call'[u] = call[u]
  <2>1. CallOf("fuse", a, b, "none", Answer(a = b)) \in CallFrame
    BY FramesBuilt, ArenaMaybe, AnswerTyped DEF Op
  <2>2. QED
    BY <2>1 DEF OrderInv, TypeOK, StartFuse
<1>3. CASE a = b \/ a \in HasInitialBlock \/ b \in HasInitialBlock
  <2>1. Goto(t, "return") /\ UNCHANGED <<find, fuse, link>>
    BY <1>3 DEF StartFuse
  <2>2. StackTyped' /\ OthersSame(t) /\ pc'[t] = "return"
    BY <1>2, <2>1 DEF OrderInv, TypeOK, StackTyped, OthersSame, Goto, Label
  <2>3. QED
    BY <1>1, <2>2, QuietStack, OrderFromParts
<1>4. CASE a # b /\ a \notin HasInitialBlock /\ b \notin HasInitialBlock
  <2>1. CallFindRoot(t, a, "r1") /\ UNCHANGED link
    BY <1>4 DEF StartFuse
  <2>2. fuse' \in [Thread -> FuseFrame] /\ \A u \in Thread \ {t} : fuse'[u] = fuse[u]
    BY <1>4, FramesBuilt, ArenaMaybe DEF OrderInv, TypeOK, StartFuse
  <2>3. fuse'[t].ai1 \in Arena /\ fuse'[t].ai2 \in Arena
    BY <1>4 DEF OrderInv, TypeOK, StartFuse, FuseOf
  <2>4. StackStep(t)
    BY <1>2, <2>1, <2>2, <2>3, CallFindRootStack
  <2>5. QED
    BY <1>1, <2>4, OrderFromParts
<1>5. QED
  BY <1>3, <1>4

\* upb_Arena_IsFused, entry.
LEMMA StartIsFusedOrdered ==
    ASSUME OrderInv, NEW t \in Thread, NEW a \in Arena, NEW b \in Arena,
           StartIsFused(t, a, b)
    PROVE  OrderStep
<1>1. MemoryStep
  BY MemorySame DEF StartIsFused
<1>2. call' \in [Thread -> CallFrame] /\ \A u \in Thread \ {t} : call'[u] = call[u]
  <2>1. CallOf("isfused", a, b, Answer(Root[a] = Root[b]), Answer(a = b)) \in CallFrame
    BY FramesBuilt, ArenaMaybe, AnswerTyped DEF Op
  <2>2. QED
    BY <2>1 DEF OrderInv, TypeOK, StartIsFused
<1>3. CASE a = b
  <2>1. Goto(t, "return") /\ UNCHANGED <<find, fuse, link>>
    BY <1>3 DEF StartIsFused
  <2>2. StackTyped' /\ OthersSame(t) /\ pc'[t] = "return"
    BY <1>2, <2>1 DEF OrderInv, TypeOK, StackTyped, OthersSame, Goto, Label
  <2>3. QED
    BY <1>1, <2>2, QuietStack, OrderFromParts
<1>4. CASE a # b
  <2>1. CallFindRoot(t, a, "ra") /\ UNCHANGED link
    BY <1>4 DEF StartIsFused
  <2>2. fuse' \in [Thread -> FuseFrame] /\ \A u \in Thread \ {t} : fuse'[u] = fuse[u]
    <3>1. FuseOf(NULL, b) \in FuseFrame
      BY FramesBuilt, ArenaMaybe
    <3>2. QED
      BY <1>4, <3>1 DEF OrderInv, TypeOK, StartIsFused
  <2>3. fuse'[t].ai2 \in Arena
    BY <1>4 DEF OrderInv, TypeOK, StartIsFused, FuseOf
  <2>4. StackStep(t)
    BY <1>2, <2>1, <2>2, <2>3, CallFindRootStack
  <2>5. QED
    BY <1>1, <2>4, OrderFromParts
<1>5. QED
  BY <1>3, <1>4

\* upb_Arena_IncRefFor, entry.
LEMMA StartIncRefOrdered ==
    ASSUME OrderInv, NEW t \in Thread, NEW a \in Arena, StartIncRef(t, a)
    PROVE  OrderStep
<1>1. MemoryStep
  <2>1. MemoryTyped'
    BY DEF OrderInv, TypeOK, MemoryTyped, StartIncRef, memory
  <2>2. QED
    BY <2>1, ParentsSame DEF StartIncRef, memory
<1>2. /\ call' \in [Thread -> CallFrame]
      /\ \A u \in Thread \ {t} : call'[u] = call[u]
      /\ call'[t].a \in Arena
  <2>1. CallOf("incref", a, NULL, "none", "false") \in CallFrame
    BY FramesBuilt, ArenaMaybe DEF Op
  <2>2. QED
    BY <2>1 DEF OrderInv, TypeOK, StartIncRef, CallOf
<1>3. UNCHANGED <<fuse, link>>
  BY DEF StartIncRef
<1>4. CASE a \in HasInitialBlock
  <2>1. Goto(t, "return") /\ UNCHANGED find
    BY <1>4 DEF StartIncRef
  <2>2. StackTyped' /\ OthersSame(t) /\ pc'[t] = "return"
    BY <1>2, <1>3, <2>1 DEF OrderInv, TypeOK, StackTyped, OthersSame, Goto, Label
  <2>3. QED
    BY <1>1, <2>2, QuietStack, OrderFromParts
<1>5. CASE a \notin HasInitialBlock
  <2>1. CallFindRoot(t, a, "incref")
    BY <1>5 DEF StartIncRef
  <2>2. fuse' \in [Thread -> FuseFrame] /\ \A u \in Thread \ {t} : fuse'[u] = fuse[u]
    BY <1>3 DEF OrderInv, TypeOK
  <2>3. StackStep(t)
    BY <1>2, <1>3, <2>1, <2>2, CallFindRootStack
  <2>4. QED
    BY <1>1, <2>3, OrderFromParts
<1>6. QED
  BY <1>4, <1>5

\* upb_Arena_Free, entry.
LEMMA StartFreeOrdered ==
    ASSUME OrderInv, NEW t \in Thread, NEW a \in Arena, StartFree(t, a)
    PROVE  OrderStep
<1>1. MemoryStep
  <2>1. refs' \in [Arena -> Nat]
    BY DEF OrderInv, TypeOK, StartFree
  <2>2. MemoryTyped'
    BY <2>1 DEF OrderInv, TypeOK, MemoryTyped, StartFree, memory
  <2>3. QED
    BY <2>2, ParentsSame DEF StartFree, memory
<1>2. CallOf("free", a, NULL, "none", "false") \in CallFrame
  BY FramesBuilt, ArenaMaybe DEF Op
<1>3. FindFrom(a, "none") \in FindFrame /\ FindFrom(a, "none").ai = a
  BY FramesBuilt, ArenaMaybe DEF FindFrom
<1>4. StackTyped' /\ OthersSame(t) /\ pc'[t] = "free_load" /\ find'[t].ai = a
  BY <1>2, <1>3 DEF OrderInv, TypeOK, StackTyped, OthersSame, StartFree, Goto, Label
<1>5. WalkOrdered(t)' /\ FuseOrdered(t)'
  BY <1>4 DEF WalkOrdered, FuseOrdered, Finding, Linking, At
<1>6. QED
  BY <1>1, <1>4, <1>5, OrderFromParts DEF StackStep

\* upb_Arena_SpaceAllocated, entry.
LEMMA StartSpaceAllocatedOrdered ==
    ASSUME OrderInv, NEW t \in Thread, NEW a \in Arena, StartSpaceAllocated(t, a)
    PROVE  OrderStep
<1>1. MemoryStep
  <2>1. space' \in [Thread -> SpaceFrame]
    BY DEF OrderInv, TypeOK, StartSpaceAllocated, SpaceFrame, Visible
  <2>2. MemoryTyped'
    BY <2>1 DEF OrderInv, TypeOK, MemoryTyped, StartSpaceAllocated, memory
  <2>3. QED
    BY <2>2, ParentsSame DEF StartSpaceAllocated, memory
<1>2. CallOf("space", a, NULL, "none", "false") \in CallFrame
  BY FramesBuilt, ArenaMaybe DEF Op
<1>3. FindFrom(a, "none") \in FindFrame /\ FindFrom(a, "none").ai = a
  BY FramesBuilt, ArenaMaybe DEF FindFrom
<1>4. StackTyped' /\ OthersSame(t) /\ pc'[t] = "space_backward" /\ find'[t].ai = a
  BY <1>2, <1>3 DEF OrderInv, TypeOK, StackTyped, OthersSame, StartSpaceAllocated, Goto, Label
<1>5. call'[t].a = a
  BY DEF OrderInv, TypeOK, StartSpaceAllocated, CallOf
<1>6. WalkOrdered(t)' /\ FuseOrdered(t)'
  BY <1>4, <1>5 DEF WalkOrdered, FuseOrdered, Finding, Linking, At
<1>7. QED
  BY <1>1, <1>4, <1>6, OrderFromParts DEF StackStep

\* The end of a call.
LEMMA ReturnOrdered ==
    ASSUME OrderInv, NEW t \in Thread, Return(t)
    PROVE  OrderStep
<1>1. MemoryStep
  <2>1. NoSpace \in SpaceFrame
    BY DEF NoSpace, SpaceFrame
  <2>2. MemoryTyped'
    BY <2>1 DEF OrderInv, TypeOK, MemoryTyped, Return, memory
  <2>3. QED
    BY <2>2, ParentsSame DEF Return, memory
<1>2. NoCall \in CallFrame /\ NoFind \in FindFrame /\ NoFuse \in FuseFrame /\ NoLink \in LinkFrame
  BY FramesBuilt, ArenaMaybe DEF NoCall, NoFind, NoFuse
<1>3. StackTyped' /\ OthersSame(t) /\ pc'[t] = "idle"
  BY <1>2 DEF OrderInv, TypeOK, StackTyped, OthersSame, Return, Goto, Label
<1>4. QED
  BY <1>1, <1>3, QuietStack, OrderFromParts

----------------------------------------------------------------------------
\* What the callers of _upb_Arena_FindRoot do with the root they get.
LEMMA GotFirstRootStack ==
    ASSUME OrderInv, NEW t \in Thread, pc[t] \in Finding, find[t].ret = "r1",
           NEW r \in RootResult, r.root \in Arena, GotFirstRoot(t, r), UNCHANGED link
    PROVE  StackStep(t)
<1>1. fuse[t].ai1 \in Arena /\ fuse[t].ai2 \in Arena
  BY DEF OrderInv, FuseOrdered
<1>2. fuse' \in [Thread -> FuseFrame] /\ \A u \in Thread \ {t} : fuse'[u] = fuse[u]
  BY DEF OrderInv, TypeOK, GotFirstRoot, FuseFrame
<1>3. fuse'[t].ai1 \in Arena /\ fuse'[t].ai2 \in Arena /\ fuse'[t].r1.root \in Arena
  BY <1>1 DEF OrderInv, TypeOK, GotFirstRoot, FuseFrame
<1>4. call' \in [Thread -> CallFrame] /\ \A u \in Thread \ {t} : call'[u] = call[u]
  BY DEF OrderInv, TypeOK, GotFirstRoot
<1>5. CallFindRoot(t, fuse[t].ai2, "r2")
  BY DEF GotFirstRoot
<1>6. QED
  BY <1>1, <1>2, <1>3, <1>4, <1>5, CallFindRootStack

\* The root with the lower address comes first.
LEMMA LowerFirstOrders ==
    ASSUME NEW r \in RootResult, NEW s \in RootResult,
           r.root \in Arena, s.root \in Arena, r.root # s.root
    PROVE  /\ LowerFirst(r, s)[1] \in RootResult /\ LowerFirst(r, s)[2] \in RootResult
           /\ LowerFirst(r, s)[1].root \in Arena /\ LowerFirst(r, s)[2].root \in Arena
           /\ LowerFirst(r, s)[1].root < LowerFirst(r, s)[2].root
<1>1. r.root \in Nat /\ s.root \in Nat
  BY ArenaNat
<1>2. CASE r.root > s.root
  <2>1. LowerFirst(r, s)[1] = s /\ LowerFirst(r, s)[2] = r
    BY <1>2 DEF LowerFirst
  <2>2. QED
    BY <1>1, <1>2, <2>1
<1>3. CASE ~(r.root > s.root)
  <2>1. LowerFirst(r, s)[1] = r /\ LowerFirst(r, s)[2] = s
    BY <1>3 DEF LowerFirst
  <2>2. QED
    BY <1>1, <1>3, <2>1
<1>4. QED
  BY <1>2, <1>3

\* FindRoot returns to DoFuse: the second root.
LEMMA GotSecondRootStack ==
    ASSUME OrderInv, NEW t \in Thread, pc[t] \in Finding, find[t].ret = "r2",
           NEW r \in RootResult, r.root \in Arena, GotSecondRoot(t, r), UNCHANGED link
    PROVE  StackStep(t)
<1>1. fuse[t].ai1 \in Arena /\ fuse[t].ai2 \in Arena /\ fuse[t].r1.root \in Arena
  BY DEF OrderInv, FuseOrdered
<1>2. find' \in [Thread -> FindFrame]
  BY FramesBuilt, ArenaMaybe DEF OrderInv, TypeOK, GotSecondRoot, NoFind
<1>3. CASE fuse[t].r1.root = r.root
  <2>1. Goto(t, "fixup_load") /\ UNCHANGED <<call, fuse>>
    BY <1>3 DEF GotSecondRoot
  <2>2. pc' \in [Thread -> Label] /\ pc'[t] = "fixup_load"
    BY <2>1 DEF OrderInv, TypeOK, Goto, Label
  <2>3. StackTyped'
    BY <1>2, <2>1, <2>2 DEF OrderInv, TypeOK, StackTyped
  <2>4. OthersSame(t)
    BY <2>1 DEF OrderInv, TypeOK, OthersSame, GotSecondRoot, Goto
  <2>5. WalkOrdered(t)' /\ FuseOrdered(t)'
    BY <1>1, <2>1, <2>2 DEF WalkOrdered, FuseOrdered, Finding, Linking, At
  <2>6. QED
    BY <2>3, <2>4, <2>5 DEF StackStep
<1>4. CASE fuse[t].r1.root # r.root
  <2> DEFINE lo == LowerFirst(fuse[t].r1, r)[1]
             hi == LowerFirst(fuse[t].r1, r)[2]
  <2>1. fuse[t].r1 \in RootResult
    BY DEF OrderInv, TypeOK, FuseFrame
  <2>2. lo \in RootResult /\ hi \in RootResult /\ lo.root \in Arena /\ hi.root \in Arena
        /\ lo.root < hi.root
    BY <1>1, <1>4, <2>1, LowerFirstOrders
  <2>3. /\ Goto(t, "add_refs") /\ UNCHANGED call
        /\ fuse' = [fuse EXCEPT ![t] = [ai1 |-> fuse[t].r1.root, ai2 |-> r.root,
                                        r1 |-> lo, r2 |-> hi]]
    BY <1>4 DEF GotSecondRoot
  <2> HIDE DEF lo, hi
  <2>4. [ai1 |-> fuse[t].r1.root, ai2 |-> r.root, r1 |-> lo, r2 |-> hi] \in FuseFrame
    BY <1>1, <2>2, ArenaMaybe DEF FuseFrame
  <2>5. fuse' \in [Thread -> FuseFrame]
    BY <2>3, <2>4 DEF OrderInv, TypeOK
  <2>6. pc' \in [Thread -> Label] /\ pc'[t] = "add_refs"
    BY <2>3 DEF OrderInv, TypeOK, Goto, Label
  <2>7. StackTyped'
    BY <1>2, <2>3, <2>5, <2>6 DEF OrderInv, TypeOK, StackTyped
  <2>8. OthersSame(t)
    BY <2>3 DEF OrderInv, TypeOK, OthersSame, GotSecondRoot, Goto
  <2>9. WalkOrdered(t)'
    BY <2>6 DEF WalkOrdered, Finding, At
  <2>10. fuse'[t] = [ai1 |-> fuse[t].r1.root, ai2 |-> r.root, r1 |-> lo, r2 |-> hi]
    BY <2>3 DEF OrderInv, TypeOK
  <2>11. FuseOrdered(t)'
    BY <1>1, <2>2, <2>6, <2>10 DEF FuseOrdered, Finding, Linking
  <2>12. QED
    BY <2>7, <2>8, <2>9, <2>11 DEF StackStep
<1>5. QED
  BY <1>3, <1>4

\* FindRoot returns to IsFused: ra.
LEMMA GotRaStack ==
    ASSUME OrderInv, NEW t \in Thread, pc[t] \in Finding, find[t].ret = "ra",
           NEW r \in RootResult, r.root \in Arena, GotRa(t, r), UNCHANGED link
    PROVE  StackStep(t)
<1>1. fuse[t].ai2 \in Arena
  BY DEF OrderInv, FuseOrdered
<1>2. fuse' \in [Thread -> FuseFrame] /\ \A u \in Thread \ {t} : fuse'[u] = fuse[u]
  BY ArenaMaybe DEF OrderInv, TypeOK, GotRa, FuseFrame
<1>3. fuse'[t].ai1 \in Arena /\ fuse'[t].ai2 \in Arena
  BY <1>1 DEF OrderInv, TypeOK, GotRa, FuseFrame
<1>4. call' \in [Thread -> CallFrame] /\ \A u \in Thread \ {t} : call'[u] = call[u]
  BY DEF OrderInv, TypeOK, GotRa
<1>5. CallFindRoot(t, fuse[t].ai2, "rb")
  BY DEF GotRa
<1>6. QED
  BY <1>1, <1>2, <1>3, <1>4, <1>5, CallFindRootStack

\* FindRoot returns to IsFused: rb.
LEMMA GotRbStack ==
    ASSUME OrderInv, NEW t \in Thread, pc[t] \in Finding, find[t].ret = "rb",
           NEW r \in RootResult, r.root \in Arena, GotRb(t, r), UNCHANGED link
    PROVE  StackStep(t)
<1>1. fuse[t].ai1 \in Arena /\ fuse[t].ai2 \in Arena
  BY DEF OrderInv, FuseOrdered
<1>2. CASE fuse[t].ai1 = r.root
  BY <1>2, FinishStack DEF GotRb
<1>3. CASE fuse[t].ai1 # r.root
  <2>1. /\ fuse' = [fuse EXCEPT ![t].ai2 = r.root]
        /\ CallFindRoot(t, fuse[t].ai1, "tmp") /\ UNCHANGED call
    BY <1>3 DEF GotRb
  <2>2. fuse' \in [Thread -> FuseFrame] /\ \A u \in Thread \ {t} : fuse'[u] = fuse[u]
    BY <2>1, ArenaMaybe DEF OrderInv, TypeOK, FuseFrame
  <2>3. fuse'[t].ai1 \in Arena /\ fuse'[t].ai2 \in Arena
    BY <1>1, <2>1 DEF OrderInv, TypeOK, FuseFrame
  <2>4. call' \in [Thread -> CallFrame] /\ \A u \in Thread \ {t} : call'[u] = call[u]
    BY <2>1 DEF OrderInv, TypeOK
  <2>5. QED
    BY <1>1, <2>1, <2>2, <2>3, <2>4, CallFindRootStack
<1>4. QED
  BY <1>2, <1>3

\* FindRoot returns to IsFused: the recheck of ra.
LEMMA GotTmpStack ==
    ASSUME OrderInv, NEW t \in Thread, pc[t] \in Finding, find[t].ret = "tmp",
           NEW r \in RootResult, r.root \in Arena, GotTmp(t, r), UNCHANGED link
    PROVE  StackStep(t)
<1>1. fuse[t].ai1 \in Arena /\ fuse[t].ai2 \in Arena
  BY DEF OrderInv, FuseOrdered
<1>2. CASE fuse[t].ai1 = r.root
  BY <1>2, FinishStack DEF GotTmp
<1>3. CASE fuse[t].ai1 # r.root
  <2>1. /\ fuse' = [fuse EXCEPT ![t].ai1 = r.root]
        /\ CallFindRoot(t, fuse[t].ai2, "rb") /\ UNCHANGED call
    BY <1>3 DEF GotTmp
  <2>2. fuse' \in [Thread -> FuseFrame] /\ \A u \in Thread \ {t} : fuse'[u] = fuse[u]
    BY <2>1, ArenaMaybe DEF OrderInv, TypeOK, FuseFrame
  <2>3. fuse'[t].ai1 \in Arena /\ fuse'[t].ai2 \in Arena
    BY <1>1, <2>1 DEF OrderInv, TypeOK, FuseFrame
  <2>4. call' \in [Thread -> CallFrame] /\ \A u \in Thread \ {t} : call'[u] = call[u]
    BY <2>1 DEF OrderInv, TypeOK
  <2>5. QED
    BY <1>1, <2>1, <2>2, <2>3, <2>4, CallFindRootStack
<1>4. QED
  BY <1>2, <1>3

\* FindRoot returns to IncRefFor.
LEMMA GotIncRefRootStack ==
    ASSUME OrderInv, NEW t \in Thread, pc[t] \in Finding, find[t].ret = "incref",
           NEW r \in RootResult, r.root \in Arena, GotIncRefRoot(t, r), UNCHANGED link
    PROVE  StackStep(t)
<1>1. TaggedFromRefcount(r.count) \in Word
  BY WordTyped DEF RootResult
<1>2. call[t].a \in Arena
  BY DEF OrderInv, WalkOrdered
<1>3. [find[t] EXCEPT !.ai = r.root, !.poc = TaggedFromRefcount(r.count)] \in FindFrame
  <2>1. find[t] \in FindFrame /\ r.root \in MaybeArena
    BY ArenaMaybe DEF OrderInv, TypeOK
  <2>2. QED
    BY <1>1, <2>1 DEF FindFrame
<1>4. find' = [find EXCEPT ![t] =
                  [find[t] EXCEPT !.ai = r.root, !.poc = TaggedFromRefcount(r.count)]]
  BY DEF OrderInv, TypeOK, GotIncRefRoot
<1>5. find' \in [Thread -> FindFrame]
  BY <1>3, <1>4 DEF OrderInv, TypeOK
<1>6. find'[t].ai = r.root /\ find'[t].poc = TaggedFromRefcount(r.count)
  BY <1>4 DEF OrderInv, TypeOK, FindFrame
<1>7. pc' \in [Thread -> Label] /\ pc'[t] = "incref_cas"
  BY DEF OrderInv, TypeOK, GotIncRefRoot, Goto, Label
<1>8. StackTyped'
  BY <1>5, <1>7 DEF OrderInv, TypeOK, StackTyped, GotIncRefRoot
<1>9. OthersSame(t)
  BY DEF OrderInv, TypeOK, OthersSame, GotIncRefRoot, Goto
<1>10. WalkOrdered(t)' /\ FuseOrdered(t)'
  BY <1>2, <1>6, <1>7, TagOfWord
     DEF GotIncRefRoot, WalkOrdered, FuseOrdered, Finding, Linking, At
<1>11. QED
  BY <1>8, <1>9, <1>10 DEF StackStep

\* FindRootReturns(t, root, w), whoever called.
LEMMA FindRootReturnsStack ==
    ASSUME OrderInv, NEW t \in Thread, pc[t] \in Finding, NEW root \in Arena,
           NEW w \in Word, IsTaggedRefcount(w), FindRootReturns(t, root, w), UNCHANGED link
    PROVE  StackStep(t)
<1> DEFINE r == [root |-> root, count |-> w.val]
<1>1. r \in RootResult /\ r.root \in Arena
  BY WordCases, ArenaMaybe DEF RootResult
<1>2. \/ find[t].ret = "r1" /\ GotFirstRoot(t, r)
      \/ find[t].ret = "r2" /\ GotSecondRoot(t, r)
      \/ find[t].ret = "ra" /\ GotRa(t, r)
      \/ find[t].ret = "rb" /\ GotRb(t, r)
      \/ find[t].ret = "tmp" /\ GotTmp(t, r)
      \/ find[t].ret = "incref" /\ GotIncRefRoot(t, r)
  BY DEF FindRootReturns
<1> HIDE DEF r
<1>3. QED
  BY <1>1, <1>2, GotFirstRootStack, GotSecondRootStack, GotRaStack, GotRbStack,
     GotTmpStack, GotIncRefRootStack

\* _upb_Arena_FindRoot, first load.
LEMMA FindRootLoadOrdered ==
    ASSUME OrderInv, NEW t \in Thread, FindRootLoad(t)
    PROVE  OrderStep
<1> DEFINE w == parent_or_count[find[t].ai]
<1>1. pc[t] = "find_load" /\ find[t].ai \in Arena
  BY DEF OrderInv, FindRootLoad, WalkOrdered, Finding, At
<1>2. w \in Word
  BY <1>1 DEF OrderInv, TypeOK
<1>3. MemoryStep /\ UNCHANGED link
  BY MemorySame DEF FindRootLoad
<1>4. CASE IsTaggedRefcount(w)
  <2>1. FindRootReturns(t, find[t].ai, w)
    BY <1>2, <1>4, WordCases DEF FindRootLoad
  <2>2. StackStep(t)
    BY <1>1, <1>2, <1>3, <1>4, <2>1, FindRootReturnsStack DEF Finding
  <2>3. QED
    BY <1>3, <2>2, OrderFromParts
<1>5. CASE IsTaggedPointer(w)
  <2>1. Goto(t, "find_reload") /\ UNCHANGED <<call, find, fuse>>
    BY <1>2, <1>5, WordCases DEF FindRootLoad
  <2>2. pc' \in [Thread -> Label] /\ pc'[t] = "find_reload"
    BY <2>1 DEF OrderInv, TypeOK, Goto, Label
  <2>3. StackTyped' /\ OthersSame(t)
    BY <1>3, <2>1, <2>2 DEF OrderInv, TypeOK, StackTyped, OthersSame, Goto
  <2>4. WalkOrdered(t) /\ FuseOrdered(t) /\ UNCHANGED parent_or_count
    BY DEF OrderInv, FindRootLoad, memory
  <2>5. WalkOrdered(t)'
    BY <1>1, <1>5, <2>1, <2>2, <2>4 DEF WalkOrdered, Finding, At
  <2>6. FuseOrdered(t)'
    BY <1>1, <1>3, <2>1, <2>2, <2>4 DEF FuseOrdered, Finding, Linking
  <2>7. QED
    BY <1>3, <2>3, <2>5, <2>6, OrderFromParts DEF StackStep
<1>6. QED
  BY <1>2, <1>4, <1>5, WordCases

\* _upb_Arena_FindRoot, second load: still a pointer, hence downwards.
LEMMA FindRootReloadOrdered ==
    ASSUME OrderInv, NEW t \in Thread, FindRootReload(t)
    PROVE  OrderStep
<1> DEFINE w == parent_or_count[find[t].ai]
<1>1. pc[t] = "find_reload" /\ find[t].ai \in Arena /\ IsTaggedPointer(w)
  BY DEF OrderInv, FindRootReload, WalkOrdered, Finding, At
<1>2. w \in Word /\ w.val < find[t].ai
  BY <1>1 DEF OrderInv, TypeOK, ParentBelow
<1>3. MemoryStep
  BY MemorySame DEF FindRootReload
<1>4. find' = [find EXCEPT ![t].poc = w] /\ Goto(t, "find_next") /\ UNCHANGED <<call, fuse, link>>
  BY DEF FindRootReload
<1> HIDE DEF w
<1>5. find' \in [Thread -> FindFrame]
  BY <1>2, <1>4 DEF OrderInv, TypeOK, FindFrame
<1>6. find'[t].ai = find[t].ai /\ find'[t].poc = w /\ find'[t].ret = find[t].ret
  BY <1>4 DEF OrderInv, TypeOK, FindFrame
<1>7. pc' \in [Thread -> Label] /\ pc'[t] = "find_next"
  BY <1>4 DEF OrderInv, TypeOK, Goto, Label
<1>8. StackTyped' /\ OthersSame(t)
  BY <1>4, <1>5, <1>7 DEF OrderInv, TypeOK, StackTyped, OthersSame, Goto
<1>9. WalkOrdered(t) /\ FuseOrdered(t)
  BY DEF OrderInv
<1>10. WalkOrdered(t)'
  BY <1>1, <1>2, <1>4, <1>6, <1>7, <1>9 DEF WalkOrdered, Finding, At
<1>11. FuseOrdered(t)'
  BY <1>1, <1>4, <1>6, <1>7, <1>9 DEF FuseOrdered, Finding, Linking
<1>12. QED
  BY <1>3, <1>8, <1>10, <1>11, OrderFromParts DEF StackStep

\* _upb_Arena_FindRoot, the parent's word.
LEMMA FindRootNextOrdered ==
    ASSUME OrderInv, NEW t \in Thread, FindRootNext(t)
    PROVE  OrderStep
<1> DEFINE up == find[t].poc.val
           w == parent_or_count[up]
<1>1. pc[t] = "find_next" /\ find[t].ai \in Arena /\ IsTaggedPointer(find[t].poc)
      /\ up < find[t].ai
  BY DEF OrderInv, FindRootNext, WalkOrdered, Finding, At
<1>2. up \in Arena
  BY <1>1, WordCases DEF OrderInv, TypeOK, FindFrame
<1>3. w \in Word
  BY <1>2 DEF OrderInv, TypeOK
<1>4. MemoryStep /\ UNCHANGED link
  BY MemorySame DEF FindRootNext
<1>5. CASE IsTaggedRefcount(w)
  <2>1. FindRootReturns(t, up, w)
    BY <1>3, <1>5, WordCases DEF FindRootNext
  <2>2. StackStep(t)
    BY <1>1, <1>2, <1>3, <1>4, <1>5, <2>1, FindRootReturnsStack DEF Finding
  <2>3. QED
    BY <1>4, <2>2, OrderFromParts
<1>6. CASE IsTaggedPointer(w)
  <2>1. w.val < up
    BY <1>2, <1>6 DEF OrderInv, ParentBelow
  <2>2. /\ find' = [find EXCEPT ![t].up = up, ![t].poc = w]
        /\ Goto(t, "find_split") /\ UNCHANGED <<call, fuse>>
    BY <1>3, <1>6, WordCases DEF FindRootNext
  <2> HIDE DEF up, w
  <2>3. [find[t] EXCEPT !.up = up, !.poc = w] \in FindFrame
    BY <1>2, <1>3, ArenaMaybe DEF OrderInv, TypeOK, FindFrame
  <2>4. find' = [find EXCEPT ![t] = [find[t] EXCEPT !.up = up, !.poc = w]]
    BY <2>2 DEF OrderInv, TypeOK
  <2>5. find' \in [Thread -> FindFrame]
    BY <2>3, <2>4 DEF OrderInv, TypeOK
  <2>6. /\ find'[t].ai = find[t].ai /\ find'[t].up = up /\ find'[t].poc = w
        /\ find'[t].ret = find[t].ret
    BY <2>4 DEF OrderInv, TypeOK, FindFrame
  <2>7. pc' \in [Thread -> Label] /\ pc'[t] = "find_split"
    BY <2>2 DEF OrderInv, TypeOK, Goto, Label
  <2>8. StackTyped' /\ OthersSame(t)
    BY <1>4, <2>2, <2>5, <2>7 DEF OrderInv, TypeOK, StackTyped, OthersSame, Goto
  <2>9. WalkOrdered(t) /\ FuseOrdered(t)
    BY DEF OrderInv
  <2>10. up < find[t].ai
    BY <1>1 DEF up
  <2>11. WalkOrdered(t)'
    BY <1>1, <1>2, <1>6, <2>1, <2>2, <2>6, <2>7, <2>9, <2>10 DEF WalkOrdered, Finding, At
  <2>12. FuseOrdered(t)'
    BY <1>1, <1>4, <2>2, <2>6, <2>7, <2>9 DEF FuseOrdered, Finding, Linking
  <2>13. QED
    BY <1>4, <2>8, <2>11, <2>12, OrderFromParts DEF StackStep
<1>7. QED
  BY <1>3, <1>5, <1>6, WordCases

\* _upb_Arena_FindRoot, path splitting: what it read is still below what it
\* overwrites, however old it is.
LEMMA FindRootSplitOrdered ==
    ASSUME OrderInv, NEW t \in Thread, FindRootSplit(t)
    PROVE  OrderStep
<1>1. /\ pc[t] = "find_split" /\ find[t].ai \in Arena /\ find[t].up \in Arena
      /\ IsTaggedPointer(find[t].poc) /\ find[t].poc.val < find[t].up
      /\ find[t].up < find[t].ai
  BY DEF OrderInv, FindRootSplit, WalkOrdered, Finding, At
<1>2. find[t].poc \in Word /\ find[t].poc.val \in Arena
  BY <1>1, WordCases DEF OrderInv, TypeOK, FindFrame
<1>3. find[t].poc.val < find[t].ai
  BY <1>1, <1>2, ArenaNat
<1>4. MemoryStep
  <2>1. parent_or_count' = [parent_or_count EXCEPT ![find[t].ai] = find[t].poc]
    BY DEF FindRootSplit
  <2>2. MemoryTyped'
    BY <1>1, <1>2, <2>1 DEF OrderInv, TypeOK, MemoryTyped, FindRootSplit, lists
  <2>3. QED
    BY <1>1, <1>2, <1>3, <2>1, <2>2, PointerStored
<1>5. /\ find' = [find EXCEPT ![t] = [find[t] EXCEPT !.ai = find[t].up, !.up = NULL]]
      /\ Goto(t, "find_next") /\ UNCHANGED <<call, fuse, link>>
  BY DEF OrderInv, TypeOK, FindRootSplit
<1>6. find' \in [Thread -> FindFrame]
  <2>1. [find[t] EXCEPT !.ai = find[t].up, !.up = NULL] \in FindFrame
    BY <1>1, ArenaMaybe DEF OrderInv, TypeOK, FindFrame
  <2>2. QED
    BY <1>5, <2>1 DEF OrderInv, TypeOK
<1>7. find'[t].ai = find[t].up /\ find'[t].poc = find[t].poc /\ find'[t].ret = find[t].ret
  BY <1>5 DEF OrderInv, TypeOK, FindFrame
<1>8. pc' \in [Thread -> Label] /\ pc'[t] = "find_next"
  BY <1>5 DEF OrderInv, TypeOK, Goto, Label
<1>9. StackTyped' /\ OthersSame(t)
  BY <1>5, <1>6, <1>8 DEF OrderInv, TypeOK, StackTyped, OthersSame, Goto
<1>10. WalkOrdered(t) /\ FuseOrdered(t)
  BY DEF OrderInv
<1>11. WalkOrdered(t)'
  BY <1>1, <1>5, <1>6, <1>7, <1>8, <1>10 DEF WalkOrdered, Finding, At
<1>12. FuseOrdered(t)'
  BY <1>1, <1>5, <1>7, <1>8, <1>10 DEF FuseOrdered, Finding, Linking
<1>13. QED
  BY <1>4, <1>9, <1>11, <1>12, OrderFromParts DEF StackStep

\* What a thread inside DoFuse or its list code holds.
LEMMA FusingFacts ==
    ASSUME OrderInv, NEW t \in Thread, pc[t] \in Linking \cup {"add_refs", "reparent"}
    PROVE  /\ fuse[t].ai1 \in Arena /\ fuse[t].ai2 \in Arena
           /\ fuse[t].r1.root \in Arena /\ fuse[t].r2.root \in Arena
           /\ fuse[t].r1.root < fuse[t].r2.root
           /\ fuse[t].r1.count \in Int /\ fuse[t].r2.count \in Int
<1>1. FuseOrdered(t) /\ fuse[t] \in FuseFrame
  BY DEF OrderInv, TypeOK
<1>2. fuse[t].r1.count \in Int /\ fuse[t].r2.count \in Int
  BY <1>1 DEF FuseFrame, RootResult
<1>3. QED
  BY <1>1, <1>2 DEF FuseOrdered

\* A step from one place inside DoFuse to the next one, with the link frame
\* already in order.
LEMMA FusingStack ==
    ASSUME OrderInv, NEW t \in Thread, NEW label \in Linking \cup {"reparent", "fixup_load"},
           pc[t] \in Linking \cup {"add_refs", "reparent"},
           Goto(t, label), UNCHANGED <<call, find, fuse>>,
           link' \in [Thread -> LinkFrame],
           \A u \in Thread \ {t} : link'[u] = link[u],
           label \in Linking \ {"link_tail"} => link'[t].tail \in Arena,
           label \in {"tail_parent", "tail_cas"} => link'[t].new_tail \in Arena
    PROVE  StackStep(t)
<1>1. pc' \in [Thread -> Label] /\ pc'[t] = label
  BY DEF OrderInv, TypeOK, Goto, Label, Linking
<1>2. StackTyped' /\ OthersSame(t)
  BY <1>1 DEF OrderInv, TypeOK, StackTyped, OthersSame, Goto
<1>3. WalkOrdered(t)'
  BY <1>1 DEF WalkOrdered, Finding, Linking, At
<1>4. FuseOrdered(t)'
  BY <1>1, FusingFacts DEF FuseOrdered, Finding, Linking
<1>5. QED
  BY <1>2, <1>3, <1>4 DEF StackStep

\* _upb_Arena_DoFuse, first compare-exchange.
LEMMA DoFuseAddRefsOrdered ==
    ASSUME OrderInv, NEW t \in Thread, DoFuseAddRefs(t)
    PROVE  OrderStep
<1> DEFINE r1 == fuse[t].r1
           r2 == fuse[t].r2
<1>1. pc[t] = "add_refs" /\ UNCHANGED <<link, space, ref_delta, lists, freed, refs>>
  BY DEF DoFuseAddRefs, At
<1>2. /\ fuse[t].ai1 \in Arena /\ fuse[t].ai2 \in Arena
      /\ r1.root \in Arena /\ r1.count \in Int /\ r2.count \in Int
  BY <1>1, FusingFacts
<1>3. CASE parent_or_count[r1.root] = TaggedFromRefcount(r1.count)
  <2>1. /\ parent_or_count' = [parent_or_count EXCEPT
               ![r1.root] = TaggedFromRefcount(r1.count + r2.count)]
        /\ owed' = [owed EXCEPT ![t][r1.root] = @ + r2.count]
        /\ Goto(t, "reparent") /\ UNCHANGED <<call, find, fuse>>
    BY <1>3 DEF DoFuseAddRefs
  <2> HIDE DEF r1, r2
  <2>2. r1.count + r2.count \in Int
    BY <1>2
  <2>3. owed' \in [Thread -> [Arena -> Int]]
    BY <1>2, <2>1 DEF OrderInv, TypeOK
  <2>4. parent_or_count' \in [Arena -> Word]
    BY <1>2, <2>1, <2>2, WordTyped DEF OrderInv, TypeOK
  <2>5. MemoryTyped'
    BY <1>1, <2>3, <2>4 DEF OrderInv, TypeOK, MemoryTyped, lists
  <2>6. MemoryStep
    BY <1>2, <1>3, <2>1, <2>2, <2>5, TagOfWord, CountChanges
  <2>7. StackStep(t)
    BY <1>1, <2>1, FusingStack DEF OrderInv, TypeOK, Linking
  <2>8. QED
    BY <2>6, <2>7, OrderFromParts
<1>4. CASE parent_or_count[r1.root] # TaggedFromRefcount(r1.count)
  <2>1. Retry(t) /\ UNCHANGED <<parent_or_count, owed>>
    BY <1>4 DEF DoFuseAddRefs
  <2>2. MemoryStep
    BY <1>1, <2>1, MemorySame DEF memory, lists
  <2>3. StackStep(t)
    BY <1>1, <1>2, <2>1, RetryStack
  <2>4. QED
    BY <2>2, <2>3, OrderFromParts
<1>5. QED
  BY <1>3, <1>4

\* _upb_Arena_DoFuse, second compare-exchange: the higher root points to the
\* lower one.
LEMMA DoFuseReparentOrdered ==
    ASSUME OrderInv, NEW t \in Thread, DoFuseReparent(t)
    PROVE  OrderStep
<1> DEFINE r1 == fuse[t].r1
           r2 == fuse[t].r2
<1>1. pc[t] = "reparent" /\ UNCHANGED <<link, space, lists, freed, refs>>
  BY DEF DoFuseReparent, At
<1>2. /\ fuse[t].ai1 \in Arena /\ fuse[t].ai2 \in Arena
      /\ r1.root \in Arena /\ r2.root \in Arena /\ r1.root < r2.root /\ r2.count \in Int
  BY <1>1, FusingFacts
<1>3. CASE parent_or_count[r2.root] = TaggedFromRefcount(r2.count)
  <2>1. /\ parent_or_count' = [parent_or_count EXCEPT
               ![r2.root] = TaggedFromPointer(r1.root)]
        /\ owed' = [owed EXCEPT ![t][r1.root] = @ - r2.count]
        /\ Goto(t, "link_tail") /\ UNCHANGED <<call, find, fuse, ref_delta>>
    BY <1>3 DEF DoFuseReparent
  <2> HIDE DEF r1, r2
  <2>2. TaggedFromPointer(r1.root) \in Word
    BY <1>2, WordTyped
  <2>3. owed' \in [Thread -> [Arena -> Int]]
    BY <1>2, <2>1 DEF OrderInv, TypeOK
  <2>4. parent_or_count' \in [Arena -> Word]
    BY <1>2, <2>1, <2>2 DEF OrderInv, TypeOK
  <2>5. MemoryTyped'
    BY <1>1, <2>1, <2>3, <2>4 DEF OrderInv, TypeOK, MemoryTyped, lists
  <2>6. IsTaggedPointer(TaggedFromPointer(r1.root)) /\ TaggedFromPointer(r1.root).val < r2.root
    BY <1>2, TagOfWord
  <2>7. MemoryStep
    BY <1>2, <2>1, <2>2, <2>5, <2>6, PointerStored
  <2>8. StackStep(t)
    BY <1>1, <2>1, FusingStack DEF OrderInv, TypeOK, Linking
  <2>9. QED
    BY <2>7, <2>8, OrderFromParts
<1>4. CASE parent_or_count[r2.root] # TaggedFromRefcount(r2.count)
  <2>1. /\ ref_delta' = [ref_delta EXCEPT ![t] = @ + r2.count]
        /\ Retry(t) /\ UNCHANGED <<parent_or_count, owed>>
    BY <1>4 DEF DoFuseReparent
  <2>2. ref_delta' \in [Thread -> Int]
    BY <1>2, <2>1 DEF OrderInv, TypeOK
  <2>3. MemoryTyped'
    BY <1>1, <2>1, <2>2 DEF OrderInv, TypeOK, MemoryTyped, lists
  <2>4. MemoryStep
    BY <2>1, <2>3, ParentsSame
  <2>5. StackStep(t)
    BY <1>1, <1>2, <2>1, RetryStack
  <2>6. QED
    BY <2>4, <2>5, OrderFromParts
<1>5. QED
  BY <1>3, <1>4

\* Setting one field of a thread's link frame to an arena.
LEMMA LinkTailSet ==
    ASSUME link \in [Thread -> LinkFrame], NEW t \in Thread, NEW a \in Arena,
           link' = [link EXCEPT ![t].tail = a]
    PROVE  /\ link' \in [Thread -> LinkFrame]
           /\ \A u \in Thread \ {t} : link'[u] = link[u]
           /\ link'[t].tail = a
BY ArenaMaybe DEF LinkFrame

\* Setting new_tail of a link frame.
LEMMA LinkNewTailSet ==
    ASSUME link \in [Thread -> LinkFrame], NEW t \in Thread, NEW a \in Arena,
           link' = [link EXCEPT ![t].new_tail = a]
    PROVE  /\ link' \in [Thread -> LinkFrame]
           /\ \A u \in Thread \ {t} : link'[u] = link[u]
           /\ link'[t].new_tail = a
           /\ link'[t].tail = link[t].tail
BY ArenaMaybe DEF LinkFrame

\* Setting old_tail of a link frame.
LEMMA LinkOldTailSet ==
    ASSUME link \in [Thread -> LinkFrame], NEW t \in Thread, NEW a \in Arena,
           link' = [link EXCEPT ![t].old_tail = a]
    PROVE  /\ link' \in [Thread -> LinkFrame]
           /\ \A u \in Thread \ {t} : link'[u] = link[u]
           /\ link'[t].old_tail = a
           /\ link'[t].tail = link[t].tail
           /\ link'[t].new_tail = link[t].new_tail
BY ArenaMaybe DEF LinkFrame

\* A step of the list code that writes no memory.
LEMMA LinkingOrdered ==
    ASSUME OrderInv, NEW t \in Thread, NEW label \in Linking \ {"link_tail"},
           pc[t] \in Linking, Goto(t, label),
           UNCHANGED <<memory, refs, call, find, fuse, ref_delta, owed, space>>,
           link' \in [Thread -> LinkFrame],
           \A u \in Thread \ {t} : link'[u] = link[u],
           link'[t].tail \in Arena,
           label \in {"tail_parent", "tail_cas"} => link'[t].new_tail \in Arena
    PROVE  OrderStep
<1>1. MemoryStep
  BY MemorySame
<1>2. StackStep(t)
  BY FusingStack
<1>3. QED
  BY <1>1, <1>2, OrderFromParts

\* _upb_Arena_LinkForward.
LEMMA LinkForwardStartOrdered ==
    ASSUME OrderInv, NEW t \in Thread, LinkForwardStart(t)
    PROVE  OrderStep
<1> DEFINE parent == fuse[t].r1.root
           w == previous_or_tail[parent]
           tail == IF IsTaggedTail(w) THEN w.val ELSE parent
<1>1. pc[t] = "link_tail" /\ parent \in Arena
  BY FusingFacts DEF LinkForwardStart, At, Linking
<1>2. tail \in Arena
  BY <1>1, ListWordTyped DEF OrderInv, TypeOK
<1>3. link' = [link EXCEPT ![t].tail = tail] /\ Goto(t, "link_next")
      /\ UNCHANGED <<memory, refs, call, find, fuse, ref_delta, owed, space>>
  BY DEF LinkForwardStart
<1> HIDE DEF tail
<1>4. link' \in [Thread -> LinkFrame] /\ link'[t].tail = tail
      /\ \A u \in Thread \ {t} : link'[u] = link[u]
  BY <1>2, <1>3, LinkTailSet DEF OrderInv, TypeOK
<1>5. QED
  BY <1>1, <1>2, <1>3, <1>4, LinkingOrdered DEF Linking

\* _upb_Arena_LinkForward, the walk to the tail.
LEMMA LinkForwardWalkOrdered ==
    ASSUME OrderInv, NEW t \in Thread, LinkForwardWalk(t)
    PROVE  OrderStep
<1> DEFINE n == next[link[t].tail]
<1>1. pc[t] = "link_next" /\ link[t].tail \in Arena
  BY DEF OrderInv, LinkForwardWalk, At, FuseOrdered, Linking
<1>2. n \in MaybeArena
  BY <1>1 DEF OrderInv, TypeOK
<1>3. UNCHANGED <<memory, refs, call, find, fuse, ref_delta, owed, space>>
  BY DEF LinkForwardWalk
<1>4. CASE n = NULL
  <2>1. Goto(t, "link_cas") /\ UNCHANGED link
    BY <1>4 DEF LinkForwardWalk
  <2>2. QED
    BY <1>1, <1>3, <2>1, LinkingOrdered DEF OrderInv, TypeOK, Linking
<1>5. CASE n # NULL
  <2>1. link' = [link EXCEPT ![t].tail = n] /\ UNCHANGED pc
    BY <1>5 DEF LinkForwardWalk
  <2>2. n \in Arena
    BY <1>2, <1>5, ArenaMaybe
  <2> HIDE DEF n
  <2>3. link' \in [Thread -> LinkFrame] /\ link'[t].tail = n
        /\ \A u \in Thread \ {t} : link'[u] = link[u]
    BY <2>1, <2>2, LinkTailSet DEF OrderInv, TypeOK
  <2>4. Goto(t, "link_next")
    BY <1>1, <2>1 DEF OrderInv, TypeOK, Goto
  <2>5. QED
    BY <1>1, <1>3, <2>2, <2>3, <2>4, LinkingOrdered DEF Linking
<1>6. QED
  BY <1>4, <1>5

\* _upb_Arena_LinkForward, compare-exchange.
LEMMA LinkForwardCASOrdered ==
    ASSUME OrderInv, NEW t \in Thread, LinkForwardCAS(t)
    PROVE  OrderStep
<1> DEFINE tail == link[t].tail
<1>1. pc[t] = "link_cas" /\ tail \in Arena
  BY DEF OrderInv, LinkForwardCAS, At, FuseOrdered, Linking
<1>2. fuse[t].r2.root \in Arena
  BY <1>1, FusingFacts DEF Linking
<1>3. UNCHANGED <<parent_or_count, previous_or_tail, freed, refs, call, find, fuse,
                  ref_delta, owed, space>>
  BY DEF LinkForwardCAS
<1>4. CASE next[tail] = NULL
  <2>1. next' = [next EXCEPT ![tail] = fuse[t].r2.root] /\ Goto(t, "tail_child")
        /\ UNCHANGED link
    BY <1>4 DEF LinkForwardCAS
  <2>2. next' \in [Arena -> MaybeArena]
    BY <1>2, <2>1, ArenaMaybe DEF OrderInv, TypeOK
  <2>3. MemoryTyped'
    BY <1>3, <2>2 DEF OrderInv, TypeOK, MemoryTyped
  <2>4. MemoryStep
    BY <1>3, <2>3, ParentsSame
  <2>5. StackStep(t)
    BY <1>1, <1>3, <2>1, FusingStack DEF OrderInv, TypeOK, Linking
  <2>6. QED
    BY <2>4, <2>5, OrderFromParts
<1>5. CASE next[tail] # NULL
  <2>1. link' = [link EXCEPT ![t].tail = next[tail]] /\ Goto(t, "link_next")
        /\ UNCHANGED next
    BY <1>5 DEF LinkForwardCAS
  <2>2. next[tail] \in Arena
    BY <1>1, <1>5, ArenaMaybe DEF OrderInv, TypeOK
  <2>3. link' \in [Thread -> LinkFrame] /\ link'[t].tail = next[tail]
        /\ \A u \in Thread \ {t} : link'[u] = link[u]
    BY <2>1, <2>2, LinkTailSet DEF OrderInv, TypeOK
  <2>4. QED
    BY <1>1, <1>3, <2>1, <2>2, <2>3, LinkingOrdered DEF memory, Linking
<1>6. QED
  BY <1>4, <1>5

\* _upb_Arena_UpdateParentTail.
LEMMA UpdateTailChildOrdered ==
    ASSUME OrderInv, NEW t \in Thread, UpdateTailChild(t)
    PROVE  OrderStep
<1> DEFINE tail == previous_or_tail[fuse[t].r2.root].val
<1>1. pc[t] = "tail_child" /\ link[t].tail \in Arena
  BY DEF OrderInv, UpdateTailChild, At, FuseOrdered, Linking
<1>2. tail \in Arena
  BY <1>1, FusingFacts, ListWordTyped DEF OrderInv, TypeOK, Linking
<1>3. link' = [link EXCEPT ![t].new_tail = tail] /\ Goto(t, "tail_parent")
      /\ UNCHANGED <<memory, refs, call, find, fuse, ref_delta, owed, space>>
  BY DEF UpdateTailChild
<1> HIDE DEF tail
<1>4. link' \in [Thread -> LinkFrame] /\ link'[t].tail = link[t].tail
      /\ link'[t].new_tail = tail /\ \A u \in Thread \ {t} : link'[u] = link[u]
  BY <1>2, <1>3, LinkNewTailSet DEF OrderInv, TypeOK
<1>5. QED
  BY <1>1, <1>2, <1>3, <1>4, LinkingOrdered DEF Linking

\* _upb_Arena_UpdateParentTail, load of the parent's tail.
LEMMA UpdateTailParentOrdered ==
    ASSUME OrderInv, NEW t \in Thread, UpdateTailParent(t)
    PROVE  OrderStep
<1> DEFINE w == previous_or_tail[fuse[t].r1.root]
<1>1. pc[t] = "tail_parent" /\ link[t].tail \in Arena /\ link[t].new_tail \in Arena
  BY DEF OrderInv, UpdateTailParent, At, FuseOrdered, Linking
<1>2. w.val \in Arena
  BY <1>1, FusingFacts, ListWordTyped DEF OrderInv, TypeOK, Linking
<1>3. UNCHANGED <<memory, refs, call, find, fuse, ref_delta, owed, space>>
  BY DEF UpdateTailParent
<1>4. CASE IsTaggedTail(w)
  <2>1. link' = [link EXCEPT ![t].old_tail = w.val] /\ Goto(t, "tail_cas")
    BY <1>4 DEF UpdateTailParent
  <2> HIDE DEF w
  <2>2. link' \in [Thread -> LinkFrame] /\ link'[t].tail = link[t].tail
        /\ link'[t].new_tail = link[t].new_tail /\ \A u \in Thread \ {t} : link'[u] = link[u]
    BY <1>2, <2>1, LinkOldTailSet DEF OrderInv, TypeOK
  <2>3. QED
    BY <1>1, <1>3, <2>1, <2>2, LinkingOrdered DEF Linking
<1>5. CASE ~IsTaggedTail(w)
  <2>1. Goto(t, "link_back") /\ UNCHANGED link
    BY <1>5 DEF UpdateTailParent
  <2>2. QED
    BY <1>1, <1>3, <2>1, LinkingOrdered DEF OrderInv, TypeOK, Linking
<1>6. QED
  BY <1>4, <1>5

\* _upb_Arena_UpdateParentTail, compare-exchange.
LEMMA UpdateTailCASOrdered ==
    ASSUME OrderInv, NEW t \in Thread, UpdateTailCAS(t)
    PROVE  OrderStep
<1>1. pc[t] = "tail_cas" /\ link[t].tail \in Arena /\ link[t].new_tail \in Arena
  BY DEF OrderInv, UpdateTailCAS, At, FuseOrdered, Linking
<1>2. previous_or_tail' \in [Arena -> ListWord]
  BY <1>1, ListWordTyped DEF OrderInv, TypeOK, UpdateTailCAS
<1>3. MemoryTyped'
  BY <1>2 DEF OrderInv, TypeOK, MemoryTyped, UpdateTailCAS
<1>4. MemoryStep
  BY <1>3, ParentsSame DEF UpdateTailCAS
<1>5. StackStep(t)
  BY <1>1, FusingStack DEF OrderInv, TypeOK, UpdateTailCAS, Linking
<1>6. QED
  BY <1>4, <1>5, OrderFromParts

\* _upb_Arena_LinkBackward.
LEMMA LinkBackwardOrdered ==
    ASSUME OrderInv, NEW t \in Thread, LinkBackward(t)
    PROVE  OrderStep
<1>1. pc[t] = "link_back" /\ link[t].tail \in Arena
  BY DEF OrderInv, LinkBackward, At, FuseOrdered, Linking
<1>2. previous_or_tail' \in [Arena -> ListWord]
  BY <1>1, ListWordTyped DEF OrderInv, TypeOK, LinkBackward
<1>3. MemoryTyped'
  BY <1>2 DEF OrderInv, TypeOK, MemoryTyped, LinkBackward
<1>4. MemoryStep
  BY <1>3, ParentsSame DEF LinkBackward
<1>5. link' \in [Thread -> LinkFrame] /\ \A u \in Thread \ {t} : link'[u] = link[u]
  BY FramesBuilt DEF OrderInv, TypeOK, LinkBackward
<1>6. StackStep(t)
  BY <1>1, <1>5, FusingStack DEF LinkBackward, Linking
<1>7. QED
  BY <1>4, <1>6, OrderFromParts

\* What a thread in FixupRefs holds.
LEMMA FixupFacts ==
    ASSUME OrderInv, NEW t \in Thread, pc[t] \in {"fixup_load", "fixup_cas"}
    PROVE  fuse[t].ai1 \in Arena /\ fuse[t].ai2 \in Arena /\ fuse[t].r1.root \in Arena
BY DEF OrderInv, FuseOrdered

\* _upb_Arena_FixupRefs, load.
LEMMA FixupRefsLoadOrdered ==
    ASSUME OrderInv, NEW t \in Thread, FixupRefsLoad(t)
    PROVE  OrderStep
<1> DEFINE w == parent_or_count[fuse[t].r1.root]
<1>1. pc[t] = "fixup_load" /\ UNCHANGED link
  BY DEF FixupRefsLoad, At
<1>2. fuse[t].ai1 \in Arena /\ fuse[t].ai2 \in Arena /\ fuse[t].r1.root \in Arena
  BY <1>1, FixupFacts
<1>3. w \in Word
  BY <1>2 DEF OrderInv, TypeOK
<1>4. MemoryStep
  BY MemorySame DEF FixupRefsLoad
<1>5. CASE Finish(t, "true")
  BY <1>1, <1>4, <1>5, FinishStack, OrderFromParts
<1>6. CASE Retry(t)
  BY <1>1, <1>2, <1>4, <1>6, RetryStack, OrderFromParts
<1>7. CASE /\ IsTaggedRefcount(w)
           /\ find' = [find EXCEPT ![t].poc = w]
           /\ Goto(t, "fixup_cas")
           /\ UNCHANGED <<call, fuse>>
  <2> HIDE DEF w
  <2>1. find' \in [Thread -> FindFrame] /\ find'[t].poc = w
    BY <1>3, <1>7 DEF OrderInv, TypeOK, FindFrame
  <2>2. pc' \in [Thread -> Label] /\ pc'[t] = "fixup_cas"
    BY <1>7 DEF OrderInv, TypeOK, Goto, Label
  <2>3. StackTyped' /\ OthersSame(t)
    BY <1>1, <1>7, <2>1, <2>2 DEF OrderInv, TypeOK, StackTyped, OthersSame, Goto
  <2>4. WalkOrdered(t)' /\ FuseOrdered(t)'
    BY <1>2, <1>7, <2>1, <2>2 DEF WalkOrdered, FuseOrdered, Finding, Linking, At
  <2>5. QED
    BY <1>4, <2>3, <2>4, OrderFromParts DEF StackStep
<1>8. QED
  BY <1>5, <1>6, <1>7 DEF FixupRefsLoad

\* _upb_Arena_FixupRefs, compare-exchange.
LEMMA FixupRefsCASOrdered ==
    ASSUME OrderInv, NEW t \in Thread, FixupRefsCAS(t)
    PROVE  OrderStep
<1> DEFINE root == fuse[t].r1.root
           w == find[t].poc
<1>1. pc[t] = "fixup_cas" /\ UNCHANGED <<lists, freed, refs, link, space>>
  BY DEF FixupRefsCAS, At
<1>2. fuse[t].ai1 \in Arena /\ fuse[t].ai2 \in Arena /\ root \in Arena
  BY <1>1, FixupFacts
<1>3. IsTaggedRefcount(w) /\ w \in Word /\ w.val \in Int
  BY <1>1, WordCases DEF OrderInv, TypeOK, FindFrame, WalkOrdered
<1>4. CASE parent_or_count[root] = w
  <2> DEFINE n == w.val - ref_delta[t]
  <2>1. /\ parent_or_count' = [parent_or_count EXCEPT ![root] = TaggedFromRefcount(n)]
        /\ ref_delta' = [ref_delta EXCEPT ![t] = 0]
        /\ owed' = [owed EXCEPT ![t] = NoneOwed]
        /\ Finish(t, "true")
    BY <1>4 DEF FixupRefsCAS
  <2>2. n \in Int
    BY <1>3 DEF OrderInv, TypeOK
  <2> HIDE DEF n
  <2>3. parent_or_count' \in [Arena -> Word]
    BY <1>2, <2>1, <2>2, WordTyped DEF OrderInv, TypeOK
  <2>4. ref_delta' \in [Thread -> Int] /\ owed' \in [Thread -> [Arena -> Int]]
    BY <2>1 DEF OrderInv, TypeOK, NoneOwed
  <2>5. MemoryTyped'
    BY <1>1, <2>3, <2>4 DEF OrderInv, TypeOK, MemoryTyped, lists
  <2>6. MemoryStep
    BY <1>2, <1>3, <1>4, <2>1, <2>2, <2>5, CountChanges
  <2>7. QED
    BY <1>1, <2>1, <2>6, FinishStack, OrderFromParts
<1>5. CASE parent_or_count[root] # w
  <2>1. Retry(t) /\ UNCHANGED <<parent_or_count, ref_delta, owed>>
    BY <1>5 DEF FixupRefsCAS
  <2>2. MemoryStep
    BY <1>1, <2>1, MemorySame DEF memory, lists
  <2>3. QED
    BY <1>1, <1>2, <2>1, <2>2, RetryStack, OrderFromParts
<1>6. QED
  BY <1>4, <1>5

\* What a thread about to compare-exchange a count through find holds.
LEMMA CountCASFacts ==
    ASSUME OrderInv, NEW t \in Thread, pc[t] \in {"incref_cas", "free_cas"}
    PROVE  /\ find[t].ai \in Arena /\ IsTaggedRefcount(find[t].poc)
           /\ find[t].poc \in Word /\ find[t].poc.val \in Int
<1>1. find[t].ai \in Arena /\ IsTaggedRefcount(find[t].poc) /\ find[t].poc \in Word
  BY DEF OrderInv, TypeOK, FindFrame, WalkOrdered
<1>2. QED
  BY <1>1, WordCases

\* upb_Arena_IncRefFor, compare-exchange.
LEMMA IncRefCASOrdered ==
    ASSUME OrderInv, NEW t \in Thread, IncRefCAS(t)
    PROVE  OrderStep
<1> DEFINE ai == find[t].ai
           w == find[t].poc
<1>1. pc[t] = "incref_cas" /\ UNCHANGED <<lists, freed, ref_delta, owed, link, space>>
  BY DEF IncRefCAS, At
<1>2. ai \in Arena /\ IsTaggedRefcount(w) /\ w.val \in Int
  BY <1>1, CountCASFacts
<1>3. call[t].a \in Arena
  BY <1>1 DEF OrderInv, WalkOrdered
<1> DEFINE Success == /\ parent_or_count[ai] = w
                      /\ parent_or_count' = [parent_or_count EXCEPT
                             ![ai] = TaggedFromRefcount(w.val + 1)]
                      /\ refs' = [refs EXCEPT ![call[t].a] = @ + 1]
                      /\ Finish(t, "true")
           Failure == /\ CallFindRoot(t, ai, "incref")
                      /\ UNCHANGED <<parent_or_count, refs, call, fuse>>
<1>4. CASE Success
  <2> DEFINE n == w.val + 1
  <2>1. /\ parent_or_count' = [parent_or_count EXCEPT ![ai] = TaggedFromRefcount(n)]
        /\ refs' = [refs EXCEPT ![call[t].a] = @ + 1]
        /\ Finish(t, "true")
    BY <1>4
  <2>2. n \in Int
    BY <1>2
  <2> HIDE DEF n
  <2>3. parent_or_count' \in [Arena -> Word]
    BY <1>2, <2>1, <2>2, WordTyped DEF OrderInv, TypeOK
  <2>4. refs' \in [Arena -> Nat]
    BY <1>3, <2>1 DEF OrderInv, TypeOK
  <2>5. MemoryTyped'
    BY <1>1, <2>3, <2>4 DEF OrderInv, TypeOK, MemoryTyped, lists
  <2>6. MemoryStep
    BY <1>2, <1>4, <2>1, <2>2, <2>5, CountChanges
  <2>7. QED
    BY <1>1, <2>1, <2>6, FinishStack, OrderFromParts
<1>5. CASE Failure
  <2>1. CallFindRoot(t, ai, "incref") /\ UNCHANGED <<parent_or_count, refs, call, fuse>>
    BY <1>5
  <2>2. MemoryStep
    BY <1>1, <2>1, MemorySame DEF memory, lists
  <2>3. /\ call' \in [Thread -> CallFrame] /\ fuse' \in [Thread -> FuseFrame]
        /\ \A u \in Thread \ {t} : call'[u] = call[u] /\ fuse'[u] = fuse[u]
        /\ call'[t].a \in Arena
    BY <1>3, <2>1 DEF OrderInv, TypeOK
  <2>4. StackStep(t)
    BY <1>1, <1>2, <2>1, <2>3, CallFindRootStack
  <2>5. QED
    BY <2>2, <2>4, OrderFromParts
<1>6. QED
  BY <1>4, <1>5 DEF IncRefCAS

\* upb_Arena_Free, load.
LEMMA FreeLoadOrdered ==
    ASSUME OrderInv, NEW t \in Thread, FreeLoad(t)
    PROVE  OrderStep
<1> DEFINE w == parent_or_count[find[t].ai]
<1>1. find[t].ai \in Arena /\ UNCHANGED link
  BY DEF OrderInv, FreeLoad, WalkOrdered, At
<1>2. w \in Word
  BY <1>1 DEF OrderInv, TypeOK
<1>3. MemoryStep
  BY MemorySame DEF FreeLoad
<1>4. FreeWith(t, w)
  BY DEF FreeLoad
<1>5. QED
  BY <1>1, <1>2, <1>3, <1>4, FreeWithStack, OrderFromParts

\* upb_Arena_Free, compare-exchange.
LEMMA FreeCASOrdered ==
    ASSUME OrderInv, NEW t \in Thread, FreeCAS(t)
    PROVE  OrderStep
<1> DEFINE ai == find[t].ai
           w == find[t].poc
<1>1. pc[t] = "free_cas" /\ UNCHANGED <<lists, freed, refs, ref_delta, owed, link, space>>
  BY DEF FreeCAS, At
<1>2. ai \in Arena /\ IsTaggedRefcount(w) /\ w.val \in Int
  BY <1>1, CountCASFacts
<1>3. CASE parent_or_count[ai] = w
  <2> DEFINE n == w.val - 1
  <2>1. /\ parent_or_count' = [parent_or_count EXCEPT ![ai] = TaggedFromRefcount(n)]
        /\ Finish(t, "true")
    BY <1>3 DEF FreeCAS
  <2>2. n \in Int
    BY <1>2
  <2> HIDE DEF n
  <2>3. parent_or_count' \in [Arena -> Word]
    BY <1>2, <2>1, <2>2, WordTyped DEF OrderInv, TypeOK
  <2>4. MemoryTyped'
    BY <1>1, <2>3 DEF OrderInv, TypeOK, MemoryTyped, lists
  <2>5. MemoryStep
    BY <1>2, <1>3, <2>1, <2>2, <2>4, CountChanges
  <2>6. QED
    BY <1>1, <2>1, <2>5, FinishStack, OrderFromParts
<1>4. CASE parent_or_count[ai] # w
  <2>1. FreeWith(t, parent_or_count[ai]) /\ UNCHANGED parent_or_count
    BY <1>4 DEF FreeCAS
  <2>2. parent_or_count[ai] \in Word
    BY <1>2 DEF OrderInv, TypeOK
  <2>3. MemoryStep
    BY <1>1, <2>1, MemorySame DEF memory, lists
  <2>4. QED
    BY <1>1, <1>2, <2>1, <2>2, <2>3, FreeWithStack, OrderFromParts
<1>5. QED
  BY <1>3, <1>4

\* _upb_Arena_DoFree, one arena.
LEMMA DoFreeOrdered ==
    ASSUME OrderInv, NEW t \in Thread, DoFree(t)
    PROVE  OrderStep
<1> DEFINE ai == find[t].ai
<1>1. pc[t] = "do_free" /\ ai \in Arena /\ UNCHANGED link
  BY DEF OrderInv, DoFree, WalkOrdered, At
<1>2. MemoryStep
  <2>1. MemoryTyped'
    BY <1>1 DEF OrderInv, TypeOK, MemoryTyped, DoFree, lists
  <2>2. QED
    BY <2>1, ParentsSame DEF DoFree
<1>3. CASE Finish(t, "true")
  BY <1>1, <1>2, <1>3, FinishStack, OrderFromParts
<1>4. CASE next[ai] # NULL /\ WalkTo(t, next[ai])
  <2>1. next[ai] \in Arena
    BY <1>1, <1>4, ArenaMaybe DEF OrderInv, TypeOK
  <2>2. QED
    BY <1>1, <1>2, <1>4, <2>1, WalkToStack, OrderFromParts
<1>5. QED
  BY <1>3, <1>4 DEF DoFree

\* Counting an arena keeps the frame of upb_Arena_SpaceAllocated a frame.
LEMMA CountMemory ==
    ASSUME OrderInv, NEW t \in Thread, NEW a \in Arena, Count(t, a),
           UNCHANGED <<memory, refs, ref_delta, owed>>
    PROVE  MemoryStep
<1>1. [counted |-> space[t].counted \cup {a}, fused_count |-> space[t].fused_count + 1,
       visible |-> space[t].visible] \in SpaceFrame
  BY DEF OrderInv, TypeOK, SpaceFrame
<1>2. space' \in [Thread -> SpaceFrame]
  BY <1>1 DEF OrderInv, TypeOK, Count
<1>3. MemoryTyped'
  BY <1>2 DEF OrderInv, TypeOK, MemoryTyped, memory
<1>4. QED
  BY <1>3, ParentsSame DEF memory

\* upb_Arena_SpaceAllocated, backwards.
LEMMA SpaceBackwardOrdered ==
    ASSUME OrderInv, NEW t \in Thread, SpaceBackward(t)
    PROVE  OrderStep
<1> DEFINE w == previous_or_tail[find[t].ai]
<1>1. /\ pc[t] = "space_backward" /\ find[t].ai \in Arena /\ call[t].a \in Arena
      /\ UNCHANGED <<memory, refs, ref_delta, owed, link>>
  BY DEF OrderInv, SpaceBackward, WalkOrdered, At
<1>2. w.val \in Arena
  BY <1>1, ListWordTyped DEF OrderInv, TypeOK
<1>3. CASE IsTaggedTail(w)
  <2>1. /\ find' = [find EXCEPT ![t].ai = call[t].a]
        /\ Goto(t, "space_forward") /\ UNCHANGED <<call, fuse, space>>
    BY <1>3 DEF SpaceBackward, TurnAround
  <2>2. MemoryStep
    BY <1>1, <2>1, MemorySame
  <2>3. find' \in [Thread -> FindFrame] /\ find'[t].ai \in Arena
    BY <1>1, <2>1, ArenaMaybe, CursorMoved DEF OrderInv, TypeOK
  <2>4. pc' \in [Thread -> Label] /\ pc'[t] = "space_forward"
    BY <2>1 DEF OrderInv, TypeOK, Goto, Label
  <2>5. StackTyped' /\ OthersSame(t)
    BY <1>1, <2>1, <2>3, <2>4 DEF OrderInv, TypeOK, StackTyped, OthersSame, Goto
  <2>6. WalkOrdered(t)' /\ FuseOrdered(t)'
    BY <2>3, <2>4 DEF WalkOrdered, FuseOrdered, Finding, Linking, At
  <2>7. QED
    BY <2>2, <2>5, <2>6, OrderFromParts DEF StackStep
<1>4. CASE ~IsTaggedTail(w)
  <2>1. Count(t, w.val) /\ WalkTo(t, w.val)
    BY <1>4 DEF SpaceBackward
  <2>2. QED
    BY <1>1, <1>2, <2>1, CountMemory, WalkToStack, OrderFromParts
<1>5. QED
  BY <1>3, <1>4

\* upb_Arena_SpaceAllocated, forwards.
LEMMA SpaceForwardOrdered ==
    ASSUME OrderInv, NEW t \in Thread, SpaceForward(t)
    PROVE  OrderStep
<1> DEFINE ai == find[t].ai
<1>1. pc[t] = "space_forward" /\ ai \in Arena /\ UNCHANGED link
  BY DEF OrderInv, SpaceForward, WalkOrdered, At
<1>2. MemoryStep
  BY <1>1, CountMemory DEF SpaceForward
<1>3. CASE Finish(t, "true")
  BY <1>1, <1>2, <1>3, FinishStack, OrderFromParts
<1>4. CASE next[ai] # NULL /\ WalkTo(t, next[ai])
  <2>1. next[ai] \in Arena
    BY <1>1, <1>4, ArenaMaybe DEF OrderInv, TypeOK
  <2>2. QED
    BY <1>1, <1>2, <1>4, <2>1, WalkToStack, OrderFromParts
<1>5. QED
  BY <1>3, <1>4 DEF SpaceForward

----------------------------------------------------------------------------
(***************************************************************************)
(* The theorems about order.                                               *)
(***************************************************************************)

\* The initial state is in order.
LEMMA InitOrdered ==
    ASSUME Init
    PROVE  OrderInv
<1>1. \A a \in Arena : ~IsTaggedPointer(parent_or_count[a])
  BY TagOfWord DEF Init
<1>2. ParentBelow
  BY <1>1 DEF ParentBelow
<1>3. MemoryTyped
  <2>1. parent_or_count \in [Arena -> Word]
    BY WordTyped, RefsAssumption DEF Init
  <2>2. next \in [Arena -> MaybeArena] /\ previous_or_tail \in [Arena -> ListWord]
    BY ArenaMaybe, ListWordTyped DEF Init
  <2>3. refs \in [Arena -> Nat]
    BY RefsAssumption DEF Init
  <2>4. ref_delta \in [Thread -> Int] /\ owed \in [Thread -> [Arena -> Int]]
    BY DEF Init, NoneOwed
  <2>5. space \in [Thread -> SpaceFrame]
    BY DEF Init, NoSpace, SpaceFrame
  <2>6. QED
    BY <2>1, <2>2, <2>3, <2>4, <2>5 DEF Init, MemoryTyped
<1>4. StackTyped
  <2>1. NoCall \in CallFrame /\ NoFind \in FindFrame /\ NoFuse \in FuseFrame /\ NoLink \in LinkFrame
    BY FramesBuilt, ArenaMaybe DEF NoCall, NoFind, NoFuse
  <2>2. QED
    BY <2>1 DEF Init, StackTyped, Label
<1>5. TypeOK
  BY <1>3, <1>4 DEF TypeOK, MemoryTyped, StackTyped
<1>6. \A t \in Thread : WalkOrdered(t) /\ FuseOrdered(t)
  BY DEF Init, WalkOrdered, FuseOrdered, Finding, Linking, At
<1>7. QED
  BY <1>2, <1>5, <1>6 DEF OrderInv

\* Every step keeps the order and un-roots nobody twice.
LEMMA NextOrdered ==
    ASSUME OrderInv, Next
    PROVE  OrderStep
<1>1. PICK t \in Thread : Start(t) \/ Step(t)
  BY DEF Next
<1>2. CASE Start(t)
  <2>1. CASE \E p \in Pairs : StartFuse(t, p[1], p[2]) \/ StartIsFused(t, p[1], p[2])
    <3>1. PICK p \in Pairs : StartFuse(t, p[1], p[2]) \/ StartIsFused(t, p[1], p[2])
      BY <2>1
    <3>2. p[1] \in Arena /\ p[2] \in Arena
      BY OpsAssumption
    <3>3. QED
      BY <3>1, <3>2, StartFuseOrdered, StartIsFusedOrdered
  <2>2. CASE \E a \in Arena : \/ StartIncRef(t, a)
                              \/ StartFree(t, a)
                              \/ StartSpaceAllocated(t, a)
    BY <2>2, StartIncRefOrdered, StartFreeOrdered, StartSpaceAllocatedOrdered
  <2>3. QED
    BY <1>2, <2>1, <2>2 DEF Start
<1>3. CASE Step(t)
  BY <1>3, ReturnOrdered, FindRootLoadOrdered, FindRootReloadOrdered,
     FindRootNextOrdered, FindRootSplitOrdered, DoFuseAddRefsOrdered,
     DoFuseReparentOrdered, LinkForwardStartOrdered, LinkForwardWalkOrdered,
     LinkForwardCASOrdered, UpdateTailChildOrdered, UpdateTailParentOrdered,
     UpdateTailCASOrdered, LinkBackwardOrdered, FixupRefsLoadOrdered,
     FixupRefsCASOrdered, IncRefCASOrdered, FreeLoadOrdered, FreeCASOrdered,
     DoFreeOrdered, SpaceBackwardOrdered, SpaceForwardOrdered
     DEF Step
<1>4. QED
  BY <1>1, <1>2, <1>3

\* OrderInv holds in every state, for any number of arenas and threads.
THEOREM OrderInvariant == Spec => []OrderInv
<1>1. Init => OrderInv
  BY InitOrdered
<1>2. OrderInv /\ [Next]_vars => OrderInv'
  <2> SUFFICES ASSUME OrderInv, [Next]_vars
               PROVE  OrderInv'
    OBVIOUS
  <2>1. CASE Next
    BY <2>1, NextOrdered DEF OrderStep
  <2>2. CASE UNCHANGED vars
    <3>1. MemoryStep
      BY <2>2, MemorySame DEF vars
    <3>2. /\ UNCHANGED <<parent_or_count, pc, call, find, fuse, link>>
      BY <2>2 DEF vars, memory
    <3>3. StackTyped'
      BY <3>2 DEF OrderInv, TypeOK, StackTyped
    <3>4. TypeOK'
      BY <3>1, <3>3 DEF MemoryStep, TypeOK, MemoryTyped, StackTyped
    <3>5. \A t \in Thread : WalkOrdered(t)' /\ FuseOrdered(t)'
      BY <3>2 DEF OrderInv, WalkOrdered, FuseOrdered, At
    <3>6. QED
      BY <3>1, <3>4, <3>5 DEF OrderInv, MemoryStep
  <2>3. QED
    BY <2>1, <2>2
<1>3. QED
  BY <1>1, <1>2, PTL DEF Spec

\* The words of memory and the frames of the threads always have their shape.
THEOREM TypeCorrect == Spec => []TypeOK
<1>1. OrderInv => TypeOK
  BY DEF OrderInv
<1>2. QED
  BY <1>1, OrderInvariant, PTL

\* "Avoid cycles by always fusing into the root with the lower address": the
\* parent pointers never form a cycle.
THEOREM ParentsBelow == Spec => []ParentBelow
<1>1. OrderInv => ParentBelow
  BY DEF OrderInv
<1>2. QED
  BY <1>1, OrderInvariant, PTL

\* "If this Arena isn't a root, it can't ever become one."
THEOREM NonRootForever == Spec => NeverRootAgain
<1>1. OrderInv /\ [Next]_vars =>
          [\A a \in Arena : IsTaggedPointer(parent_or_count[a]) =>
                                IsTaggedPointer(parent_or_count'[a])]_vars
  BY NextOrdered DEF OrderStep, NonRootsStay
<1>2. QED
  BY <1>1, OrderInvariant, PTL DEF Spec, NeverRootAgain

----------------------------------------------------------------------------
(***************************************************************************)
(* Proofs about the doubly linked lists of ArenaFuse, for any number of    *)
(* arenas and threads.  A thread that has reparented a root owns the       *)
(* linking of that root until its previous pointer is set; no other thread *)
(* ever gets to link it, because a non-root never becomes a root again.    *)
(***************************************************************************)

\* The arena a linking thread appends to the list of its parent.
Child(t) == fuse[t].r2.root

\* An arena keeps a cached tail as long as it is a root.
RootsHaveTails ==
    \A a \in Arena : IsTaggedRefcount(parent_or_count[a]) => IsTaggedTail(previous_or_tail[a])

\* What a linking thread knows of its child.
LinkerOK(t) ==
    /\ pc[t] \in Linking => /\ IsTaggedPointer(parent_or_count[Child(t)])
                            /\ IsTaggedTail(previous_or_tail[Child(t)])
    /\ pc[t] \in Linked => next[link[t].tail] = Child(t)

\* No two threads link the same child.
LinkersApart ==
    \A t, u \in Thread : t # u /\ pc[t] \in Linking /\ pc[u] \in Linking => Child(t) # Child(u)

\* A forward link has its backward link, or a thread that is about to set it.
ForwardOwned ==
    \A a \in Arena : next[a] # NULL =>
        \/ previous_or_tail[next[a]] = TaggedFromPrevious(a)
        \/ \E t \in Thread : pc[t] \in Linked /\ Child(t) = next[a] /\ link[t].tail = a

\* The inductive invariant, on top of OrderInv.
ListInv ==
    /\ PreviousPointsBack /\ RootsHaveTails /\ LinkersApart /\ ForwardOwned
    /\ \A t \in Thread : LinkerOK(t)

LinksStay ==
    \A a \in Arena :
        /\ next[a] # NULL => next'[a] = next[a]
        /\ ~IsTaggedTail(previous_or_tail[a]) => previous_or_tail'[a] = previous_or_tail[a]

ListStep == ListInv' /\ LinksStay

----------------------------------------------------------------------------
(***************************************************************************)
(* Steps that do not link.                                                 *)
(***************************************************************************)
LEMMA ListWordTags ==
    /\ \A a : IsTaggedTail(TaggedFromTail(a)) /\ TaggedFromTail(a).val = a
    /\ \A a : ~IsTaggedTail(TaggedFromPrevious(a)) /\ TaggedFromPrevious(a).val = a
BY DEF IsTaggedTail, TaggedFromTail, TaggedFromPrevious

LEMMA LinkerTyped ==
    ASSUME OrderInv, NEW t \in Thread, pc[t] \in Linking
    PROVE  /\ Child(t) \in Arena /\ Child(t) # NULL
           /\ fuse[t].r1.root \in Arena
           /\ pc[t] # "link_tail" => link[t].tail \in Arena
<1>1. FuseOrdered(t)
  BY DEF OrderInv
<1> QED BY <1>1, ArenaNat DEF FuseOrdered, Child

\* What the other threads do not see of a step.
Unseen(t) ==
    \A u \in Thread \ {t} : pc'[u] = pc[u] /\ fuse'[u] = fuse[u] /\ link'[u] = link[u]

\* A step of a thread that is not linking, and does not begin to.
Quiet(t) ==
    UNCHANGED lists /\ Unseen(t) /\ pc[t] \notin Linking /\ pc'[t] \notin Linking

LEMMA QuietStep ==
    ASSUME OrderInv, OrderStep, ListInv, NEW t \in Thread, Quiet(t)
    PROVE  ListStep
<1> USE DEF Quiet
<1>1. next' = next /\ previous_or_tail' = previous_or_tail
  BY DEF lists
<1>2. PreviousPointsBack' /\ LinksStay
  BY <1>1 DEF ListInv, PreviousPointsBack, LinksStay
<1>3. RootsHaveTails'
  <2> SUFFICES ASSUME NEW a \in Arena, IsTaggedRefcount(parent_or_count'[a])
               PROVE  IsTaggedTail(previous_or_tail'[a])
    BY DEF RootsHaveTails
  <2>1. parent_or_count[a] \in Word
    BY DEF OrderInv, TypeOK
  <2>2. IsTaggedRefcount(parent_or_count[a])
    BY <2>1, WordCases DEF OrderStep, NonRootsStay, IsTaggedRefcount, IsTaggedPointer
  <2> QED BY <1>1, <2>2 DEF ListInv, RootsHaveTails
<1>4. \A u \in Thread : pc'[u] \in Linking => u # t /\ pc[u] \in Linking /\ pc'[u] = pc[u]
                                             /\ Child(u)' = Child(u) /\ link'[u] = link[u]
  BY DEF Unseen, Child
<1>5. LinkersApart'
  BY <1>4 DEF ListInv, LinkersApart
<1>6. ASSUME NEW u \in Thread PROVE LinkerOK(u)'
  <2>1. CASE pc'[u] \in Linking
    <3>1. LinkerOK(u) /\ Child(u) \in Arena
      BY <1>4, <2>1, LinkerTyped DEF ListInv
    <3> QED BY <1>1, <1>4, <2>1, <3>1 DEF LinkerOK, OrderStep, NonRootsStay
  <2>2. CASE pc'[u] \notin Linking
    BY <2>2 DEF LinkerOK, Linking, Linked
  <2> QED BY <2>1, <2>2
<1>7. ForwardOwned'
  <2> SUFFICES ASSUME NEW a \in Arena, next[a] # NULL,
                      previous_or_tail[next[a]] # TaggedFromPrevious(a)
               PROVE  \E u \in Thread : (pc[u] \in Linked /\ Child(u) = next[a]
                                                          /\ link[u].tail = a)'
    BY <1>1 DEF ForwardOwned
  <2>1. PICK u \in Thread : pc[u] \in Linked /\ Child(u) = next[a] /\ link[u].tail = a
    BY DEF ListInv, ForwardOwned
  <2>2. u # t
    BY <2>1 DEF Linking, Linked
  <2> QED BY <1>1, <2>1, <2>2 DEF Unseen, Child
<1> QED BY <1>2, <1>3, <1>5, <1>6, <1>7 DEF ListStep, ListInv

----------------------------------------------------------------------------
(***************************************************************************)
(* Steps that link.                                                        *)
(***************************************************************************)

\* What of the invariant a step of thread t keeps, if it stores no link.
LEMMA LinkerMoves ==
    ASSUME OrderInv, OrderStep, ListInv, NEW t \in Thread, UNCHANGED lists, Unseen(t),
           pc[t] \in Linking, pc'[t] \in Linking, fuse'[t] = fuse[t],
           pc[t] \in Linked => link'[t].tail = link[t].tail /\ pc'[t] \in Linked,
           pc'[t] \in Linked => pc[t] \in Linked,
           UNCHANGED parent_or_count
    PROVE  ListStep
<1>1. next' = next /\ previous_or_tail' = previous_or_tail
  BY DEF lists
<1>2. PreviousPointsBack' /\ LinksStay /\ RootsHaveTails'
  BY <1>1 DEF ListInv, PreviousPointsBack, LinksStay, RootsHaveTails
<1>3. /\ \A u \in Thread : Child(u)' = Child(u)
      /\ \A u \in Thread : pc'[u] \in Linking <=> pc[u] \in Linking
      /\ \A u \in Thread : pc'[u] \in Linked <=> pc[u] \in Linked
      /\ \A u \in Thread : pc[u] \in Linked => link'[u].tail = link[u].tail
  BY DEF Unseen, Child
<1>4. LinkersApart'
  BY <1>3 DEF ListInv, LinkersApart
<1>5. ASSUME NEW u \in Thread PROVE LinkerOK(u)'
  <2>1. LinkerOK(u)
    BY DEF ListInv
  <2> QED BY <1>1, <1>3, <2>1 DEF LinkerOK
<1>6. ForwardOwned'
  BY <1>1, <1>3 DEF ListInv, ForwardOwned
<1> QED BY <1>2, <1>4, <1>5, <1>6 DEF ListStep, ListInv

\* A walk along the list, and the loads of the cached tails.
LEMMA LinkWalks ==
    ASSUME OrderInv, OrderStep, ListInv, NEW t \in Thread,
           \/ LinkForwardStart(t) \/ LinkForwardWalk(t)
           \/ UpdateTailChild(t) \/ UpdateTailParent(t)
    PROVE  ListStep
<1>0. pc \in [Thread -> Label] /\ link \in [Thread -> LinkFrame]
  BY DEF OrderInv, TypeOK
<1>1. CASE LinkForwardStart(t)
  <2>1. /\ UNCHANGED lists /\ UNCHANGED parent_or_count /\ fuse' = fuse /\ Unseen(t)
        /\ pc[t] = "link_tail" /\ pc'[t] = "link_next"
    BY <1>0, <1>1 DEF LinkForwardStart, memory, lists, Goto, At, Unseen
  <2> QED BY <2>1, LinkerMoves DEF Linking, Linked
<1>2. CASE LinkForwardWalk(t)
  <2>1. /\ UNCHANGED lists /\ UNCHANGED parent_or_count /\ fuse' = fuse /\ Unseen(t)
        /\ pc[t] = "link_next" /\ pc'[t] \in {"link_next", "link_cas"}
    BY <1>0, <1>2 DEF LinkForwardWalk, memory, lists, Goto, At, Unseen
  <2> QED BY <2>1, LinkerMoves DEF Linking, Linked
<1>3. CASE UpdateTailChild(t)
  <2>1. /\ UNCHANGED lists /\ UNCHANGED parent_or_count /\ fuse' = fuse /\ Unseen(t)
        /\ pc[t] = "tail_child" /\ pc'[t] = "tail_parent"
    BY <1>0, <1>3 DEF UpdateTailChild, memory, lists, Goto, At, Unseen
  <2>2. link'[t].tail = link[t].tail
    BY <1>0, <1>3 DEF UpdateTailChild, LinkFrame
  <2> QED BY <2>1, <2>2, LinkerMoves DEF Linking, Linked
<1>4. CASE UpdateTailParent(t)
  <2>1. /\ UNCHANGED lists /\ UNCHANGED parent_or_count /\ fuse' = fuse /\ Unseen(t)
        /\ pc[t] = "tail_parent" /\ pc'[t] \in {"tail_cas", "link_back"}
    BY <1>0, <1>4 DEF UpdateTailParent, memory, lists, Goto, At, Unseen
  <2>2. link'[t].tail = link[t].tail
    BY <1>0, <1>4 DEF UpdateTailParent, LinkFrame
  <2> QED BY <2>1, <2>2, LinkerMoves DEF Linking, Linked
<1> QED BY <1>1, <1>2, <1>3, <1>4

\* The forward link is set where there is none.
LEMMA LinkForwardCASLists ==
    ASSUME OrderInv, OrderStep, ListInv, NEW t \in Thread, LinkForwardCAS(t)
    PROVE  ListStep
<1>0. /\ pc \in [Thread -> Label] /\ link \in [Thread -> LinkFrame]
      /\ next \in [Arena -> MaybeArena]
  BY DEF OrderInv, TypeOK
<1>a. PICK tail, c : tail = link[t].tail /\ c = Child(t)
  OBVIOUS
<1>1. /\ pc[t] = "link_cas" /\ fuse' = fuse /\ previous_or_tail' = previous_or_tail
      /\ parent_or_count' = parent_or_count
  BY DEF LinkForwardCAS, At
<1>2. tail \in Arena /\ c \in Arena /\ c # NULL
  BY <1>a, <1>1, LinkerTyped DEF Linking
<1>3. CASE next[tail] # NULL
  <2>1. /\ UNCHANGED lists /\ Unseen(t) /\ pc'[t] = "link_next"
    BY <1>0, <1>a, <1>3 DEF LinkForwardCAS, lists, Goto, Unseen
  <2> QED BY <1>1, <2>1, LinkerMoves DEF Linking, Linked
<1>4. CASE next[tail] = NULL
  <2>1. /\ next' = [next EXCEPT ![tail] = c] /\ pc' = [pc EXCEPT ![t] = "tail_child"]
        /\ link' = link
    BY <1>a, <1>4 DEF LinkForwardCAS, Goto, Child
  <2>2. /\ next'[tail] = c /\ \A a \in Arena : a # tail => next'[a] = next[a]
        /\ pc'[t] = "tail_child" /\ \A u \in Thread : u # t => pc'[u] = pc[u]
        /\ \A u \in Thread : Child(u)' = Child(u)
    BY <1>0, <1>1, <1>2, <2>1 DEF Child
  <2>3. LinksStay
    BY <1>1, <1>4, <2>2 DEF LinksStay
  <2>4. PreviousPointsBack'
    <3> SUFFICES ASSUME NEW a \in Arena, ~IsTaggedTail(previous_or_tail[a])
                 PROVE  next'[previous_or_tail[a].val] = a
      BY <1>1 DEF PreviousPointsBack
    <3>1. next[previous_or_tail[a].val] = a /\ a # NULL /\ previous_or_tail[a].val \in Arena
      BY ArenaNat, ListWordTyped DEF ListInv, PreviousPointsBack, OrderInv, TypeOK
    <3> QED BY <1>4, <2>2, <3>1
  <2>5. RootsHaveTails'
    BY <1>1 DEF ListInv, RootsHaveTails
  <2>6. \A u \in Thread : pc'[u] \in Linking => pc[u] \in Linking
    BY <1>1, <2>2 DEF Linking
  <2>7. LinkersApart'
    BY <2>2, <2>6 DEF ListInv, LinkersApart
  <2>8. ASSUME NEW u \in Thread PROVE LinkerOK(u)'
    <3>1. LinkerOK(u)
      BY DEF ListInv
    <3>2. CASE u = t
      BY <1>a, <1>1, <2>1, <2>2, <3>1, <3>2 DEF LinkerOK, Linking, Linked
    <3>3. CASE u # t /\ pc[u] \in Linked
      <4>1. pc[u] \in Linking /\ pc[u] # "link_tail"
        BY <3>3 DEF Linking, Linked
      <4>2. link[u].tail \in Arena /\ Child(u) # NULL
        BY <4>1, LinkerTyped
      <4>3. next[link[u].tail] = Child(u)
        BY <3>1, <3>3 DEF LinkerOK
      <4>4. next'[link[u].tail] = Child(u)
        BY <1>4, <2>2, <4>2, <4>3
      <4> QED BY <1>1, <2>1, <2>2, <3>1, <3>3, <4>4 DEF LinkerOK
    <3>4. CASE u # t /\ pc[u] \notin Linked
      BY <1>1, <2>2, <3>1, <3>4 DEF LinkerOK
    <3> QED BY <3>2, <3>3, <3>4
  <2>9. ForwardOwned'
    <3> SUFFICES ASSUME NEW a \in Arena, next'[a] # NULL,
                        previous_or_tail[next'[a]] # TaggedFromPrevious(a)
                 PROVE  \E u \in Thread : (pc[u] \in Linked /\ Child(u) = next[a]
                                                            /\ link[u].tail = a)'
      BY <1>1 DEF ForwardOwned
    <3>1. CASE a = tail
      BY <1>a, <2>1, <2>2, <3>1 DEF Linked
    <3>2. CASE a # tail
      <4>1. PICK u \in Thread : pc[u] \in Linked /\ Child(u) = next[a] /\ link[u].tail = a
        BY <2>2, <3>2 DEF ListInv, ForwardOwned
      <4>2. u # t
        BY <1>1, <4>1 DEF Linked
      <4> QED BY <2>1, <2>2, <3>2, <4>1, <4>2
    <3> QED BY <3>1, <3>2
  <2> QED BY <2>3, <2>4, <2>5, <2>7, <2>8, <2>9 DEF ListStep, ListInv
<1> QED BY <1>3, <1>4

\* A cached tail is replaced by another.
LEMMA UpdateTailCASLists ==
    ASSUME OrderInv, OrderStep, ListInv, NEW t \in Thread, UpdateTailCAS(t)
    PROVE  ListStep
<1>0. pc \in [Thread -> Label] /\ previous_or_tail \in [Arena -> ListWord]
  BY DEF OrderInv, TypeOK
<1>a. PICK p : p = fuse[t].r1.root
  OBVIOUS
<1>1. /\ pc[t] = "tail_cas" /\ pc' = [pc EXCEPT ![t] = "link_back"]
      /\ UNCHANGED <<parent_or_count, next, fuse, link>>
  BY DEF UpdateTailCAS, At, Goto
<1>2. p \in Arena
  BY <1>a, <1>1, LinkerTyped DEF Linking
<1>3. pc'[t] = "link_back" /\ Unseen(t)
  BY <1>0, <1>1 DEF Unseen
<1>4. CASE UNCHANGED previous_or_tail
  BY <1>1, <1>3, <1>4, LinkerMoves DEF lists, Linking, Linked
<1>5. CASE /\ previous_or_tail[p] = TaggedFromTail(link[t].old_tail)
           /\ previous_or_tail' = [previous_or_tail EXCEPT ![p] = TaggedFromTail(link[t].new_tail)]
  <2>1. /\ IsTaggedTail(previous_or_tail[p]) /\ IsTaggedTail(previous_or_tail'[p])
        /\ \A a \in Arena : a # p => previous_or_tail'[a] = previous_or_tail[a]
    BY <1>0, <1>2, <1>5, ListWordTags
  <2>2. \A a \in Arena : /\ IsTaggedTail(previous_or_tail'[a]) <=> IsTaggedTail(previous_or_tail[a])
                         /\ ~IsTaggedTail(previous_or_tail[a]) =>
                                previous_or_tail'[a] = previous_or_tail[a]
    BY <2>1
  <2>3. LinksStay /\ PreviousPointsBack' /\ RootsHaveTails'
    BY <1>1, <2>2 DEF LinksStay, ListInv, PreviousPointsBack, RootsHaveTails
  <2>4. /\ \A u \in Thread : Child(u)' = Child(u)
        /\ \A u \in Thread : pc'[u] \in Linking <=> pc[u] \in Linking
        /\ \A u \in Thread : pc'[u] \in Linked <=> pc[u] \in Linked
    BY <1>0, <1>1 DEF Child, Linking, Linked
  <2>5. LinkersApart'
    BY <2>4 DEF ListInv, LinkersApart
  <2>6. ASSUME NEW u \in Thread PROVE LinkerOK(u)'
    <3>1. LinkerOK(u)
      BY DEF ListInv
    <3>2. pc[u] \in Linking => Child(u) \in Arena
      BY LinkerTyped
    <3> QED BY <1>1, <2>2, <2>4, <3>1, <3>2 DEF LinkerOK
  <2>7. ForwardOwned'
    <3> SUFFICES ASSUME NEW a \in Arena, next[a] # NULL
                 PROVE  \/ previous_or_tail'[next[a]] = TaggedFromPrevious(a)
                        \/ \E u \in Thread : (pc[u] \in Linked /\ Child(u) = next[a]
                                                               /\ link[u].tail = a)'
      BY <1>1 DEF ForwardOwned
    <3>1. CASE previous_or_tail[next[a]] = TaggedFromPrevious(a)
      <4>1. next[a] \in Arena
        BY ArenaMaybe DEF OrderInv, TypeOK
      <4>2. ~IsTaggedTail(previous_or_tail[next[a]])
        BY <3>1, ListWordTags
      <4> QED BY <2>2, <3>1, <4>1, <4>2
    <3>2. CASE \E u \in Thread : pc[u] \in Linked /\ Child(u) = next[a] /\ link[u].tail = a
      BY <1>1, <2>4, <3>2
    <3> QED BY <3>1, <3>2 DEF ListInv, ForwardOwned
  <2> QED BY <2>3, <2>5, <2>6, <2>7 DEF ListStep, ListInv
<1> QED BY <1>a, <1>4, <1>5 DEF UpdateTailCAS

\* The backward link is set: the child was still a tail, and nobody else links
\* it.
LEMMA LinkBackwardLists ==
    ASSUME OrderInv, OrderStep, ListInv, NEW t \in Thread, LinkBackward(t)
    PROVE  ListStep
<1>0. /\ pc \in [Thread -> Label] /\ previous_or_tail \in [Arena -> ListWord]
      /\ link \in [Thread -> LinkFrame]
  BY DEF OrderInv, TypeOK
<1>a. PICK c, tail : c = Child(t) /\ tail = link[t].tail
  OBVIOUS
<1>1. /\ pc[t] = "link_back" /\ pc' = [pc EXCEPT ![t] = "fixup_load"]
      /\ previous_or_tail' = [previous_or_tail EXCEPT ![c] = TaggedFromPrevious(tail)]
      /\ link' = [link EXCEPT ![t] = NoLink]
      /\ UNCHANGED <<parent_or_count, next, fuse>>
  BY <1>a DEF LinkBackward, At, Goto, Child
<1>2. c \in Arena /\ tail \in Arena
  BY <1>a, <1>1, LinkerTyped DEF Linking
<1>3. /\ IsTaggedPointer(parent_or_count[c]) /\ IsTaggedTail(previous_or_tail[c])
      /\ next[tail] = c
  BY <1>a, <1>1 DEF ListInv, LinkerOK, Linking, Linked
<1>4. /\ previous_or_tail'[c] = TaggedFromPrevious(tail)
      /\ \A a \in Arena : a # c => previous_or_tail'[a] = previous_or_tail[a]
  BY <1>0, <1>1, <1>2
<1>5. LinksStay
  BY <1>1, <1>3, <1>4 DEF LinksStay
<1>6. PreviousPointsBack'
  <2> SUFFICES ASSUME NEW a \in Arena, ~IsTaggedTail(previous_or_tail'[a])
               PROVE  next[previous_or_tail'[a].val] = a
    BY <1>1 DEF PreviousPointsBack
  <2>1. CASE a = c
    BY <1>3, <1>4, <2>1, ListWordTags
  <2>2. CASE a # c
    BY <1>4, <2>2 DEF ListInv, PreviousPointsBack
  <2> QED BY <2>1, <2>2
<1>7. RootsHaveTails'
  BY <1>1, <1>3, <1>4 DEF ListInv, RootsHaveTails, IsTaggedRefcount, IsTaggedPointer
<1>8. \A u \in Thread : pc'[u] \in Linking =>
          /\ u # t /\ pc[u] \in Linking /\ pc'[u] = pc[u] /\ Child(u)' = Child(u)
          /\ link'[u] = link[u]
  BY <1>0, <1>1 DEF Linking, Child
<1>9. LinkersApart'
  BY <1>8 DEF ListInv, LinkersApart
<1>10. ASSUME NEW u \in Thread PROVE LinkerOK(u)'
  <2>1. CASE pc'[u] \in Linking
    <3>1. LinkerOK(u) /\ Child(u) \in Arena
      BY <1>8, <2>1, LinkerTyped DEF ListInv
    <3>2. Child(u) # c
      BY <1>a, <1>1, <1>8, <2>1 DEF ListInv, LinkersApart, Linking
    <3> QED BY <1>1, <1>4, <1>8, <2>1, <3>1, <3>2 DEF LinkerOK
  <2>2. CASE pc'[u] \notin Linking
    BY <2>2 DEF LinkerOK, Linking, Linked
  <2> QED BY <2>1, <2>2
<1>11. ForwardOwned'
  <2> SUFFICES ASSUME NEW a \in Arena, next[a] # NULL
               PROVE  \/ previous_or_tail'[next[a]] = TaggedFromPrevious(a)
                      \/ \E u \in Thread : (pc[u] \in Linked /\ Child(u) = next[a]
                                                             /\ link[u].tail = a)'
    BY <1>1 DEF ForwardOwned
  <2>1. next[a] \in Arena
    BY ArenaMaybe DEF OrderInv, TypeOK
  <2>2. CASE previous_or_tail[next[a]] = TaggedFromPrevious(a)
    <3>1. next[a] # c
      BY <1>3, <2>2, ListWordTags
    <3> QED BY <1>4, <2>1, <2>2, <3>1
  <2>3. CASE \E u \in Thread : pc[u] \in Linked /\ Child(u) = next[a] /\ link[u].tail = a
    <3>1. PICK u \in Thread : pc[u] \in Linked /\ Child(u) = next[a] /\ link[u].tail = a
      BY <2>3
    <3>2. CASE u = t
      BY <1>a, <1>4, <3>1, <3>2
    <3>3. CASE u # t
      <4>1. pc'[u] = pc[u] /\ fuse'[u] = fuse[u] /\ link'[u] = link[u]
        BY <1>0, <1>1, <3>3
      <4> QED BY <1>1, <3>1, <4>1 DEF Child
    <3> QED BY <3>2, <3>3
  <2> QED BY <2>2, <2>3 DEF ListInv, ForwardOwned
<1> QED BY <1>5, <1>6, <1>7, <1>9, <1>10, <1>11 DEF ListStep, ListInv

\* A root is reparented: it was nobody's child so far, and it has a tail.
LEMMA DoFuseReparentLists ==
    ASSUME OrderInv, OrderStep, ListInv, NEW t \in Thread, DoFuseReparent(t)
    PROVE  ListStep
<1>0. /\ pc \in [Thread -> Label] /\ parent_or_count \in [Arena -> Word]
      /\ fuse \in [Thread -> FuseFrame]
  BY DEF OrderInv, TypeOK
<1>a. PICK c : c = Child(t)
  OBVIOUS
<1>1. pc[t] = "reparent" /\ UNCHANGED lists /\ link' = link
  BY DEF DoFuseReparent, At
<1>2. c \in Arena
  <2>1. FuseOrdered(t)
    BY DEF OrderInv
  <2> QED BY <1>a, <1>1, <2>1 DEF FuseOrdered, Child
<1>3. CASE parent_or_count[c] # TaggedFromRefcount(fuse[t].r2.count)
  <2>1. Retry(t)
    BY <1>a, <1>3 DEF DoFuseReparent, Child
  <2>2. pc'[t] = "find_load" /\ Unseen(t)
    BY <1>0, <1>1, <2>1 DEF Retry, CallFindRoot, Goto, Unseen
  <2> QED BY <1>1, <2>2, QuietStep DEF Quiet, Linking
<1>4. CASE parent_or_count[c] = TaggedFromRefcount(fuse[t].r2.count)
  <2>1. /\ parent_or_count' = [parent_or_count EXCEPT ![c] = TaggedFromPointer(fuse[t].r1.root)]
        /\ pc' = [pc EXCEPT ![t] = "link_tail"] /\ fuse' = fuse
    BY <1>a, <1>4 DEF DoFuseReparent, Goto, Child
  <2>2. /\ IsTaggedPointer(parent_or_count'[c]) /\ IsTaggedRefcount(parent_or_count[c])
        /\ \A a \in Arena : a # c => parent_or_count'[a] = parent_or_count[a]
        /\ ~IsTaggedPointer(parent_or_count[c]) /\ ~IsTaggedRefcount(parent_or_count'[c])
    BY <1>0, <1>2, <1>4, <2>1, TagOfWord
  <2>3. /\ pc'[t] = "link_tail" /\ \A u \in Thread : u # t => pc'[u] = pc[u]
        /\ \A u \in Thread : Child(u)' = Child(u)
    BY <1>0, <2>1 DEF Child
  <2>4. next' = next /\ previous_or_tail' = previous_or_tail
    BY <1>1 DEF lists
  <2>5. IsTaggedTail(previous_or_tail[c])
    BY <1>2, <2>2 DEF ListInv, RootsHaveTails
  <2>6. LinksStay /\ PreviousPointsBack' /\ RootsHaveTails'
    BY <2>2, <2>4 DEF ListInv, LinksStay, PreviousPointsBack, RootsHaveTails
  <2>7. ASSUME NEW u \in Thread, pc[u] \in Linking
        PROVE  Child(u) # c /\ Child(u) \in Arena
    <3>1. IsTaggedPointer(parent_or_count[Child(u)])
      BY <2>7 DEF ListInv, LinkerOK
    <3> QED BY <2>2, <2>7, <3>1, LinkerTyped
  <2>8. LinkersApart'
    <3> SUFFICES ASSUME NEW u \in Thread, NEW v \in Thread, u # v,
                        pc'[u] \in Linking, pc'[v] \in Linking
                 PROVE  Child(u) # Child(v)
      BY <2>3 DEF LinkersApart
    <3>1. CASE u = t
      BY <1>a, <2>3, <2>7, <3>1
    <3>2. CASE v = t
      BY <1>a, <2>3, <2>7, <3>2
    <3>3. CASE u # t /\ v # t
      BY <2>3, <3>3 DEF ListInv, LinkersApart
    <3> QED BY <3>1, <3>2, <3>3
  <2>9. ASSUME NEW u \in Thread PROVE LinkerOK(u)'
    <3>1. CASE u = t
      BY <1>a, <2>2, <2>3, <2>4, <2>5, <3>1 DEF LinkerOK, Linked
    <3>2. CASE u # t
      <4>1. LinkerOK(u)
        BY DEF ListInv
      <4>2. pc[u] \in Linking => parent_or_count'[Child(u)] = parent_or_count[Child(u)]
        BY <2>2, <2>7
      <4> QED BY <1>1, <2>3, <2>4, <3>2, <4>1, <4>2 DEF LinkerOK
    <3> QED BY <3>1, <3>2
  <2>10. ForwardOwned'
    <3> SUFFICES ASSUME NEW a \in Arena, next[a] # NULL,
                        previous_or_tail[next[a]] # TaggedFromPrevious(a)
                 PROVE  \E u \in Thread : (pc[u] \in Linked /\ Child(u) = next[a]
                                                            /\ link[u].tail = a)'
      BY <2>4 DEF ForwardOwned
    <3>1. PICK u \in Thread : pc[u] \in Linked /\ Child(u) = next[a] /\ link[u].tail = a
      BY DEF ListInv, ForwardOwned
    <3>2. u # t
      BY <1>1, <3>1 DEF Linked
    <3> QED BY <1>1, <2>3, <2>4, <3>1, <3>2
  <2> QED BY <2>6, <2>8, <2>9, <2>10 DEF ListStep, ListInv
<1> QED BY <1>3, <1>4

----------------------------------------------------------------------------
(***************************************************************************)
(* All steps.                                                              *)
(***************************************************************************)

\* The calls begin, and end, outside the linking.
LEMMA StartQuiet ==
    ASSUME OrderInv, NEW t \in Thread, Start(t) \/ Return(t)
    PROVE  Quiet(t)
<1>0. /\ pc \in [Thread -> Label] /\ link \in [Thread -> LinkFrame]
      /\ fuse \in [Thread -> FuseFrame]
  BY DEF OrderInv, TypeOK
<1>1. CASE \E a, b : StartFuse(t, a, b) \/ StartIsFused(t, a, b)
  <2>1. /\ UNCHANGED lists /\ Unseen(t) /\ pc[t] = "idle" /\ pc'[t] \in {"return", "find_load"}
    BY <1>0, <1>1 DEF StartFuse, StartIsFused, CallFindRoot, memory, lists, At, Goto, Unseen
  <2> QED BY <2>1 DEF Quiet, Linking
<1>2. CASE \E a \in Arena : StartIncRef(t, a) \/ StartFree(t, a) \/ StartSpaceAllocated(t, a)
  <2>1. /\ UNCHANGED lists /\ Unseen(t) /\ pc[t] = "idle"
        /\ pc'[t] \in {"return", "find_load", "free_load", "space_backward"}
    BY <1>0, <1>2 DEF StartIncRef, StartFree, StartSpaceAllocated, CallFindRoot, memory,
                      lists, At, Goto, Unseen
  <2> QED BY <2>1 DEF Quiet, Linking
<1>3. CASE Return(t)
  <2>1. /\ UNCHANGED lists /\ Unseen(t) /\ pc[t] = "return" /\ pc'[t] = "idle"
    BY <1>0, <1>3 DEF Return, memory, lists, At, Goto, Unseen
  <2> QED BY <2>1 DEF Quiet, Linking
<1> QED BY <1>1, <1>2, <1>3 DEF Start

\* So does every way FindRoot returns.
LEMMA FindRootReturnsLists ==
    ASSUME OrderInv, NEW t \in Thread, NEW root, NEW word, FindRootReturns(t, root, word),
           link' = link
    PROVE  Unseen(t) /\ pc'[t] \in {"find_load", "return", "fixup_load", "add_refs", "incref_cas"}
<1>0. pc \in [Thread -> Label] /\ fuse \in [Thread -> FuseFrame]
  BY DEF OrderInv, TypeOK
<1> DEFINE r == [root |-> root, count |-> word.val]
<1>1. \/ GotFirstRoot(t, r) \/ GotSecondRoot(t, r) \/ GotRa(t, r) \/ GotRb(t, r)
      \/ GotTmp(t, r) \/ GotIncRefRoot(t, r)
  BY DEF FindRootReturns
<1> HIDE DEF r
<1>2. CASE GotFirstRoot(t, r) \/ GotRa(t, r)
  BY <1>0, <1>2 DEF GotFirstRoot, GotRa, CallFindRoot, Goto, Unseen
<1>3. CASE GotSecondRoot(t, r)
  <2> DEFINE f == [ai1 |-> fuse[t].r1.root, ai2 |-> r.root,
                   r1 |-> LowerFirst(fuse[t].r1, r)[1], r2 |-> LowerFirst(fuse[t].r1, r)[2]]
  <2>1. fuse' = fuse \/ fuse' = [fuse EXCEPT ![t] = f]
    BY <1>3 DEF GotSecondRoot
  <2>2. pc' = [pc EXCEPT ![t] = "fixup_load"] \/ pc' = [pc EXCEPT ![t] = "add_refs"]
    BY <1>3 DEF GotSecondRoot, Goto
  <2> HIDE DEF f
  <2> QED BY <1>0, <2>1, <2>2 DEF Unseen
<1>4. CASE GotRb(t, r)
  BY <1>0, <1>4 DEF GotRb, CallFindRoot, Goto, Finish, Unseen
<1>5. CASE GotTmp(t, r)
  BY <1>0, <1>5 DEF GotTmp, CallFindRoot, Goto, Finish, Unseen
<1>6. CASE GotIncRefRoot(t, r)
  BY <1>0, <1>6 DEF GotIncRefRoot, Goto, Unseen
<1> QED BY <1>1, <1>2, <1>3, <1>4, <1>5, <1>6

LEMMA FindRootQuiet ==
    ASSUME OrderInv, NEW t \in Thread,
           FindRootLoad(t) \/ FindRootReload(t) \/ FindRootNext(t) \/ FindRootSplit(t)
    PROVE  Quiet(t)
<1>0. pc \in [Thread -> Label]
  BY DEF OrderInv, TypeOK
<1>1. UNCHANGED lists /\ link' = link /\ pc[t] \in Finding
  BY DEF FindRootLoad, FindRootReload, FindRootNext, FindRootSplit, memory, lists, At, Finding
<1>2. CASE \E root, word : FindRootReturns(t, root, word)
  BY <1>1, <1>2, FindRootReturnsLists DEF Quiet, Linking, Finding
<1>3. CASE ~\E root, word : FindRootReturns(t, root, word)
  <2>1. /\ fuse' = fuse
        /\ \/ pc' = [pc EXCEPT ![t] = "find_reload"] \/ pc' = [pc EXCEPT ![t] = "find_next"]
           \/ pc' = [pc EXCEPT ![t] = "find_split"]
    BY <1>3 DEF FindRootLoad, FindRootReload, FindRootNext, FindRootSplit, Goto
  <2>2. Unseen(t) /\ pc'[t] \in {"find_reload", "find_next", "find_split"}
    BY <1>0, <1>1, <2>1 DEF Unseen
  <2> QED BY <1>1, <2>2 DEF Quiet, Linking, Finding
<1> QED BY <1>2, <1>3

\* The counts: none of these steps stores a link.
LEMMA CountQuiet ==
    ASSUME OrderInv, NEW t \in Thread,
           \/ DoFuseAddRefs(t) \/ FixupRefsLoad(t) \/ FixupRefsCAS(t)
           \/ IncRefCAS(t) \/ FreeLoad(t) \/ FreeCAS(t)
    PROVE  Quiet(t)
<1>0. pc \in [Thread -> Label] /\ fuse \in [Thread -> FuseFrame]
  BY DEF OrderInv, TypeOK
<1>1. /\ UNCHANGED lists /\ link' = link
      /\ pc[t] \in {"add_refs", "fixup_load", "fixup_cas", "incref_cas", "free_load", "free_cas"}
  BY DEF DoFuseAddRefs, FixupRefsLoad, FixupRefsCAS, IncRefCAS, FreeLoad, FreeCAS,
         memory, lists, At
<1>2. \/ Retry(t)
      \/ /\ UNCHANGED fuse
         /\ \E l \in {"reparent", "return", "fixup_cas", "find_load", "free_load",
                      "free_cas", "do_free"} : pc' = [pc EXCEPT ![t] = l]
  <2>1. CASE DoFuseAddRefs(t)
    BY <2>1 DEF DoFuseAddRefs, Goto
  <2>2. CASE FixupRefsLoad(t)
    BY <2>2 DEF FixupRefsLoad, Finish, Goto
  <2>3. CASE FixupRefsCAS(t)
    BY <2>3 DEF FixupRefsCAS, Finish, Goto
  <2>4. CASE IncRefCAS(t)
    BY <2>4 DEF IncRefCAS, Finish, CallFindRoot, Goto
  <2>5. CASE FreeLoad(t)
    BY <2>5 DEF FreeLoad, FreeWith, Goto
  <2>6. CASE FreeCAS(t)
    BY <2>6 DEF FreeCAS, FreeWith, Finish, Goto
  <2> QED BY <2>1, <2>2, <2>3, <2>4, <2>5, <2>6
<1>3. CASE Retry(t)
  <2>1. Unseen(t) /\ pc'[t] = "find_load"
    BY <1>0, <1>1, <1>3 DEF Retry, CallFindRoot, Goto, Unseen
  <2> QED BY <1>1, <2>1 DEF Quiet, Linking
<1>4. CASE /\ UNCHANGED fuse
           /\ \E l \in {"reparent", "return", "fixup_cas", "find_load", "free_load",
                        "free_cas", "do_free"} : pc' = [pc EXCEPT ![t] = l]
  <2>1. /\ Unseen(t)
        /\ pc'[t] \in {"reparent", "return", "fixup_cas", "find_load", "free_load",
                       "free_cas", "do_free"}
    BY <1>0, <1>1, <1>4 DEF Unseen
  <2> QED BY <1>1, <2>1 DEF Quiet, Linking
<1> QED BY <1>2, <1>3, <1>4

\* The walks of DoFree and SpaceAllocated only read the links.
LEMMA WalkQuiet ==
    ASSUME OrderInv, NEW t \in Thread,
           DoFree(t) \/ SpaceBackward(t) \/ SpaceForward(t)
    PROVE  Quiet(t)
<1>0. pc \in [Thread -> Label]
  BY DEF OrderInv, TypeOK
<1>1. /\ UNCHANGED lists /\ link' = link /\ fuse' = fuse
      /\ pc[t] \in {"do_free", "space_backward", "space_forward"}
      /\ \/ pc' = pc \/ pc' = [pc EXCEPT ![t] = "return"]
         \/ pc' = [pc EXCEPT ![t] = "space_forward"]
  BY DEF DoFree, SpaceBackward, SpaceForward, WalkTo, TurnAround, Finish, Goto, memory,
         lists, At
<1>2. /\ Unseen(t)
      /\ pc'[t] \in {"do_free", "space_backward", "space_forward", "return"}
  BY <1>0, <1>1 DEF Unseen
<1> QED BY <1>1, <1>2 DEF Quiet, Linking

LEMMA NextLists ==
    ASSUME OrderInv, ListInv, Next
    PROVE  ListStep
<1>1. OrderStep
  BY NextOrdered
<1>2. PICK t \in Thread : Start(t) \/ Step(t)
  BY DEF Next
<1> QED BY <1>1, <1>2, StartQuiet, FindRootQuiet, CountQuiet, WalkQuiet, QuietStep, LinkWalks,
           DoFuseReparentLists, LinkForwardCASLists, UpdateTailCASLists, LinkBackwardLists
           DEF Step

LEMMA InitLists == Init => ListInv
<1> SUFFICES ASSUME Init PROVE ListInv
  OBVIOUS
<1>1. \A t \in Thread : pc[t] \notin Linking /\ pc[t] \notin Linked
  BY DEF Init, Linking, Linked
<1>2. \A a \in Arena : next[a] = NULL /\ IsTaggedTail(previous_or_tail[a])
  BY ListWordTags DEF Init
<1> QED BY <1>1, <1>2 DEF ListInv, PreviousPointsBack, RootsHaveTails, LinkersApart,
                          ForwardOwned, LinkerOK

----------------------------------------------------------------------------
(***************************************************************************)
(* The theorems.                                                           *)
(***************************************************************************)

\* The inductive invariant: the order of addresses and the lists.
THEOREM ListInvariant == Spec => [](OrderInv /\ ListInv)
<1>1. OrderInv /\ ListInv /\ [Next]_vars => ListInv'
  <2> SUFFICES ASSUME OrderInv, ListInv, [Next]_vars PROVE ListInv'
    OBVIOUS
  <2>1. CASE Next
    BY <2>1, NextLists DEF ListStep
  <2>2. CASE UNCHANGED vars
    <3>1. UNCHANGED <<parent_or_count, next, previous_or_tail, pc, fuse, link>>
      BY <2>2 DEF vars, memory
    <3>2. \A t \in Thread : Child(t)' = Child(t)
      BY <3>1 DEF Child
    <3>3. ForwardOwned' /\ LinkersApart' /\ \A t \in Thread : LinkerOK(t)'
      BY <3>1, <3>2 DEF ListInv, ForwardOwned, LinkersApart, LinkerOK
    <3> QED BY <3>1, <3>3 DEF ListInv, PreviousPointsBack, RootsHaveTails
  <2> QED BY <2>1, <2>2
<1> QED BY <1>1, InitLists, OrderInvariant, PTL DEF Spec

\* "a->previous_or_tail->next == a": LinkBackward stores a previous pointer only
\* after LinkForward has stored the next pointer it mirrors.
THEOREM BackwardMirrorsForward == Spec => []PreviousPointsBack
<1>1. ListInv => PreviousPointsBack
  BY DEF ListInv
<1> QED BY <1>1, ListInvariant, PTL

\* Links are set once: the compare-exchange of LinkForward never replaces a next
\* pointer, and neither UpdateParentTail nor LinkBackward a previous pointer.
THEOREM LinksAreFinal == Spec => LinksFinal
<1>1. OrderInv /\ ListInv /\ [Next]_vars =>
         [\A a \in Arena :
           /\ next[a] # NULL => next'[a] = next[a]
           /\ ~IsTaggedTail(previous_or_tail[a]) =>
                  previous_or_tail'[a] = previous_or_tail[a]]_vars
  BY NextLists DEF ListStep, LinksStay
<1> QED BY <1>1, ListInvariant, PTL DEF Spec, LinksFinal

\* A forward link has one owner: its backward link, or the one thread that is
\* about to set it.
OnePredecessor == \A a, b \in Arena : next[a] = next[b] /\ next[a] # NULL => a = b

LEMMA PredecessorsUnique == OrderInv /\ ListInv => OnePredecessor
<1> SUFFICES ASSUME OrderInv, ListInv, NEW a \in Arena, NEW b \in Arena,
                    next[a] = next[b], next[a] # NULL
             PROVE  a = b
  BY DEF OnePredecessor
<1>1. \A x \in Arena : TaggedFromPrevious(x).val = x /\ ~IsTaggedTail(TaggedFromPrevious(x))
  BY ListWordTags
<1>2. ASSUME NEW x \in Arena, next[x] = next[a]
      PROVE  \/ previous_or_tail[next[a]] = TaggedFromPrevious(x)
             \/ \E t \in Thread : pc[t] \in Linked /\ Child(t) = next[a] /\ link[t].tail = x
  BY <1>2 DEF ListInv, ForwardOwned
<1>3. ASSUME NEW t \in Thread, pc[t] \in Linked, Child(t) = next[a]
      PROVE  IsTaggedTail(previous_or_tail[next[a]])
  BY <1>3 DEF ListInv, LinkerOK, Linking, Linked
<1>4. CASE previous_or_tail[next[a]] = TaggedFromPrevious(a)
  BY <1>1, <1>2, <1>3, <1>4
<1>5. CASE \E t \in Thread : pc[t] \in Linked /\ Child(t) = next[a] /\ link[t].tail = a
  <2>1. PICK t \in Thread : pc[t] \in Linked /\ Child(t) = next[a] /\ link[t].tail = a
    BY <1>5
  <2>2. IsTaggedTail(previous_or_tail[next[a]])
    BY <1>3, <2>1
  <2>3. PICK u \in Thread : pc[u] \in Linked /\ Child(u) = next[a] /\ link[u].tail = b
    BY <1>1, <1>2, <2>2
  <2>4. u = t
    BY <2>1, <2>3 DEF ListInv, LinkersApart, Linking, Linked
  <2> QED BY <2>1, <2>3, <2>4
<1> QED BY <1>2, <1>4, <1>5

\* A root is at the head of its list.
LEMMA RootsAreHeads ==
    ASSUME OrderInv, ListInv, NEW a \in Arena, next[a] # NULL
    PROVE  ~IsTaggedRefcount(parent_or_count[next[a]])
<1>1. next[a] \in Arena
  BY ArenaMaybe DEF OrderInv, TypeOK
<1>2. CASE previous_or_tail[next[a]] = TaggedFromPrevious(a)
  BY <1>1, <1>2, ListWordTags DEF ListInv, RootsHaveTails
<1>3. CASE \E t \in Thread : pc[t] \in Linked /\ Child(t) = next[a] /\ link[t].tail = a
  <2>1. IsTaggedPointer(parent_or_count[next[a]]) /\ parent_or_count[next[a]] \in Word
    BY <1>1, <1>3 DEF ListInv, LinkerOK, Linking, Linked, OrderInv, TypeOK
  <2> QED BY <2>1, WordCases
<1> QED BY <1>2, <1>3 DEF ListInv, ForwardOwned

\* No arena has two predecessors, so no list of LinkForward runs into another
\* and DoFree cannot reach an arena along two ways.
THEOREM NextIsInjective == Spec => []OnePredecessor
BY PredecessorsUnique, ListInvariant, PTL

----------------------------------------------------------------------------
(***************************************************************************)
(* The lists as wholes, as functions n from arenas to their successors: a  *)
(* set that an arena's list stays in, the arenas on its list, the head H   *)
(* of each list (at the lowest address), and that a list is no ring.       *)
(***************************************************************************)
NextClosed(n, S) == \A a \in S : n[a] # NULL => n[a] \in S
Reaches(n, a, b) == \A S \in SUBSET Arena : a \in S /\ NextClosed(n, S) => b \in S

Heads(n, H) ==
    /\ H \in [Arena -> Arena]
    /\ \A a \in Arena : H[a] <= a
    /\ \A a \in Arena : n[a] # NULL => H[n[a]] = H[a]
    /\ \A a \in Arena : (\A p \in Arena : n[p] # a) => H[a] = a
Acyclic(n) == \A S \in SUBSET Arena : S # {} => \E a \in S : \A p \in S : n[p] # a

\* Where a linking thread is on its parent's list, and its child's tail.
LinkerReached(t) ==
    /\ pc[t] \in Linking \ {"link_tail"} => Reaches(next, fuse[t].r1.root, link[t].tail)
    /\ pc[t] \in {"tail_parent", "tail_cas"} => Reaches(next, Child(t), link[t].new_tail)
TailReached(a) ==
    IsTaggedTail(previous_or_tail[a]) => Reaches(next, a, previous_or_tail[a].val)

TailsInv == (\A a \in Arena : TailReached(a)) /\ \A t \in Thread : LinkerReached(t)
HeadInv == Acyclic(next) /\ (\E H : Heads(next, H)) /\ TailsInv

LEMMA ReachSelf == \A n, a : Reaches(n, a, a)
BY DEF Reaches

LEMMA ReachStep ==
    ASSUME NEW n, NEW a, NEW b, Reaches(n, a, b), n[b] # NULL
    PROVE  Reaches(n, a, n[b])
BY DEF Reaches, NextClosed

LEMMA ReachOn ==
    ASSUME NEW n, NEW a, NEW b, NEW c, Reaches(n, a, b), Reaches(n, b, c)
    PROVE  Reaches(n, a, c)
BY DEF Reaches

\* A list that only grows keeps what is on it.
LEMMA ReachGrows ==
    ASSUME NEW n, NEW m, \A x \in Arena : n[x] # NULL => m[x] = n[x],
           NEW a, NEW b, Reaches(n, a, b)
    PROVE  Reaches(m, a, b)
<1> SUFFICES ASSUME NEW S \in SUBSET Arena, a \in S, NextClosed(m, S) PROVE b \in S
  BY DEF Reaches
<1>1. NextClosed(n, S)
  BY DEF NextClosed
<1> QED BY <1>1 DEF Reaches

\* An arena has the head of the list it is on.
LEMMA SameHead ==
    ASSUME NEW n, NEW H, Heads(n, H), n \in [Arena -> MaybeArena],
           NEW a \in Arena, NEW b, Reaches(n, a, b)
    PROVE  H[b] = H[a]
<1> DEFINE S == {x \in Arena : H[x] = H[a]}
<1>1. NextClosed(n, S)
  <2> SUFFICES ASSUME NEW x \in S, n[x] # NULL PROVE n[x] \in S
    BY DEF NextClosed
  <2>1. n[x] \in Arena
    BY ArenaMaybe
  <2> QED BY <2>1 DEF Heads
<1>2. a \in S /\ S \in SUBSET Arena
  OBVIOUS
<1>3. b \in S
  BY <1>1, <1>2 DEF Reaches
<1> QED BY <1>3

\* A list is appended to another one: the child c had no predecessor, and is
\* not the head of the list that the node p without successor is on.
LEMMA Appended ==
    ASSUME NEW n \in [Arena -> MaybeArena], Acyclic(n), NEW H, Heads(n, H),
           NEW p \in Arena, n[p] = NULL, NEW c \in Arena, \A x \in Arena : n[x] # c,
           H[p] < c,
           NEW m, m = [n EXCEPT ![p] = c]
    PROVE  Acyclic(m) /\ \E G : Heads(m, G)
<1>1. H[c] = c /\ c # NULL /\ H \in [Arena -> Arena] /\ H[p] # c
  BY ArenaNat DEF Heads
<1>2. /\ m[p] = c /\ \A x \in Arena : x # p => m[x] = n[x]
      /\ m \in [Arena -> MaybeArena]
  BY ArenaMaybe
<1>3. Acyclic(m)
  <2> SUFFICES ASSUME NEW S \in SUBSET Arena, S # {}, \A a \in S : \E q \in S : m[q] = a
               PROVE  FALSE
    BY DEF Acyclic
  <2> DEFINE T == {x \in S : H[x] # c}
  <2>1. \A a \in T : \E q \in T : n[q] = a
    <3> SUFFICES ASSUME NEW a \in T PROVE \E q \in T : n[q] = a
      OBVIOUS
    <3>1. a # c /\ a \in Arena /\ a # NULL
      BY <1>1, ArenaNat
    <3>2. PICK q \in S : m[q] = a
      OBVIOUS
    <3>3. n[q] = a /\ q \in Arena
      BY <1>2, <3>1, <3>2
    <3>4. H[q] = H[a]
      BY <3>1, <3>3 DEF Heads
    <3> QED BY <3>3, <3>4
  <2>2. T # {}
    <3> SUFFICES ASSUME \A x \in S : H[x] = c PROVE FALSE
      OBVIOUS
    <3>1. p \notin S
      BY <1>1
    <3>2. \A a \in S : \E q \in S : n[q] = a
      BY <1>2, <3>1
    <3> QED BY <3>2 DEF Acyclic
  <2>3. T \in SUBSET Arena
    OBVIOUS
  <2> HIDE DEF T
  <2> QED BY <2>1, <2>2, <2>3 DEF Acyclic
<1> DEFINE G == [x \in Arena |-> IF H[x] = c THEN H[p] ELSE H[x]]
<1>4. Heads(m, G)
  <2>1. G \in [Arena -> Arena]
    BY <1>1
  <2>2. \A a \in Arena : G[a] <= a
    <3> SUFFICES ASSUME NEW a \in Arena PROVE G[a] <= a
      OBVIOUS
    <3>1. H[a] <= a /\ H[a] \in Nat /\ H[p] \in Nat /\ a \in Nat /\ c \in Nat
      BY <1>1, ArenaNat DEF Heads
    <3>2. G[a] = IF H[a] = c THEN H[p] ELSE H[a]
      OBVIOUS
    <3> HIDE DEF G
    <3> QED BY <3>1, <3>2
  <2>3. ASSUME NEW a \in Arena, m[a] # NULL PROVE G[m[a]] = G[a]
    <3>1. CASE a = p
      BY <1>1, <1>2, <3>1
    <3>2. CASE a # p
      <4>1. m[a] = n[a] /\ n[a] \in Arena
        BY <1>2, <2>3, <3>2, ArenaMaybe
      <4>2. H[n[a]] = H[a]
        BY <2>3, <4>1 DEF Heads
      <4> QED BY <4>1, <4>2
    <3> QED BY <3>1, <3>2
  <2>4. ASSUME NEW a \in Arena, \A q \in Arena : m[q] # a PROVE G[a] = a
    <3>1. a # c /\ a # NULL
      BY <1>2, <2>4, ArenaNat
    <3>2. \A q \in Arena : n[q] # a
      BY <1>2, <2>4, <3>1
    <3>3. H[a] = a
      BY <3>2 DEF Heads
    <3> QED BY <3>1, <3>3
  <2> HIDE DEF G
  <2> QED BY <2>1, <2>2, <2>3, <2>4 DEF Heads
<1> QED BY <1>3, <1>4

\* What a step leaves of the tails: those of other threads are still on the
\* lists, because links stay.
LEMMA TailsFromParts ==
    ASSUME TailsInv, LinksStay, NEW t \in Thread, Unseen(t), LinkerReached(t)',
           \A a \in Arena : \/ previous_or_tail'[a] = previous_or_tail[a]
                            \/ ~IsTaggedTail(previous_or_tail'[a])
                            \/ Reaches(next', a, previous_or_tail'[a].val)
    PROVE  TailsInv'
<1>1. \A a, b : Reaches(next, a, b) => Reaches(next', a, b)
  BY ReachGrows DEF LinksStay
<1>2. ASSUME NEW a \in Arena PROVE TailReached(a)'
  BY <1>1 DEF TailsInv, TailReached
<1>3. ASSUME NEW u \in Thread PROVE LinkerReached(u)'
  <2>1. CASE u # t
    <3>1. pc'[u] = pc[u] /\ fuse'[u] = fuse[u] /\ link'[u] = link[u] /\ LinkerReached(u)
      BY <2>1 DEF Unseen, TailsInv
    <3> QED BY <1>1, <3>1 DEF LinkerReached, Child
  <2> QED BY <2>1
<1> QED BY <1>2, <1>3 DEF TailsInv

LEMMA QuietHeads ==
    ASSUME HeadInv, LinksStay, NEW t \in Thread, Quiet(t)
    PROVE  HeadInv'
<1>1. next' = next /\ previous_or_tail' = previous_or_tail
  BY DEF Quiet, lists
<1>2. LinkerReached(t)'
  BY DEF Quiet, LinkerReached, Linking
<1>3. TailsInv'
  BY <1>1, <1>2, TailsFromParts DEF HeadInv, Quiet
<1> QED BY <1>1, <1>3 DEF HeadInv

\* The walk along the parent's list, and the loads of the tails.
LEMMA WalkHeads ==
    ASSUME OrderInv, ListInv, HeadInv, LinksStay, NEW t \in Thread,
           \/ LinkForwardStart(t) \/ LinkForwardWalk(t)
           \/ UpdateTailChild(t) \/ UpdateTailParent(t)
           \/ LinkForwardCAS(t) /\ next[link[t].tail] # NULL
    PROVE  next' = next /\ TailsInv'
<1>0. /\ pc \in [Thread -> Label] /\ link \in [Thread -> LinkFrame]
      /\ FuseOrdered(t) /\ LinkerReached(t) /\ \A a \in Arena : TailReached(a)
  BY DEF OrderInv, TypeOK, HeadInv, TailsInv
<1>1. next' = next /\ previous_or_tail' = previous_or_tail /\ fuse' = fuse
  BY DEF LinkForwardStart, LinkForwardWalk, UpdateTailChild, UpdateTailParent, LinkForwardCAS,
         memory
<1>2. Unseen(t) /\ LinkerReached(t)'
  <2> PICK p, c, k : p = fuse[t].r1.root /\ c = Child(t) /\ k = link[t]
    OBVIOUS
  <2>0. Child(t)' = c /\ fuse'[t].r1.root = p /\ k \in LinkFrame
    BY <1>0, <1>1 DEF Child
  <2>1. CASE LinkForwardStart(t)
    <3>1. /\ pc[t] = "link_tail" /\ pc' = [pc EXCEPT ![t] = "link_next"]
          /\ link' = [link EXCEPT ![t].tail = IF IsTaggedTail(previous_or_tail[p])
                                              THEN previous_or_tail[p].val ELSE p]
      BY <2>1 DEF LinkForwardStart, At, Goto
    <3>2. p \in Arena
      BY <1>0, <3>1 DEF FuseOrdered, Linking
    <3>3. /\ link'[t].tail = IF IsTaggedTail(previous_or_tail[p])
                             THEN previous_or_tail[p].val ELSE p
          /\ pc'[t] = "link_next" /\ Unseen(t)
      BY <1>0, <1>1, <3>1 DEF LinkFrame, Unseen
    <3>4. Reaches(next, p, link'[t].tail)
      BY <1>0, <3>2, <3>3, ReachSelf DEF TailReached
    <3> QED BY <1>1, <2>0, <3>3, <3>4 DEF LinkerReached
  <2>2. CASE LinkForwardWalk(t) \/ (LinkForwardCAS(t) /\ next[k.tail] # NULL)
    <3>1. /\ pc[t] \in {"link_next", "link_cas"}
          /\ \E l \in {"link_next", "link_cas"} : pc' = [pc EXCEPT ![t] = l] \/ pc' = pc
          /\ \/ link' = link
             \/ next[k.tail] # NULL /\ link' = [link EXCEPT ![t].tail = next[k.tail]]
      BY <2>2 DEF LinkForwardWalk, LinkForwardCAS, At, Goto
    <3>2. /\ link'[t].tail = k.tail \/ (next[k.tail] # NULL /\ link'[t].tail = next[k.tail])
          /\ pc'[t] \in {"link_next", "link_cas"} /\ Unseen(t)
      BY <1>0, <1>1, <3>1 DEF LinkFrame, Unseen
    <3>3. Reaches(next, p, k.tail)
      BY <1>0, <3>1 DEF LinkerReached, Linking
    <3>4. Reaches(next, p, link'[t].tail)
      BY <3>2, <3>3, ReachStep
    <3> QED BY <1>1, <2>0, <3>2, <3>4 DEF LinkerReached
  <2>3. CASE UpdateTailChild(t)
    <3>1. /\ pc[t] = "tail_child" /\ pc' = [pc EXCEPT ![t] = "tail_parent"]
          /\ link' = [link EXCEPT ![t].new_tail = previous_or_tail[c].val]
      BY <2>3 DEF UpdateTailChild, At, Goto, Child
    <3>2. /\ link'[t].tail = k.tail /\ link'[t].new_tail = previous_or_tail[c].val
          /\ pc'[t] = "tail_parent" /\ Unseen(t)
      BY <1>0, <1>1, <3>1 DEF LinkFrame, Unseen
    <3>3. c \in Arena /\ IsTaggedTail(previous_or_tail[c])
      BY <1>0, <3>1 DEF FuseOrdered, Linking, Child, ListInv, LinkerOK
    <3>4. Reaches(next, p, k.tail) /\ Reaches(next, c, previous_or_tail[c].val)
      BY <1>0, <3>1, <3>3 DEF LinkerReached, Linking, TailReached
    <3> QED BY <1>1, <2>0, <3>2, <3>4 DEF LinkerReached
  <2>4. CASE UpdateTailParent(t)
    <3>1. /\ pc[t] = "tail_parent"
          /\ pc' = [pc EXCEPT ![t] = "tail_cas"] \/ pc' = [pc EXCEPT ![t] = "link_back"]
          /\ link' = link \/ link' = [link EXCEPT ![t].old_tail = previous_or_tail[p].val]
      BY <2>4 DEF UpdateTailParent, At, Goto
    <3>2. /\ link'[t].tail = k.tail /\ link'[t].new_tail = k.new_tail
          /\ pc'[t] \in {"tail_cas", "link_back"} /\ Unseen(t)
      BY <1>0, <1>1, <3>1 DEF LinkFrame, Unseen
    <3>3. Reaches(next, p, k.tail) /\ Reaches(next, c, k.new_tail)
      BY <1>0, <3>1 DEF LinkerReached, Linking
    <3> QED BY <1>1, <2>0, <3>2, <3>3 DEF LinkerReached
  <2> QED BY <2>1, <2>2, <2>3, <2>4
<1> QED BY <1>1, <1>2, TailsFromParts DEF HeadInv

\* The child that is being linked has no predecessor yet.
LEMMA ChildUnlinked ==
    ASSUME OrderInv, ListInv, NEW t \in Thread, pc[t] \in Linking \ Linked, NEW a \in Arena
    PROVE  next[a] # Child(t)
<1> SUFFICES ASSUME next[a] = Child(t) PROVE FALSE
  OBVIOUS
<1>1. Child(t) # NULL /\ IsTaggedTail(previous_or_tail[Child(t)])
  BY LinkerTyped DEF ListInv, LinkerOK
<1>2. PICK u \in Thread : pc[u] \in Linked /\ Child(u) = Child(t)
  BY <1>1, ListWordTags DEF ListInv, ForwardOwned
<1> QED BY <1>2 DEF ListInv, LinkersApart, Linking, Linked

\* The child's list is appended to its parent's, whose head is lower.
LEMMA LinkForwardHeads ==
    ASSUME OrderInv, ListInv, HeadInv, LinksStay, NEW t \in Thread, LinkForwardCAS(t),
           next[link[t].tail] = NULL
    PROVE  HeadInv'
<1> PICK p, c, q : p = fuse[t].r1.root /\ c = Child(t) /\ q = link[t].tail
  OBVIOUS
<1>0. /\ pc \in [Thread -> Label] /\ next \in [Arena -> MaybeArena]
      /\ FuseOrdered(t) /\ LinkerReached(t)
  BY DEF OrderInv, TypeOK, HeadInv, TailsInv
<1>1. /\ pc[t] = "link_cas" /\ pc' = [pc EXCEPT ![t] = "tail_child"]
      /\ next' = [next EXCEPT ![q] = c]
      /\ UNCHANGED <<previous_or_tail, fuse, link>>
  BY DEF LinkForwardCAS, At, Goto, Child
<1>2. p \in Arena /\ c \in Arena /\ q \in Arena /\ p < c /\ Reaches(next, p, q)
  BY <1>0, <1>1 DEF FuseOrdered, Linking, Child, LinkerReached
<1>3. \A a \in Arena : next[a] # c
  BY <1>1, ChildUnlinked DEF Linking, Linked
<1>4. PICK H : Heads(next, H)
  BY DEF HeadInv
<1>5. H[q] < c
  <2>1. H[q] = H[p]
    BY <1>0, <1>2, <1>4, SameHead
  <2>2. H[p] <= p /\ H[p] \in Nat /\ p \in Nat /\ c \in Nat
    BY <1>2, <1>4, ArenaNat DEF Heads
  <2> QED BY <1>2, <2>1, <2>2
<1>6. Acyclic(next') /\ \E G : Heads(next', G)
  BY <1>0, <1>1, <1>2, <1>3, <1>4, <1>5, Appended DEF HeadInv
<1>7. Unseen(t) /\ pc'[t] = "tail_child"
  BY <1>0, <1>1 DEF Unseen
<1>8. LinkerReached(t)'
  BY <1>1, <1>2, <1>7, ReachGrows DEF LinkerReached, LinksStay
<1>9. TailsInv'
  BY <1>1, <1>7, <1>8, TailsFromParts DEF HeadInv
<1> QED BY <1>6, <1>9 DEF HeadInv

\* The child's tail becomes the parent's: the child is on the parent's list.
LEMMA UpdateTailHeads ==
    ASSUME OrderInv, ListInv, HeadInv, LinksStay, NEW t \in Thread, UpdateTailCAS(t)
    PROVE  HeadInv'
<1> PICK p, c, k : p = fuse[t].r1.root /\ c = Child(t) /\ k = link[t]
  OBVIOUS
<1>0. /\ pc \in [Thread -> Label] /\ previous_or_tail \in [Arena -> ListWord]
      /\ FuseOrdered(t) /\ LinkerReached(t) /\ LinkerOK(t)
  BY DEF OrderInv, TypeOK, HeadInv, TailsInv, ListInv
<1>1. /\ pc[t] = "tail_cas" /\ pc' = [pc EXCEPT ![t] = "link_back"]
      /\ UNCHANGED <<next, fuse, link>>
      /\ \/ UNCHANGED previous_or_tail
         \/ previous_or_tail' = [previous_or_tail EXCEPT ![p] = TaggedFromTail(k.new_tail)]
  BY DEF UpdateTailCAS, At, Goto
<1>2. /\ Reaches(next, p, k.tail) /\ Reaches(next, c, k.new_tail)
      /\ next[k.tail] = c /\ c # NULL /\ p \in Arena
  BY <1>0, <1>1, LinkerTyped DEF LinkerReached, Linking, Linked, LinkerOK
<1>3. Reaches(next, p, k.new_tail)
  BY <1>2, ReachStep, ReachOn
<1>4. Unseen(t) /\ pc'[t] = "link_back"
  BY <1>0, <1>1 DEF Unseen
<1>5. LinkerReached(t)'
  BY <1>1, <1>2, <1>4 DEF LinkerReached
<1>6. \A a \in Arena : \/ previous_or_tail'[a] = previous_or_tail[a]
                       \/ Reaches(next', a, previous_or_tail'[a].val)
  BY <1>0, <1>1, <1>2, <1>3, ListWordTags
<1>7. TailsInv'
  BY <1>4, <1>5, <1>6, TailsFromParts DEF HeadInv
<1> QED BY <1>1, <1>7 DEF HeadInv

\* Linking begins with a reparenting and ends with the backward link.
LEMMA LinkEndsHeads ==
    ASSUME OrderInv, HeadInv, LinksStay, NEW t \in Thread, LinkBackward(t) \/ DoFuseReparent(t)
    PROVE  HeadInv'
<1>0. /\ pc \in [Thread -> Label] /\ previous_or_tail \in [Arena -> ListWord]
      /\ link \in [Thread -> LinkFrame] /\ fuse \in [Thread -> FuseFrame]
  BY DEF OrderInv, TypeOK
<1>1. CASE LinkBackward(t)
  <2>1. /\ pc' = [pc EXCEPT ![t] = "fixup_load"] /\ link' = [link EXCEPT ![t] = NoLink]
        /\ previous_or_tail' = [previous_or_tail EXCEPT ![Child(t)] = TaggedFromPrevious(link[t].tail)]
        /\ UNCHANGED <<next, fuse>>
    BY <1>1 DEF LinkBackward, Goto, Child
  <2>2. Unseen(t) /\ pc'[t] = "fixup_load"
    BY <1>0, <2>1 DEF Unseen
  <2>3. LinkerReached(t)'
    BY <2>2 DEF LinkerReached, Linking
  <2>4. \A a \in Arena : \/ previous_or_tail'[a] = previous_or_tail[a]
                         \/ ~IsTaggedTail(previous_or_tail'[a])
    BY <1>0, <2>1, ListWordTags
  <2>5. TailsInv'
    BY <2>2, <2>3, <2>4, TailsFromParts DEF HeadInv
  <2> QED BY <2>1, <2>5 DEF HeadInv
<1>2. CASE DoFuseReparent(t)
  <2>1. /\ next' = next /\ previous_or_tail' = previous_or_tail /\ link' = link
        /\ (pc' = [pc EXCEPT ![t] = "link_tail"] /\ fuse' = fuse) \/ Retry(t)
    BY <1>2 DEF DoFuseReparent, Goto, lists
  <2>2. Unseen(t) /\ pc'[t] \in {"link_tail", "find_load"}
    BY <1>0, <2>1 DEF Unseen, Retry, CallFindRoot, Goto
  <2>3. LinkerReached(t)'
    BY <2>2 DEF LinkerReached, Linking
  <2>4. TailsInv'
    BY <2>1, <2>2, <2>3, TailsFromParts DEF HeadInv
  <2> QED BY <2>1, <2>4 DEF HeadInv
<1> QED BY <1>1, <1>2

LEMMA NextHeads ==
    ASSUME OrderInv, ListInv, HeadInv, Next
    PROVE  HeadInv'
<1>1. LinksStay
  BY NextLists DEF ListStep
<1>2. PICK t \in Thread : Start(t) \/ Step(t)
  BY DEF Next
<1>3. CASE \/ LinkForwardStart(t) \/ LinkForwardWalk(t)
           \/ UpdateTailChild(t) \/ UpdateTailParent(t)
           \/ LinkForwardCAS(t) /\ next[link[t].tail] # NULL
  BY <1>1, <1>3, WalkHeads DEF HeadInv
<1> QED BY <1>1, <1>2, <1>3, StartQuiet, FindRootQuiet, CountQuiet, WalkQuiet, QuietHeads,
           LinkForwardHeads, UpdateTailHeads, LinkEndsHeads
           DEF Step

LEMMA InitHeads == Init => HeadInv
<1> SUFFICES ASSUME Init PROVE HeadInv
  OBVIOUS
<1>1. /\ \A t \in Thread : pc[t] = "idle"
      /\ \A a \in Arena : next[a] = NULL /\ previous_or_tail[a].val = a /\ a # NULL
  BY ListWordTags, ArenaNat DEF Init
<1>2. TailsInv
  BY <1>1, ReachSelf DEF TailsInv, TailReached, LinkerReached, Linking
<1>3. Acyclic(next)
  <2> SUFFICES ASSUME NEW S \in SUBSET Arena, NEW a \in S PROVE \A p \in S : next[p] # a
    BY DEF Acyclic
  <2> QED BY <1>1
<1>4. Heads(next, [a \in Arena |-> a])
  BY <1>1, ArenaNat DEF Heads
<1> QED BY <1>2, <1>3, <1>4 DEF HeadInv

\* Every list has a head and an end, and a cached tail, however stale, is a node
\* of the list of the arena that caches it, as UpdateParentTail assumes.
THEOREM ListsHaveEnds == Spec => [](OrderInv /\ ListInv /\ HeadInv)
<1>1. OrderInv /\ ListInv /\ HeadInv /\ UNCHANGED vars => HeadInv'
  <2> SUFFICES ASSUME HeadInv, UNCHANGED vars PROVE HeadInv'
    OBVIOUS
  <2>1. UNCHANGED <<next, previous_or_tail, pc, fuse, link>>
    BY DEF vars, memory
  <2>2. TailsInv'
    BY <2>1 DEF HeadInv, TailsInv, TailReached, LinkerReached, Child
  <2> QED BY <2>1, <2>2 DEF HeadInv
<1>2. OrderInv /\ ListInv /\ HeadInv /\ [Next]_vars => HeadInv'
  BY <1>1, NextHeads
<1> QED BY <1>2, InitHeads, ListInvariant, PTL DEF Spec


----------------------------------------------------------------------------
(***************************************************************************)
(* Proofs about the groups of ArenaFuse: the root that parent pointers     *)
(* lead to, how the steps of the algorithm change it, and what             *)
(* upb_Arena_Fuse and upb_Arena_IsFused say about it.                      *)
(***************************************************************************)

----------------------------------------------------------------------------
(***************************************************************************)
(* Induction.  It is stated with sets, not with predicates.                *)
(***************************************************************************)
\* Every set of numbers with an element has a least one.
LEMMA LeastElement ==
    ASSUME NEW S, S \subseteq Nat, S # {}
    PROVE  \E x \in S : \A y \in S : x <= y
<1>1. \E R : IsWellFoundedOn(R, Nat) /\ \A x, y \in Nat : x < y => <<x, y>> \in R
  <2>1. \A x, y \in Nat : x < y => <<x, y>> \in OpToRel(<, Nat)
    BY DEF OpToRel
  <2> QED BY <2>1, NatLessThanWellFounded, Zenon
<1>2. PICK R : IsWellFoundedOn(R, Nat) /\ \A x, y \in Nat : x < y => <<x, y>> \in R
  BY <1>1
<1>3. PICK x \in S : \A y \in S : ~(<<y, x>> \in R)
  <2>1. IsWellFoundedOn(R, Nat)
    BY <1>2
  <2> QED BY <2>1, WFMin
<1>4. ASSUME NEW y \in S PROVE x <= y
  <2>1. x \in Nat /\ y \in Nat /\ ~(y < x)
    BY <1>2, <1>3
  <2> QED BY <2>1
<1> QED BY <1>4

\* A set that holds 0 and, with each number, the next, holds all.
LEMMA SetInduction ==
    ASSUME NEW S, 0 \in S, \A n \in Nat : n \in S => n + 1 \in S
    PROVE  \A n \in Nat : n \in S
<1> SUFFICES ASSUME Nat \ S # {} PROVE FALSE
  OBVIOUS
<1>1. PICK x \in Nat \ S : \A y \in Nat \ S : x <= y
  BY LeastElement
<1>2. x # 0 /\ x - 1 \in Nat /\ ~(x <= x - 1)
  BY <1>1
<1>3. x - 1 \in S
  BY <1>1, <1>2
<1> QED BY <1>1, <1>2, <1>3

----------------------------------------------------------------------------
(***************************************************************************)
(* The root of an arena, as a function of the words p of memory.           *)
(***************************************************************************)
Ordered(p) ==
    /\ p \in [Arena -> Word]
    /\ \A a \in Arena : IsTaggedPointer(p[a]) => p[a].val < a
Follows(R, p) ==
    R = [a \in Arena |-> IF IsTaggedRefcount(p[a]) THEN a ELSE R[p[a].val]]

\* Pointers lead to one root only.
LEMMA OneRoot ==
    ASSUME NEW p, Ordered(p), NEW R, Follows(R, p), NEW Q, Follows(Q, p)
    PROVE  R = Q
<1> DEFINE S == {a \in Arena : R[a] # Q[a]}
<1>1. S = {}
  <2> SUFFICES ASSUME S # {} PROVE FALSE
    OBVIOUS
  <2>1. S \subseteq Nat
    BY ArenaNat
  <2> HIDE DEF S
  <2>2. PICK x \in S : \A y \in S : x <= y
    BY <2>1, LeastElement
  <2> USE DEF S
  <2>3. p[x] \in Word
    BY <2>2 DEF Ordered
  <2>4. CASE IsTaggedRefcount(p[x])
    BY <2>2, <2>4 DEF Follows
  <2>5. CASE ~IsTaggedRefcount(p[x])
    <3>1. p[x].val \in Arena /\ p[x].val < x
      BY <2>2, <2>3, <2>5, WordCases DEF Ordered
    <3>2. p[x].val \notin S
      BY <2>2, <3>1, ArenaNat
    <3>3. R[x] = R[p[x].val] /\ Q[x] = Q[p[x].val]
      BY <2>2, <2>5 DEF Follows
    <3> QED BY <2>2, <3>1, <3>2, <3>3
  <2> QED BY <2>4, <2>5
<1> QED BY <1>1 DEF Follows

\* The root of the arenas below an address.
Below(n) == {a \in Arena : a < n}
FollowsBelow(R, p, n) ==
    R = [a \in Below(n) |-> IF IsTaggedRefcount(p[a]) THEN a ELSE R[p[a].val]]

LEMMA OneRootBelow ==
    ASSUME NEW p, Ordered(p), NEW n \in Nat, NEW m \in Nat, n <= m,
           NEW R, FollowsBelow(R, p, n), NEW Q, FollowsBelow(Q, p, m)
    PROVE  \A a \in Below(n) : R[a] = Q[a]
<1> DEFINE S == {a \in Below(n) : R[a] # Q[a]}
<1> SUFFICES ASSUME S # {} PROVE FALSE
  OBVIOUS
<1>1. S \subseteq Nat
  BY ArenaNat DEF Below
<1> HIDE DEF S
<1>2. PICK x \in S : \A y \in S : x <= y
  BY <1>1, LeastElement
<1> USE DEF S
<1>3. x \in Arena /\ x < n /\ x \in Below(n) /\ x \in Below(m) /\ p[x] \in Word /\ x \in Nat
  BY <1>2, ArenaNat DEF Ordered, Below
<1>4. CASE IsTaggedRefcount(p[x])
  BY <1>2, <1>3, <1>4 DEF FollowsBelow
<1>5. CASE ~IsTaggedRefcount(p[x])
  <2>1. PICK b \in Arena : b = p[x].val /\ b < x
    BY <1>3, <1>5, WordCases DEF Ordered
  <2>2. b \in Nat /\ b < n /\ ~(x <= b)
    <3> HIDE DEF S
    <3>1. b \in Nat /\ x \in Nat /\ b < x /\ x < n
      BY <1>3, <2>1, ArenaNat
    <3> QED BY <3>1
  <2>3. b \in Below(n) /\ b \notin S
    BY <1>2, <2>2 DEF Below
  <2>4. R[x] = R[b] /\ Q[x] = Q[b]
    BY <1>3, <1>5, <2>1 DEF FollowsBelow
  <2> QED BY <1>2, <2>3, <2>4
<1> QED BY <1>4, <1>5

LEMMA RootBelow ==
    ASSUME NEW p, Ordered(p)
    PROVE  \A n \in Nat : \E R : FollowsBelow(R, p, n)
<1> DEFINE S == {n \in Nat : \E R : FollowsBelow(R, p, n)}
<1>1. 0 \in S
  <2>1. Below(0) = {}
    BY ArenaNat DEF Below
  <2> DEFINE E == [a \in Below(0) |-> a]
  <2>2. FollowsBelow(E, p, 0)
    BY <2>1 DEF FollowsBelow
  <2> QED BY <2>2
<1>2. ASSUME NEW n \in Nat, n \in S PROVE n + 1 \in S
  <2>1. PICK R : FollowsBelow(R, p, n)
    BY <1>2
  <2> DEFINE Q == [a \in Below(n + 1) |->
                      IF IsTaggedRefcount(p[a]) THEN a ELSE R[p[a].val]]
  <2>2. \A a \in Below(n) : a \in Below(n + 1) /\ Q[a] = R[a]
    BY <2>1, ArenaNat DEF FollowsBelow, Below
  <2>3. ASSUME NEW a \in Below(n + 1), ~IsTaggedRefcount(p[a])
        PROVE  R[p[a].val] = Q[p[a].val]
    <3>1. a \in Arena /\ a < n + 1 /\ p[a] \in Word /\ a \in Nat
      BY <2>3, ArenaNat DEF Below, Ordered
    <3>2. PICK b \in Arena : b = p[a].val /\ b < a
      BY <2>3, <3>1, WordCases DEF Ordered
    <3>3. b \in Nat /\ b < n
      BY <3>1, <3>2, ArenaNat
    <3>4. b \in Below(n)
      BY <3>3 DEF Below
    <3> QED BY <2>2, <3>2, <3>4
  <2>4. Q = [a \in Below(n + 1) |-> IF IsTaggedRefcount(p[a]) THEN a ELSE Q[p[a].val]]
    BY <2>3
  <2> HIDE DEF Q
  <2>5. FollowsBelow(Q, p, n + 1)
    BY <2>4 DEF FollowsBelow
  <2> QED BY <2>5
<1> HIDE DEF S
<1>3. \A n \in Nat : n \in S
  BY <1>1, <1>2, SetInduction
<1> QED BY <1>3 DEF S

\* Pointers lead to a root.
LEMMA SomeRoot ==
    ASSUME NEW p, Ordered(p)
    PROVE  \E R : Follows(R, p)
<1> DEFINE F(n) == CHOOSE R : FollowsBelow(R, p, n)
           R == [a \in Arena |-> F(a + 1)[a]]
<1>1. \A n \in Nat : FollowsBelow(F(n), p, n)
  BY RootBelow
<1> HIDE DEF F
<1>2. ASSUME NEW a \in Arena
      PROVE  R[a] = IF IsTaggedRefcount(p[a]) THEN a ELSE R[p[a].val]
  <2>1. a \in Nat /\ a + 1 \in Nat /\ a \in Below(a + 1) /\ p[a] \in Word
    BY ArenaNat DEF Below, Ordered
  <2>2. R[a] = IF IsTaggedRefcount(p[a]) THEN a ELSE F(a + 1)[p[a].val]
    BY <1>1, <2>1 DEF FollowsBelow
  <2>3. ASSUME ~IsTaggedRefcount(p[a])
        PROVE  R[p[a].val] = F(a + 1)[p[a].val]
    <3>1. PICK b \in Arena : b = p[a].val /\ b < a
      BY <2>1, <2>3, WordCases DEF Ordered
    <3>2. b \in Nat /\ b + 1 \in Nat /\ b + 1 <= a + 1 /\ b \in Below(b + 1)
      <4>1. b \in Nat /\ a \in Nat /\ b < a
        BY <2>1, <3>1, ArenaNat
      <4>2. b + 1 \in Nat /\ b < b + 1 /\ b + 1 <= a + 1
        BY ONLY <4>1
      <4> QED BY <4>1, <4>2 DEF Below
    <3>3. F(b + 1)[b] = F(a + 1)[b]
      BY <1>1, <2>1, <3>2, OneRootBelow
    <3> QED BY <3>1, <3>3
  <2> QED BY <2>2, <2>3
<1>3. R = [a \in Arena |-> IF IsTaggedRefcount(p[a]) THEN a ELSE R[p[a].val]]
  BY <1>2
<1> HIDE DEF R
<1>4. Follows(R, p)
  BY <1>3 DEF Follows
<1> QED BY <1>4

\* A root is an arena with a count, at the address of its members or below.
LEMMA RootFacts ==
    ASSUME NEW p, Ordered(p), NEW R, Follows(R, p), NEW a \in Arena
    PROVE  R[a] \in Arena /\ IsTaggedRefcount(p[R[a]]) /\ R[a] <= a /\ R[R[a]] = R[a]
<1> DEFINE S == {b \in Arena : ~(R[b] \in Arena /\ IsTaggedRefcount(p[R[b]]) /\ R[b] <= b)}
<1>1. S = {}
  <2> SUFFICES ASSUME S # {} PROVE FALSE
    OBVIOUS
  <2>1. S \subseteq Nat
    BY ArenaNat
  <2> HIDE DEF S
  <2>2. PICK x \in S : \A y \in S : x <= y
    BY <2>1, LeastElement
  <2> USE DEF S
  <2>3. p[x] \in Word /\ x \in Nat
    BY <2>2, ArenaNat DEF Ordered
  <2>4. CASE IsTaggedRefcount(p[x])
    BY <2>2, <2>3, <2>4 DEF Follows
  <2>5. CASE ~IsTaggedRefcount(p[x])
    <3>1. PICK b \in Arena : b = p[x].val /\ b < x
      BY <2>2, <2>3, <2>5, WordCases DEF Ordered
    <3>2. b \in Nat /\ ~(x <= b)
      BY <2>3, <3>1, ArenaNat
    <3>3. R[b] \in Arena /\ IsTaggedRefcount(p[R[b]]) /\ R[b] <= b
      BY <2>2, <3>2
    <3>4. R[x] = R[b]
      BY <2>2, <2>5, <3>1 DEF Follows
    <3>5. R[b] <= x
      <4>1. PICK c \in Arena : c = R[b]
        BY <3>3
      <4>2. c \in Nat /\ c <= b /\ b < x
        BY <3>1, <3>3, <4>1, ArenaNat
      <4>3. c <= x
        BY <2>3, <3>2, <4>2
      <4> QED BY <4>1, <4>3
    <3> QED BY <2>2, <3>3, <3>4, <3>5
  <2> QED BY <2>4, <2>5
<1>2. R[a] \in Arena /\ IsTaggedRefcount(p[R[a]]) /\ R[a] <= a
  BY <1>1
<1> QED BY <1>2 DEF Follows

\* Root is that function of the words in memory.
LEMMA RootFollows == Ordered(parent_or_count) => Follows(Root, parent_or_count)
<1> SUFFICES ASSUME Ordered(parent_or_count) PROVE Follows(Root, parent_or_count)
  OBVIOUS
<1> DEFINE up == CHOOSE R : R = [b \in Arena |->
                     IF IsTaggedRefcount(parent_or_count[b]) THEN b
                     ELSE R[parent_or_count[b].val]]
<1>1. up = [b \in Arena |-> IF IsTaggedRefcount(parent_or_count[b]) THEN b
                            ELSE up[parent_or_count[b].val]]
  BY SomeRoot DEF Follows
<1>2. Root = [a \in Arena |-> up[a]]
  BY DEF Root
<1> HIDE DEF up
<1>3. Root = up
  BY <1>1, <1>2
<1> QED BY <1>1, <1>3 DEF Follows

LEMMA RootFollowsNext == Ordered(parent_or_count') => Follows(Root', parent_or_count')
<1>1. (Ordered(parent_or_count) => Follows(Root, parent_or_count))'
  BY RootFollows, PTL
<1> QED BY <1>1

LEMMA OrderedMemory ==
    /\ OrderInv => Ordered(parent_or_count)
    /\ OrderInv' => Ordered(parent_or_count')
BY DEF OrderInv, TypeOK, ParentBelow, Ordered

\* What is known of roots in a state with OrderInv.
LEMMA RootsNow ==
    ASSUME OrderInv
    PROVE  /\ \A a \in Arena : /\ Root[a] \in Arena /\ Root[a] <= a /\ Root[Root[a]] = Root[a]
                               /\ IsTaggedRefcount(parent_or_count[Root[a]])
           /\ \A a \in Arena : IsTaggedRefcount(parent_or_count[a]) => Root[a] = a
           /\ \A a \in Arena : IsTaggedPointer(parent_or_count[a]) =>
                                   Root[a] = Root[parent_or_count[a].val]
<1>1. Ordered(parent_or_count) /\ Follows(Root, parent_or_count)
  BY OrderedMemory, RootFollows
<1>2. \A a \in Arena : /\ Root[a] \in Arena /\ Root[a] <= a /\ Root[Root[a]] = Root[a]
                       /\ IsTaggedRefcount(parent_or_count[Root[a]])
  BY <1>1, RootFacts
<1>3. \A a \in Arena : parent_or_count[a] \in Word
  BY <1>1 DEF Ordered
<1>4. \A a \in Arena : IsTaggedPointer(parent_or_count[a]) => ~IsTaggedRefcount(parent_or_count[a])
  BY <1>3, WordCases
<1>5. \A a \in Arena : Root[a] = IF IsTaggedRefcount(parent_or_count[a]) THEN a
                                 ELSE Root[parent_or_count[a].val]
  BY <1>1 DEF Follows
<1> QED BY <1>2, <1>4, <1>5

----------------------------------------------------------------------------
(***************************************************************************)
(* The three ways in which a step changes the roots: not at all, because   *)
(* counts stay counts and pointers stay in their group, or by joining the  *)
(* group of a root to another.                                             *)
(***************************************************************************)
RootsJoin == \A a, b \in Arena : Root[a] = Root[b] => Root'[a] = Root'[b]

LEMMA RootsSame ==
    ASSUME UNCHANGED parent_or_count
    PROVE  Root' = Root
BY DEF Root

LEMMA RootsKept ==
    ASSUME OrderInv, OrderInv',
           \A a \in Arena :
              \/ IsTaggedRefcount(parent_or_count[a]) /\ IsTaggedRefcount(parent_or_count'[a])
              \/ /\ IsTaggedPointer(parent_or_count[a]) /\ IsTaggedPointer(parent_or_count'[a])
                 /\ Root[parent_or_count'[a].val] = Root[a]
    PROVE  Root' = Root
<1> PICK R : R = Root
  OBVIOUS
<1>1. Ordered(parent_or_count) /\ Ordered(parent_or_count')
  BY OrderedMemory
<1>2. Follows(R, parent_or_count) /\ Follows(Root', parent_or_count')
  BY <1>1, RootFollows, RootFollowsNext
<1>3. ASSUME NEW a \in Arena
      PROVE  R[a] = IF IsTaggedRefcount(parent_or_count'[a]) THEN a
                    ELSE R[parent_or_count'[a].val]
  <2>1. parent_or_count[a] \in Word /\ parent_or_count'[a] \in Word
    BY <1>1 DEF Ordered
  <2>2. R[a] = IF IsTaggedRefcount(parent_or_count[a]) THEN a
               ELSE R[parent_or_count[a].val]
    BY <1>2 DEF Follows
  <2> QED BY <2>1, <2>2, WordCases
<1>4. R = [a \in Arena |-> R[a]]
  BY <1>2 DEF Follows
<1>5. Follows(R, parent_or_count')
  BY <1>3, <1>4 DEF Follows
<1>6. Root' = R
  BY <1>1, <1>2, <1>5, OneRoot
<1> QED BY <1>6

LEMMA CountsKeepRoots ==
    ASSUME OrderInv, OrderInv', NEW r \in Arena, NEW n \in Int,
           IsTaggedRefcount(parent_or_count[r]),
           parent_or_count' = [parent_or_count EXCEPT ![r] = TaggedFromRefcount(n)]
    PROVE  Root' = Root
<1>1. parent_or_count \in [Arena -> Word]
  BY DEF OrderInv, TypeOK
<1>2. ASSUME NEW a \in Arena
      PROVE  \/ IsTaggedRefcount(parent_or_count[a]) /\ IsTaggedRefcount(parent_or_count'[a])
             \/ /\ IsTaggedPointer(parent_or_count[a]) /\ IsTaggedPointer(parent_or_count'[a])
                /\ Root[parent_or_count'[a].val] = Root[a]
  <2>1. CASE a = r
    BY <1>1, <2>1, TagOfWord
  <2>2. CASE a # r
    <3>1. parent_or_count'[a] = parent_or_count[a] /\ parent_or_count[a] \in Word
      BY <1>1, <2>2
    <3> QED BY <3>1, RootsNow, WordCases
  <2> QED BY <2>1, <2>2
<1> QED BY <1>2, RootsKept

LEMMA ReparentJoins ==
    ASSUME OrderInv, OrderInv', NEW r1 \in Arena, NEW r2 \in Arena, r1 < r2,
           IsTaggedRefcount(parent_or_count[r2]),
           parent_or_count' = [parent_or_count EXCEPT ![r2] = TaggedFromPointer(r1)]
    PROVE  \A a \in Arena : Root'[a] = IF Root[a] = r2 THEN Root[r1] ELSE Root[a]
<1> PICK R : R = Root
  OBVIOUS
<1> DEFINE Q == [a \in Arena |-> IF R[a] = r2 THEN R[r1] ELSE R[a]]
<1>1. Ordered(parent_or_count) /\ Ordered(parent_or_count')
  BY OrderedMemory
<1>2. Follows(R, parent_or_count) /\ Follows(Root', parent_or_count')
  BY <1>1, RootFollows, RootFollowsNext
<1>3. /\ \A a \in Arena : IsTaggedRefcount(parent_or_count[a]) => R[a] = a
      /\ \A a \in Arena : IsTaggedPointer(parent_or_count[a]) =>
                              R[a] = R[parent_or_count[a].val]
      /\ R[r1] \in Arena /\ R[r1] <= r1
  BY RootsNow
<1>4. R[r1] # r2
  BY <1>3, ArenaNat
<1>5. ASSUME NEW a \in Arena
      PROVE  Q[a] = IF IsTaggedRefcount(parent_or_count'[a]) THEN a
                    ELSE Q[parent_or_count'[a].val]
  <2>1. parent_or_count[a] \in Word
    BY <1>1 DEF Ordered
  <2>2. CASE a = r2
    <3>1. parent_or_count'[a] = TaggedFromPointer(r1)
      BY <1>1, <2>2 DEF Ordered
    <3>2. ~IsTaggedRefcount(parent_or_count'[a]) /\ parent_or_count'[a].val = r1
      BY <3>1, TagOfWord
    <3> QED BY <1>3, <1>4, <2>2, <3>2
  <2>3. CASE a # r2
    <3>1. parent_or_count'[a] = parent_or_count[a]
      BY <1>1, <2>3 DEF Ordered
    <3>2. CASE IsTaggedRefcount(parent_or_count[a])
      BY <1>3, <2>3, <3>1, <3>2
    <3>3. CASE ~IsTaggedRefcount(parent_or_count[a])
      <4>1. R[a] = R[parent_or_count[a].val] /\ parent_or_count[a].val \in Arena
        BY <1>3, <2>1, <3>3, WordCases
      <4> QED BY <3>1, <3>3, <4>1
    <3> QED BY <3>2, <3>3
  <2> QED BY <2>2, <2>3
<1>6. Q = [a \in Arena |-> Q[a]]
  OBVIOUS
<1> HIDE DEF Q
<1>7. Follows(Q, parent_or_count')
  BY <1>5, <1>6 DEF Follows
<1>8. Root' = Q
  BY <1>1, <1>2, <1>7, OneRoot
<1> QED BY <1>8 DEF Q

----------------------------------------------------------------------------
(***************************************************************************)
(* What a call knows of groups, given the roots R and the words p of       *)
(* memory, where the thread is (l), its call c, its walk f and the frame g *)
(* of a fuse.                                                              *)
(***************************************************************************)
FusingAt == Linking \cup {"add_refs", "reparent", "fixup_load", "fixup_cas"}
FindingFor(l, f, rets) == l \in Finding /\ f.ret \in rets

\* A walk to the root stays in a group, below arenas that are no roots.
WalkInGroup(R, p, l, f) ==
    /\ l = "find_next" => IsTaggedPointer(p[f.ai]) /\ R[f.poc.val] = R[f.ai]
    /\ l = "find_split" => /\ IsTaggedPointer(p[f.ai]) /\ IsTaggedPointer(p[f.up])
                           /\ R[f.up] = R[f.ai] /\ R[f.poc.val] = R[f.ai]

\* upb_Arena_Fuse works on the groups of its arguments, and links and corrects
\* counts only when they are one group.
FuseInGroups(R, l, c, f, g) ==
    /\ l \in FusingAt \/ FindingFor(l, f, {"r1", "r2"}) =>
          /\ c.op = "fuse" /\ c.a \in Arena \ HasInitialBlock /\ c.b \in Arena \ HasInitialBlock
          /\ R[g.ai1] = R[c.a] /\ R[g.ai2] = R[c.b]
    /\ FindingFor(l, f, {"r1"}) => R[f.ai] = R[c.a]
    /\ FindingFor(l, f, {"r2"}) => R[f.ai] = R[c.b] /\ R[g.r1.root] = R[c.a]
    /\ l \in {"add_refs", "reparent"} =>
          \/ R[g.r1.root] = R[c.a] /\ R[g.r2.root] = R[c.b]
          \/ R[g.r1.root] = R[c.b] /\ R[g.r2.root] = R[c.a]
    /\ l \in Linking => R[g.r2.root] = R[c.a]
    /\ l \in Linking \cup {"fixup_load", "fixup_cas"} => R[c.b] = R[c.a] /\ R[g.r1.root] = R[c.a]

\* upb_Arena_IsFused: if the first root is still a root at the recheck, it was
\* one when the second, another, was found, so the arguments were not fused.
IsFusedInGroups(R, p, l, c, f, g) ==
    /\ l # "idle" /\ c.op = "isfused" =>
          /\ c.a \in Arena /\ c.b \in Arena /\ c.was \in {"true", "false"}
          /\ c.was = "true" => R[c.a] = R[c.b]
    /\ FindingFor(l, f, {"ra", "rb", "tmp"}) => c.op = "isfused" /\ R[g.ai2] = R[c.b]
    /\ FindingFor(l, f, {"ra"}) => R[f.ai] = R[c.a]
    /\ FindingFor(l, f, {"rb", "tmp"}) => R[g.ai1] = R[c.a]
    /\ FindingFor(l, f, {"rb"}) => R[f.ai] = R[c.b]
    /\ FindingFor(l, f, {"tmp"}) => /\ R[f.ai] = R[c.a]
                                    /\ IsTaggedRefcount(p[g.ai1]) => c.was = "false"

\* upb_Arena_IncRefFor and upb_Arena_Free look for the root of their argument.
CountInGroup(R, l, c, f) ==
    /\ l = "incref_cas" \/ FindingFor(l, f, {"incref"}) =>
          c.op = "incref" /\ c.a \in Arena /\ R[f.ai] = R[c.a]
    /\ l \in {"free_load", "free_cas", "do_free"} => c.op = "free" /\ c.a \in Arena
    /\ l \in {"free_load", "free_cas"} => R[f.ai] = R[c.a]
    /\ l \in {"space_backward", "space_forward"} => c.op = "space"

\* The results.
ResultInGroups(R, l, c) ==
    /\ l = "return" /\ c.op = "isfused" => /\ c.res = "true" => R[c.a] = R[c.b]
                                           /\ c.res = "false" => c.was = "false"
    /\ l = "return" /\ c.op = "fuse" =>
          /\ c.a \in Arena /\ c.b \in Arena /\ c.res \in {"true", "false"}
          /\ c.res = "true" => R[c.a] = R[c.b]
          /\ c.res = "false" => c.a # c.b /\ (c.a \in HasInitialBlock \/ c.b \in HasInitialBlock)

InGroups(R, p, l, c, f, g) ==
    /\ WalkInGroup(R, p, l, f) /\ FuseInGroups(R, l, c, f, g)
    /\ IsFusedInGroups(R, p, l, c, f, g)
    /\ CountInGroup(R, l, c, f) /\ ResultInGroups(R, l, c)
ThreadInGroups(t) == InGroups(Root, parent_or_count, pc[t], call[t], find[t], fuse[t])

\* An arena over caller-provided memory is a group of its own.
InitialBlocksAlone == \A a \in HasInitialBlock, b \in Arena : Root[b] = Root[a] => b = a

GroupInv == InitialBlocksAlone /\ \A t \in Thread : ThreadInGroups(t)
GroupStep == GroupInv' /\ RootsJoin

\* What a thread knows of groups stays true when groups are joined.
LEMMA GroupsStay ==
    ASSUME OrderInv, OrderStep, RootsJoin, NEW u \in Thread, ThreadInGroups(u),
           pc'[u] = pc[u], call'[u] = call[u], find'[u] = find[u], fuse'[u] = fuse[u]
    PROVE  ThreadInGroups(u)'
<1>0. PICK l, c, f, g : l = pc[u] /\ c = call[u] /\ f = find[u] /\ g = fuse[u]
  OBVIOUS
<1>1. InGroups(Root, parent_or_count, l, c, f, g)
  BY <1>0 DEF ThreadInGroups
<1>2. WalkOrdered(u) /\ FuseOrdered(u)
  BY DEF OrderInv
<1>3. /\ l \in Finding \cup {"incref_cas", "free_load", "free_cas"} => f.ai \in Arena
      /\ l = "find_next" => f.poc.val \in Arena
      /\ l = "find_split" => f.up \in Arena /\ f.poc.val \in Arena
      /\ FindingFor(l, f, {"r1", "r2", "rb", "tmp"}) => g.ai1 \in Arena /\ g.ai2 \in Arena
      /\ FindingFor(l, f, {"ra"}) => g.ai2 \in Arena
      /\ FindingFor(l, f, {"r2"}) => g.r1.root \in Arena
      /\ l \in FusingAt => g.ai1 \in Arena /\ g.ai2 \in Arena /\ g.r1.root \in Arena
      /\ l \in Linking \cup {"add_refs", "reparent"} => g.r2.root \in Arena
  <2>1. f.poc \in Word
    BY <1>0 DEF OrderInv, TypeOK, FindFrame
  <2>2. IsTaggedPointer(f.poc) => f.poc.val \in Arena
    BY <2>1, WordCases
  <2> QED BY <1>0, <1>2, <2>2 DEF WalkOrdered, FuseOrdered, FindingFor, FusingAt, At
<1>4. \A a, b \in Arena : Root[a] = Root[b] => Root'[a] = Root'[b]
  BY DEF RootsJoin
<1>5. \A a \in Arena : /\ IsTaggedPointer(parent_or_count[a]) => IsTaggedPointer(parent_or_count'[a])
                       /\ IsTaggedRefcount(parent_or_count'[a]) => IsTaggedRefcount(parent_or_count[a])
  <2> SUFFICES ASSUME NEW a \in Arena
               PROVE  /\ IsTaggedPointer(parent_or_count[a]) => IsTaggedPointer(parent_or_count'[a])
                      /\ IsTaggedRefcount(parent_or_count'[a]) => IsTaggedRefcount(parent_or_count[a])
    OBVIOUS
  <2>1. parent_or_count[a] \in Word /\ parent_or_count'[a] \in Word
    BY DEF OrderInv, OrderStep, TypeOK
  <2> QED BY <2>1, WordCases DEF OrderStep, NonRootsStay
<1>6. WalkInGroup(Root', parent_or_count', l, f)
  BY <1>1, <1>3, <1>4, <1>5 DEF InGroups, WalkInGroup, Finding
<1>7. FuseInGroups(Root', l, c, f, g)
  BY <1>1, <1>3, <1>4 DEF InGroups, FuseInGroups, FindingFor, FusingAt, Linking, Finding
<1>8. IsFusedInGroups(Root', parent_or_count', l, c, f, g)
  <2>1. l # "idle" /\ c.op = "isfused" =>
          /\ c.a \in Arena /\ c.b \in Arena /\ c.was \in {"true", "false"}
          /\ c.was = "true" => Root'[c.a] = Root'[c.b]
    BY <1>1, <1>4 DEF InGroups, IsFusedInGroups
  <2>2. FindingFor(l, f, {"ra", "rb", "tmp"}) =>
           /\ c.op = "isfused" /\ c.a \in Arena /\ c.b \in Arena
           /\ f.ai \in Arena /\ g.ai2 \in Arena
    BY <1>1, <1>3 DEF InGroups, IsFusedInGroups, FindingFor, Finding
  <2> QED BY <1>1, <1>3, <1>4, <1>5, <2>1, <2>2 DEF InGroups, IsFusedInGroups, FindingFor
<1>9. CountInGroup(Root', l, c, f)
  BY <1>1, <1>3, <1>4 DEF InGroups, CountInGroup, FindingFor
<1>10. ResultInGroups(Root', l, c)
  BY <1>1, <1>4 DEF InGroups, ResultInGroups, IsFusedInGroups
<1> QED BY <1>0, <1>6, <1>7, <1>8, <1>9, <1>10 DEF ThreadInGroups, InGroups

\* A step keeps the invariant if it keeps what the stepping thread knows.
LEMMA GroupsFromParts ==
    ASSUME OrderInv, OrderStep, GroupInv, NEW t \in Thread, OthersSame(t),
           RootsJoin, InitialBlocksAlone', ThreadInGroups(t)'
    PROVE  GroupStep
<1>1. ASSUME NEW u \in Thread PROVE ThreadInGroups(u)'
  <2>1. CASE u = t
    BY <2>1
  <2>2. CASE u # t
    BY <2>2, GroupsStay DEF OthersSame, GroupInv
  <2> QED BY <2>1, <2>2
<1> QED BY <1>1 DEF GroupStep, GroupInv

LEMMA SameRootsGroups ==
    ASSUME OrderInv, OrderStep, GroupInv, NEW t \in Thread, OthersSame(t),
           Root' = Root, ThreadInGroups(t)'
    PROVE  GroupStep
<1>1. RootsJoin /\ InitialBlocksAlone'
  BY DEF RootsJoin, GroupInv, InitialBlocksAlone
<1> QED BY <1>1, GroupsFromParts

----------------------------------------------------------------------------
(***************************************************************************)
(* A step leaves the frames of other threads alone.                        *)
(***************************************************************************)
LEMMA ReturnsOthers ==
    ASSUME OrderInv, NEW t \in Thread, NEW root, NEW word, FindRootReturns(t, root, word),
           UNCHANGED link
    PROVE  OthersSame(t)
<1> USE DEF OthersSame, OrderInv, TypeOK, Goto, CallFindRoot, Finish
<1> DEFINE r == [root |-> root, count |-> word.val]
<1> HIDE DEF r
<1>1. CASE GotFirstRoot(t, r)
  BY <1>1 DEF GotFirstRoot
<1>2. CASE GotSecondRoot(t, r)
  BY <1>2 DEF GotSecondRoot
<1>3. CASE GotRa(t, r)
  BY <1>3 DEF GotRa
<1>4. CASE GotRb(t, r)
  BY <1>4 DEF GotRb
<1>5. CASE GotTmp(t, r)
  BY <1>5 DEF GotTmp
<1>6. CASE GotIncRefRoot(t, r)
  BY <1>6 DEF GotIncRefRoot
<1> QED BY <1>1, <1>2, <1>3, <1>4, <1>5, <1>6 DEF FindRootReturns, r

LEMMA StartOthers ==
    ASSUME OrderInv, NEW t \in Thread, Start(t)
    PROVE  OthersSame(t)
<1> USE DEF OthersSame, OrderInv, TypeOK, Goto, CallFindRoot
<1>1. ASSUME NEW a, NEW b, StartFuse(t, a, b) PROVE OthersSame(t)
  BY <1>1 DEF StartFuse
<1>2. ASSUME NEW a, NEW b, StartIsFused(t, a, b) PROVE OthersSame(t)
  BY <1>2 DEF StartIsFused
<1>3. ASSUME NEW a, StartIncRef(t, a) PROVE OthersSame(t)
  BY <1>3 DEF StartIncRef
<1>4. ASSUME NEW a, StartFree(t, a) PROVE OthersSame(t)
  BY <1>4 DEF StartFree
<1>5. ASSUME NEW a, StartSpaceAllocated(t, a) PROVE OthersSame(t)
  BY <1>5 DEF StartSpaceAllocated
<1> QED BY <1>1, <1>2, <1>3, <1>4, <1>5 DEF Start

LEMMA StepOthers ==
    ASSUME OrderInv, NEW t \in Thread, Step(t)
    PROVE  OthersSame(t)
<1> USE DEF OthersSame, OrderInv, TypeOK, Goto, CallFindRoot, Finish, Retry, WalkTo
<1>1. CASE Return(t)
  BY <1>1 DEF Return
<1>2. CASE FindRootLoad(t)
  BY <1>2, ReturnsOthers DEF FindRootLoad
<1>3. CASE FindRootReload(t)
  BY <1>3 DEF FindRootReload
<1>4. CASE FindRootNext(t)
  BY <1>4, ReturnsOthers DEF FindRootNext
<1>5. CASE FindRootSplit(t)
  BY <1>5 DEF FindRootSplit
<1>6. CASE DoFuseAddRefs(t)
  BY <1>6 DEF DoFuseAddRefs
<1>7. CASE DoFuseReparent(t)
  BY <1>7 DEF DoFuseReparent
<1>8. CASE LinkForwardStart(t) \/ LinkForwardWalk(t) \/ LinkForwardCAS(t)
  BY <1>8 DEF LinkForwardStart, LinkForwardWalk, LinkForwardCAS
<1>9. CASE UpdateTailChild(t) \/ UpdateTailParent(t) \/ UpdateTailCAS(t)
  BY <1>9 DEF UpdateTailChild, UpdateTailParent, UpdateTailCAS
<1>10. CASE LinkBackward(t)
  BY <1>10 DEF LinkBackward
<1>11. CASE FixupRefsLoad(t)
  BY <1>11 DEF FixupRefsLoad
<1>12. CASE FixupRefsCAS(t)
  BY <1>12 DEF FixupRefsCAS
<1>13. CASE IncRefCAS(t)
  BY <1>13 DEF IncRefCAS
<1>14. CASE FreeLoad(t) \/ FreeCAS(t)
  BY <1>14 DEF FreeLoad, FreeCAS, FreeWith
<1>15. CASE DoFree(t)
  BY <1>15 DEF DoFree
<1>16. CASE SpaceBackward(t) \/ SpaceForward(t)
  BY <1>16 DEF SpaceBackward, SpaceForward, TurnAround
<1> QED BY <1>1, <1>2, <1>3, <1>4, <1>5, <1>6, <1>7, <1>8, <1>9, <1>10, <1>11, <1>12,
           <1>13, <1>14, <1>15, <1>16 DEF Step

----------------------------------------------------------------------------
(***************************************************************************)
(* What a thread knows where it arrives, from the frames it has there.     *)
(***************************************************************************)
\* What is known of the call of IsFused from beginning to end.
WasFused(R, c) == c.op = "isfused" =>
    /\ c.a \in Arena /\ c.b \in Arena /\ c.was \in {"true", "false"}
    /\ c.was = "true" => R[c.a] = R[c.b]

LEMMA AtReturn ==
    ASSUME NEW R, NEW p, NEW c, NEW f, NEW g, WasFused(R, c), ResultInGroups(R, "return", c)
    PROVE  InGroups(R, p, "return", c, f, g)
BY DEF InGroups, WalkInGroup, FuseInGroups, IsFusedInGroups, CountInGroup, WasFused,
       FindingFor, FusingAt, Finding, Linking

LEMMA AtFindLoad ==
    ASSUME NEW R, NEW p, NEW c, NEW g, NEW a \in Arena, WasFused(R, c),
           NEW ret \in {"r1", "r2", "ra", "rb", "tmp", "incref"},
           ret \in {"r1", "ra", "tmp", "incref"} => R[a] = R[c.a],
           ret \in {"r2", "rb"} => R[a] = R[c.b],
           ret \in {"r1", "r2"} =>
              /\ c.op = "fuse" /\ c.a \in Arena \ HasInitialBlock /\ c.b \in Arena \ HasInitialBlock
              /\ R[g.ai1] = R[c.a] /\ R[g.ai2] = R[c.b],
           ret = "r2" => R[g.r1.root] = R[c.a],
           ret \in {"ra", "rb", "tmp"} => c.op = "isfused" /\ R[g.ai2] = R[c.b],
           ret \in {"rb", "tmp"} => R[g.ai1] = R[c.a],
           ret = "tmp" /\ IsTaggedRefcount(p[g.ai1]) => c.was = "false",
           ret = "incref" => c.op = "incref" /\ c.a \in Arena
    PROVE  InGroups(R, p, "find_load", c, FindFrom(a, ret), g)
<1> PICK f : f = FindFrom(a, ret)
  OBVIOUS
<1>1. f.ai = a /\ f.ret = ret
  BY DEF FindFrom
<1>2. WalkInGroup(R, p, "find_load", f) /\ ResultInGroups(R, "find_load", c)
  BY DEF WalkInGroup, ResultInGroups
<1>3. FuseInGroups(R, "find_load", c, f, g)
  BY <1>1 DEF FuseInGroups, FindingFor, FusingAt, Finding, Linking
<1>4. IsFusedInGroups(R, p, "find_load", c, f, g)
  BY <1>1 DEF IsFusedInGroups, WasFused, FindingFor, Finding
<1>5. CountInGroup(R, "find_load", c, f)
  BY <1>1 DEF CountInGroup, FindingFor, Finding
<1> QED BY <1>2, <1>3, <1>4, <1>5 DEF InGroups

\* Places in Free, SpaceAllocated and the end of IncRefFor.
LEMMA AtCount ==
    ASSUME NEW R, NEW p, NEW c, NEW f, NEW g, WasFused(R, c),
           NEW l \in {"incref_cas", "free_load", "free_cas", "do_free",
                      "space_backward", "space_forward"},
           CountInGroup(R, l, c, f)
    PROVE  InGroups(R, p, l, c, f, g)
BY DEF InGroups, WalkInGroup, FuseInGroups, IsFusedInGroups, ResultInGroups, WasFused,
       FindingFor, FusingAt, Finding, Linking

\* Places in Fuse outside FindRoot.
LEMMA AtFusing ==
    ASSUME NEW R, NEW p, NEW c, NEW f, NEW g, NEW l \in FusingAt,
           FuseInGroups(R, l, c, f, g)
    PROVE  InGroups(R, p, l, c, f, g)
<1>1. c.op = "fuse"
  BY DEF FuseInGroups
<1>2. /\ l \notin Finding \cup {"idle", "return", "incref_cas", "free_load", "free_cas", "do_free",
                                "space_backward", "space_forward"}
  BY DEF FusingAt, Linking, Finding
<1>3. WalkInGroup(R, p, l, f)
  BY <1>2 DEF WalkInGroup, Finding
<1>4. IsFusedInGroups(R, p, l, c, f, g)
  BY <1>1, <1>2 DEF IsFusedInGroups, FindingFor
<1>5. CountInGroup(R, l, c, f) /\ ResultInGroups(R, l, c)
  BY <1>2 DEF CountInGroup, ResultInGroups, FindingFor
<1> QED BY <1>3, <1>4, <1>5 DEF InGroups

\* Places of a thread that started another.
LEMMA InCall ==
    ASSUME GroupInv, NEW t \in Thread, pc[t] # "idle"
    PROVE  WasFused(Root, call[t])
BY DEF GroupInv, ThreadInGroups, InGroups, IsFusedInGroups, WasFused

----------------------------------------------------------------------------
(***************************************************************************)
(* The steps that leave the roots alone.                                   *)
(***************************************************************************)
LEMMA Arrives ==
    ASSUME OrderInv, OrderStep, GroupInv, NEW t \in Thread, OthersSame(t), Root' = Root,
           NEW l, NEW c, NEW f, NEW g,
           pc'[t] = l, call'[t] = c, find'[t] = f, fuse'[t] = g,
           InGroups(Root, parent_or_count', l, c, f, g)
    PROVE  GroupStep
BY SameRootsGroups DEF ThreadInGroups

LEMMA FinishGroups ==
    ASSUME OrderInv, OrderStep, GroupInv, NEW t \in Thread, OthersSame(t), Root' = Root,
           pc[t] # "idle", NEW res \in {"true", "false"}, Finish(t, res),
           call[t].op = "isfused" => /\ res = "true" => Root[call[t].a] = Root[call[t].b]
                                     /\ res = "false" => call[t].was = "false",
           call[t].op = "fuse" => /\ call[t].a \in Arena /\ call[t].b \in Arena /\ res = "true"
                                  /\ Root[call[t].a] = Root[call[t].b]
    PROVE  GroupStep
<1> DEFINE c == [call[t] EXCEPT !.res = res]
<1>1. pc'[t] = "return" /\ find'[t] = find[t] /\ fuse'[t] = fuse[t]
  BY DEF OrderInv, TypeOK, Finish, Goto
<1>2. call'[t] = c
  BY DEF OrderInv, TypeOK, Finish
<1>3. /\ c.op = call[t].op /\ c.a = call[t].a /\ c.b = call[t].b /\ c.was = call[t].was
      /\ c.res = res
  BY DEF OrderInv, TypeOK, CallFrame
<1> HIDE DEF c
<1>4. WasFused(Root, c)
  BY <1>3, InCall DEF WasFused
<1>5. ResultInGroups(Root, "return", c)
  BY <1>3 DEF ResultInGroups
<1>6. InGroups(Root, parent_or_count', "return", c, find[t], fuse[t])
  BY <1>4, <1>5, AtReturn
<1> QED BY <1>1, <1>2, <1>6, Arrives

LEMMA FindGroups ==
    ASSUME OrderInv, OrderStep, GroupInv, NEW t \in Thread, OthersSame(t), Root' = Root,
           NEW a, NEW ret, CallFindRoot(t, a, ret),
           InGroups(Root, parent_or_count', "find_load", call'[t], FindFrom(a, ret), fuse'[t])
    PROVE  GroupStep
<1>1. pc'[t] = "find_load" /\ find'[t] = FindFrom(a, ret)
  BY DEF OrderInv, TypeOK, CallFindRoot, Goto
<1> QED BY <1>1, Arrives

LEMMA StartFuseGroups ==
    ASSUME OrderInv, OrderStep, GroupInv, NEW t \in Thread, OthersSame(t),
           NEW a \in Arena, NEW b \in Arena, StartFuse(t, a, b)
    PROVE  GroupStep
<1> DEFINE c == CallOf("fuse", a, b, "none", Answer(a = b))
<1>1. Root' = Root
  BY RootsSame DEF StartFuse, memory
<1>2. call'[t] = c
  BY DEF OrderInv, TypeOK, StartFuse
<1>3. c.op = "fuse" /\ c.a = a /\ c.b = b /\ c.res = Answer(a = b)
  BY DEF CallOf
<1> HIDE DEF c
<1>4. WasFused(Root, c)
  BY <1>3 DEF WasFused
<1>5. CASE a = b \/ a \in HasInitialBlock \/ b \in HasInitialBlock
  <2>1. pc'[t] = "return"
    BY <1>5 DEF OrderInv, TypeOK, StartFuse, Goto
  <2>2. ResultInGroups(Root, "return", c)
    BY <1>3, <1>5 DEF ResultInGroups, Answer
  <2>3. InGroups(Root, parent_or_count', "return", c, find'[t], fuse'[t])
    BY <1>4, <2>2, AtReturn
  <2> QED BY <1>1, <1>2, <2>1, <2>3, Arrives
<1>6. CASE ~(a = b \/ a \in HasInitialBlock \/ b \in HasInitialBlock)
  <2>1. CallFindRoot(t, a, "r1") /\ fuse'[t] = FuseOf(a, b)
    BY <1>6 DEF OrderInv, TypeOK, StartFuse
  <2> PICK g : g = FuseOf(a, b)
    OBVIOUS
  <2>2. g.ai1 = a /\ g.ai2 = b
    BY DEF FuseOf
  <2>3. InGroups(Root, parent_or_count', "find_load", c, FindFrom(a, "r1"), g)
    BY <1>3, <1>4, <1>6, <2>2, AtFindLoad
  <2> QED BY <1>1, <1>2, <2>1, <2>2, <2>3, FindGroups
<1> QED BY <1>5, <1>6

LEMMA StartIsFusedGroups ==
    ASSUME OrderInv, OrderStep, GroupInv, NEW t \in Thread, OthersSame(t),
           NEW a \in Arena, NEW b \in Arena, StartIsFused(t, a, b)
    PROVE  GroupStep
<1> DEFINE c == CallOf("isfused", a, b, Answer(Root[a] = Root[b]), Answer(a = b))
<1>1. Root' = Root
  BY RootsSame DEF StartIsFused, memory
<1>2. call'[t] = c
  BY DEF OrderInv, TypeOK, StartIsFused
<1>3. /\ c.op = "isfused" /\ c.a = a /\ c.b = b
      /\ c.was = Answer(Root[a] = Root[b]) /\ c.res = Answer(a = b)
  BY DEF CallOf
<1> HIDE DEF c
<1>4. WasFused(Root, c)
  BY <1>3 DEF WasFused, Answer
<1>5. CASE a = b
  <2>1. pc'[t] = "return"
    BY <1>5 DEF OrderInv, TypeOK, StartIsFused, Goto
  <2>2. ResultInGroups(Root, "return", c)
    BY <1>3, <1>5 DEF ResultInGroups, Answer
  <2>3. InGroups(Root, parent_or_count', "return", c, find'[t], fuse'[t])
    BY <1>4, <2>2, AtReturn
  <2> QED BY <1>1, <1>2, <2>1, <2>3, Arrives
<1>6. CASE a # b
  <2>1. CallFindRoot(t, a, "ra") /\ fuse'[t] = FuseOf(NULL, b)
    BY <1>6 DEF OrderInv, TypeOK, StartIsFused
  <2> PICK g : g = FuseOf(NULL, b)
    OBVIOUS
  <2>2. g.ai2 = b
    BY DEF FuseOf
  <2>3. InGroups(Root, parent_or_count', "find_load", c, FindFrom(a, "ra"), g)
    BY <1>3, <1>4, <2>2, AtFindLoad
  <2> QED BY <1>1, <1>2, <2>1, <2>2, <2>3, FindGroups
<1> QED BY <1>5, <1>6

LEMMA StartIncRefGroups ==
    ASSUME OrderInv, OrderStep, GroupInv, NEW t \in Thread, OthersSame(t),
           NEW a \in Arena, StartIncRef(t, a)
    PROVE  GroupStep
<1> DEFINE c == CallOf("incref", a, NULL, "none", "false")
<1>1. Root' = Root
  BY RootsSame DEF StartIncRef, memory
<1>2. call'[t] = c
  BY DEF OrderInv, TypeOK, StartIncRef
<1>3. c.op = "incref" /\ c.a = a
  BY DEF CallOf
<1> HIDE DEF c
<1>4. WasFused(Root, c) /\ ResultInGroups(Root, "return", c)
  BY <1>3 DEF WasFused, ResultInGroups
<1>5. CASE Goto(t, "return")
  <2>1. pc'[t] = "return"
    BY <1>5 DEF OrderInv, TypeOK, Goto
  <2>2. InGroups(Root, parent_or_count', "return", c, find'[t], fuse'[t])
    BY <1>4, AtReturn
  <2> QED BY <1>1, <1>2, <2>1, <2>2, Arrives
<1>6. CASE CallFindRoot(t, a, "incref")
  <2>1. InGroups(Root, parent_or_count', "find_load", c, FindFrom(a, "incref"), fuse'[t])
    BY <1>3, <1>4, AtFindLoad
  <2> QED BY <1>1, <1>2, <1>6, <2>1, FindGroups
<1> QED BY <1>5, <1>6 DEF StartIncRef

LEMMA StartFreeGroups ==
    ASSUME OrderInv, OrderStep, GroupInv, NEW t \in Thread, OthersSame(t),
           NEW a \in Arena, StartFree(t, a)
    PROVE  GroupStep
<1> DEFINE c == CallOf("free", a, NULL, "none", "false")
           f == FindFrom(a, "none")
<1>1. Root' = Root
  BY RootsSame DEF StartFree, memory
<1>2. call'[t] = c /\ pc'[t] = "free_load" /\ find'[t] = f
  BY DEF OrderInv, TypeOK, StartFree, Goto
<1>3. c.op = "free" /\ c.a = a /\ f.ai = a
  BY DEF CallOf, FindFrom
<1> HIDE DEF c, f
<1>4. WasFused(Root, c) /\ CountInGroup(Root, "free_load", c, f)
  BY <1>3 DEF WasFused, CountInGroup, FindingFor, Finding
<1>5. InGroups(Root, parent_or_count', "free_load", c, f, fuse'[t])
  BY <1>4, AtCount
<1> QED BY <1>1, <1>2, <1>5, Arrives

LEMMA StartSpaceGroups ==
    ASSUME OrderInv, OrderStep, GroupInv, NEW t \in Thread, OthersSame(t),
           NEW a \in Arena, StartSpaceAllocated(t, a)
    PROVE  GroupStep
<1> DEFINE c == CallOf("space", a, NULL, "none", "false")
<1>1. Root' = Root
  BY RootsSame DEF StartSpaceAllocated, memory
<1>2. call'[t] = c /\ pc'[t] = "space_backward"
  BY DEF OrderInv, TypeOK, StartSpaceAllocated, Goto
<1>3. c.op = "space"
  BY DEF CallOf
<1> HIDE DEF c
<1>4. WasFused(Root, c) /\ CountInGroup(Root, "space_backward", c, find'[t])
  BY <1>3 DEF WasFused, CountInGroup, FindingFor, Finding
<1>5. InGroups(Root, parent_or_count', "space_backward", c, find'[t], fuse'[t])
  BY <1>4, AtCount
<1> QED BY <1>1, <1>2, <1>5, Arrives

LEMMA StartGroups ==
    ASSUME OrderInv, OrderStep, GroupInv, NEW t \in Thread, Start(t)
    PROVE  GroupStep
<1>1. OthersSame(t)
  BY StartOthers
<1>2. ASSUME NEW q \in Pairs, StartFuse(t, q[1], q[2]) \/ StartIsFused(t, q[1], q[2])
      PROVE  GroupStep
  <2>1. q[1] \in Arena /\ q[2] \in Arena
    BY OpsAssumption
  <2> QED BY <1>1, <1>2, <2>1, StartFuseGroups, StartIsFusedGroups
<1>3. ASSUME NEW a \in Arena, StartIncRef(t, a) \/ StartFree(t, a) \/ StartSpaceAllocated(t, a)
      PROVE  GroupStep
  BY <1>1, <1>3, StartIncRefGroups, StartFreeGroups, StartSpaceGroups
<1> QED BY <1>2, <1>3 DEF Start

----------------------------------------------------------------------------
(***************************************************************************)
(* _upb_Arena_FindRoot.                                                    *)
(***************************************************************************)
\* What the caller of FindRoot knew when it called.
LEMMA FinderFacts ==
    ASSUME OrderInv, GroupInv, NEW t \in Thread, pc[t] \in Finding,
           NEW l, NEW c, NEW f, NEW g,
           l = pc[t], c = call[t], f = find[t], g = fuse[t]
    PROVE  /\ f.ai \in Arena /\ WasFused(Root, c) /\ f \in FindFrame
           /\ f.ret \in {"r1", "ra", "tmp", "incref"} => Root[f.ai] = Root[c.a]
           /\ f.ret \in {"r2", "rb"} => Root[f.ai] = Root[c.b]
           /\ f.ret \in {"r1", "r2"} =>
                /\ c.op = "fuse" /\ c.a \in Arena \ HasInitialBlock /\ c.b \in Arena \ HasInitialBlock
                /\ Root[g.ai1] = Root[c.a] /\ Root[g.ai2] = Root[c.b]
                /\ g.ai1 \in Arena /\ g.ai2 \in Arena
           /\ f.ret = "r2" => Root[g.r1.root] = Root[c.a] /\ g.r1.root \in Arena
           /\ f.ret \in {"ra", "rb", "tmp"} => /\ c.op = "isfused" /\ Root[g.ai2] = Root[c.b]
                                               /\ c.a \in Arena /\ c.b \in Arena /\ g.ai2 \in Arena
           /\ f.ret \in {"rb", "tmp"} => Root[g.ai1] = Root[c.a] /\ g.ai1 \in Arena
           /\ f.ret = "tmp" /\ IsTaggedRefcount(parent_or_count[g.ai1]) => c.was = "false"
           /\ f.ret = "incref" => c.op = "incref" /\ c.a \in Arena
<1>1. InGroups(Root, parent_or_count, l, c, f, g)
  BY DEF GroupInv, ThreadInGroups
<1>2. WasFused(Root, c)
  BY InCall DEF Finding
<1>3. /\ f.ai \in Arena
      /\ f.ret \in {"r1", "r2", "rb", "tmp"} => g.ai1 \in Arena /\ g.ai2 \in Arena
      /\ f.ret = "ra" => g.ai2 \in Arena
      /\ f.ret = "r2" => g.r1.root \in Arena
  BY DEF OrderInv, WalkOrdered, FuseOrdered
<1>4. FuseInGroups(Root, l, c, f, g)
  BY <1>1 DEF InGroups
<1>5. IsFusedInGroups(Root, parent_or_count, l, c, f, g)
  BY <1>1 DEF InGroups
<1>6. CountInGroup(Root, l, c, f)
  BY <1>1 DEF InGroups
<1>7. f \in FindFrame
  BY DEF OrderInv, TypeOK
<1>8. /\ f.ret \in {"r1", "r2"} =>
           /\ c.op = "fuse" /\ c.a \in Arena \ HasInitialBlock /\ c.b \in Arena \ HasInitialBlock
           /\ Root[g.ai1] = Root[c.a] /\ Root[g.ai2] = Root[c.b]
      /\ f.ret = "r1" => Root[f.ai] = Root[c.a]
      /\ f.ret = "r2" => Root[f.ai] = Root[c.b] /\ Root[g.r1.root] = Root[c.a]
  BY <1>4 DEF FuseInGroups, FindingFor
<1>9. /\ f.ret \in {"ra", "rb", "tmp"} => c.op = "isfused" /\ Root[g.ai2] = Root[c.b]
      /\ f.ret = "ra" => Root[f.ai] = Root[c.a]
      /\ f.ret \in {"rb", "tmp"} => Root[g.ai1] = Root[c.a]
      /\ f.ret = "rb" => Root[f.ai] = Root[c.b]
      /\ f.ret = "tmp" => /\ Root[f.ai] = Root[c.a]
                          /\ IsTaggedRefcount(parent_or_count[g.ai1]) => c.was = "false"
  BY <1>5 DEF IsFusedInGroups, FindingFor
<1>10. f.ret = "incref" => c.op = "incref" /\ c.a \in Arena /\ Root[f.ai] = Root[c.a]
  BY <1>6 DEF CountInGroup, FindingFor
<1> QED BY <1>2, <1>3, <1>7, <1>8, <1>9, <1>10 DEF WasFused

\* FindRoot returns the root of the group it walked in, read as a root now.
LEMMA FindRootReturnsGroups ==
    ASSUME OrderInv, OrderStep, GroupInv, NEW t \in Thread, OthersSame(t), Root' = Root,
           UNCHANGED parent_or_count, pc[t] \in Finding,
           NEW root \in Arena, NEW word \in Word, Root[root] = root, Root[find[t].ai] = root,
           IsTaggedRefcount(parent_or_count[root]), FindRootReturns(t, root, word)
    PROVE  GroupStep
<1> DEFINE r == [root |-> root, count |-> word.val]
<1>0. r.root = root
  OBVIOUS
<1> HIDE DEF r
<1> PICK l, c, f, g : l = pc[t] /\ c = call[t] /\ f = find[t] /\ g = fuse[t]
  OBVIOUS
<1>1. /\ f.ai \in Arena /\ WasFused(Root, c) /\ f \in FindFrame
      /\ f.ret \in {"r1", "ra", "tmp", "incref"} => Root[f.ai] = Root[c.a]
      /\ f.ret \in {"r2", "rb"} => Root[f.ai] = Root[c.b]
      /\ f.ret \in {"r1", "r2"} =>
            /\ c.op = "fuse" /\ c.a \in Arena \ HasInitialBlock /\ c.b \in Arena \ HasInitialBlock
            /\ Root[g.ai1] = Root[c.a] /\ Root[g.ai2] = Root[c.b]
            /\ g.ai1 \in Arena /\ g.ai2 \in Arena
      /\ f.ret = "r2" => Root[g.r1.root] = Root[c.a] /\ g.r1.root \in Arena
      /\ f.ret \in {"ra", "rb", "tmp"} => /\ c.op = "isfused" /\ Root[g.ai2] = Root[c.b]
                                          /\ c.a \in Arena /\ c.b \in Arena /\ g.ai2 \in Arena
      /\ f.ret \in {"rb", "tmp"} => Root[g.ai1] = Root[c.a] /\ g.ai1 \in Arena
      /\ f.ret = "tmp" /\ IsTaggedRefcount(parent_or_count[g.ai1]) => c.was = "false"
      /\ f.ret = "incref" => c.op = "incref" /\ c.a \in Arena
  BY FinderFacts
<1>2. g \in FuseFrame /\ pc[t] # "idle"
  BY DEF OrderInv, TypeOK, Finding
<1>3. CASE f.ret = "r1" /\ GotFirstRoot(t, r)
  <2>1. /\ fuse'[t] = [g EXCEPT !.r1 = r] /\ call'[t] = c
        /\ CallFindRoot(t, g.ai2, "r2")
    BY <1>3 DEF GotFirstRoot, OrderInv, TypeOK
  <2> PICK h : h = [g EXCEPT !.r1 = r]
    OBVIOUS
  <2>2. h.ai1 = g.ai1 /\ h.ai2 = g.ai2 /\ h.r1 = r
    BY <1>2 DEF FuseFrame
  <2>3. /\ WasFused(Root, c) /\ g.ai2 \in Arena /\ Root[g.ai2] = Root[c.b] /\ c.op = "fuse"
        /\ c.a \in Arena \ HasInitialBlock /\ c.b \in Arena \ HasInitialBlock
        /\ Root[h.ai1] = Root[c.a] /\ Root[h.ai2] = Root[c.b] /\ Root[h.r1.root] = Root[c.a]
    BY <1>0, <1>1, <1>3, <2>2
  <2>4. InGroups(Root, parent_or_count', "find_load", c, FindFrom(g.ai2, "r2"), h)
    BY ONLY <2>3, AtFindLoad
  <2> QED BY <2>1, <2>4, FindGroups
<1>4. CASE f.ret = "r2" /\ GotSecondRoot(t, r)
  <2>1. find'[t] = NoFind /\ call'[t] = c
    BY <1>4 DEF GotSecondRoot, OrderInv, TypeOK
  <2>2. CASE g.r1.root = r.root
    <3>1. pc'[t] = "fixup_load" /\ fuse'[t] = g
      BY <1>4, <2>2 DEF GotSecondRoot, OrderInv, TypeOK, Goto
    <3>2. FuseInGroups(Root, "fixup_load", c, NoFind, g)
      BY <1>0, <1>1, <1>4, <2>2 DEF FuseInGroups, FindingFor, FusingAt, Finding, Linking
    <3>3. InGroups(Root, parent_or_count', "fixup_load", c, NoFind, g)
      BY <3>2, AtFusing DEF FusingAt
    <3> QED BY <2>1, <3>1, <3>3, Arrives
  <2>3. CASE g.r1.root # r.root
    <3> DEFINE h == [ai1 |-> g.r1.root, ai2 |-> r.root,
                     r1 |-> LowerFirst(g.r1, r)[1], r2 |-> LowerFirst(g.r1, r)[2]]
    <3>1. pc'[t] = "add_refs" /\ fuse'[t] = h
      BY <1>4, <2>3 DEF GotSecondRoot, OrderInv, TypeOK, Goto
    <3>2. /\ h.ai1 = g.r1.root /\ h.ai2 = root
          /\ \/ h.r1.root = g.r1.root /\ h.r2.root = root
             \/ h.r1.root = root /\ h.r2.root = g.r1.root
      BY <1>0 DEF LowerFirst
    <3> HIDE DEF h
    <3>3. FuseInGroups(Root, "add_refs", c, NoFind, h)
      BY <1>1, <1>4, <3>2 DEF FuseInGroups, FindingFor, FusingAt, Finding, Linking
    <3>4. InGroups(Root, parent_or_count', "add_refs", c, NoFind, h)
      BY <3>3, AtFusing DEF FusingAt
    <3> QED BY <2>1, <3>1, <3>4, Arrives
  <2> QED BY <2>2, <2>3
<1>5. CASE f.ret = "ra" /\ GotRa(t, r)
  <2>1. /\ fuse'[t] = [g EXCEPT !.ai1 = r.root] /\ call'[t] = c
        /\ CallFindRoot(t, g.ai2, "rb")
    BY <1>5 DEF GotRa, OrderInv, TypeOK
  <2> PICK h : h = [g EXCEPT !.ai1 = r.root]
    OBVIOUS
  <2>2. h.ai1 = root /\ h.ai2 = g.ai2
    BY <1>0, <1>2 DEF FuseFrame
  <2>3. /\ WasFused(Root, c) /\ g.ai2 \in Arena /\ Root[g.ai2] = Root[c.b] /\ c.op = "isfused"
        /\ Root[h.ai1] = Root[c.a] /\ Root[h.ai2] = Root[c.b]
    BY <1>1, <1>5, <2>2
  <2>4. InGroups(Root, parent_or_count', "find_load", c, FindFrom(g.ai2, "rb"), h)
    BY ONLY <2>3, AtFindLoad
  <2> QED BY <2>1, <2>4, FindGroups
<1>6. CASE f.ret = "rb" /\ GotRb(t, r)
  <2>1. CASE g.ai1 = r.root
    <3>1. Finish(t, "true")
      BY <1>6, <2>1 DEF GotRb
    <3> QED BY <1>0, <1>1, <1>2, <1>6, <2>1, <3>1, FinishGroups
  <2>2. CASE g.ai1 # r.root
    <3>1. /\ fuse'[t] = [g EXCEPT !.ai2 = r.root] /\ call'[t] = c
          /\ CallFindRoot(t, g.ai1, "tmp")
      BY <1>6, <2>2 DEF GotRb, OrderInv, TypeOK
    <3> PICK h : h = [g EXCEPT !.ai2 = r.root]
      OBVIOUS
    <3>2. h.ai1 = g.ai1 /\ h.ai2 = root
      BY <1>0, <1>2 DEF FuseFrame
    <3>3. IsTaggedRefcount(parent_or_count[g.ai1]) => c.was = "false"
      <4>1. IsTaggedRefcount(parent_or_count[g.ai1]) => Root[g.ai1] = g.ai1
        BY <1>1, <1>6, RootsNow
      <4> QED BY <1>0, <1>1, <1>6, <2>2, <4>1 DEF WasFused
    <3>4. /\ WasFused(Root, c) /\ g.ai1 \in Arena /\ Root[g.ai1] = Root[c.a] /\ c.op = "isfused"
          /\ Root[h.ai1] = Root[c.a] /\ Root[h.ai2] = Root[c.b]
          /\ IsTaggedRefcount(parent_or_count'[h.ai1]) => c.was = "false"
      BY <1>1, <1>6, <3>2, <3>3
    <3>5. InGroups(Root, parent_or_count', "find_load", c, FindFrom(g.ai1, "tmp"), h)
      BY ONLY <3>4, AtFindLoad
    <3> QED BY <3>1, <3>5, FindGroups
  <2> QED BY <2>1, <2>2
<1>7. CASE f.ret = "tmp" /\ GotTmp(t, r)
  <2>1. CASE g.ai1 = r.root
    <3>1. Finish(t, "false")
      BY <1>7, <2>1 DEF GotTmp
    <3> QED BY <1>0, <1>1, <1>2, <1>7, <2>1, <3>1, FinishGroups
  <2>2. CASE g.ai1 # r.root
    <3>1. /\ fuse'[t] = [g EXCEPT !.ai1 = r.root] /\ call'[t] = c
          /\ CallFindRoot(t, g.ai2, "rb")
      BY <1>7, <2>2 DEF GotTmp, OrderInv, TypeOK
    <3> PICK h : h = [g EXCEPT !.ai1 = r.root]
      OBVIOUS
    <3>2. h.ai1 = root /\ h.ai2 = g.ai2
      BY <1>0, <1>2 DEF FuseFrame
    <3>3. /\ WasFused(Root, c) /\ g.ai2 \in Arena /\ Root[g.ai2] = Root[c.b] /\ c.op = "isfused"
          /\ Root[h.ai1] = Root[c.a] /\ Root[h.ai2] = Root[c.b]
      BY <1>1, <1>7, <3>2
    <3>4. InGroups(Root, parent_or_count', "find_load", c, FindFrom(g.ai2, "rb"), h)
      BY ONLY <3>3, AtFindLoad
    <3> QED BY <3>1, <3>4, FindGroups
  <2> QED BY <2>1, <2>2
<1>8. CASE f.ret = "incref" /\ GotIncRefRoot(t, r)
  <2> DEFINE h == [f EXCEPT !.ai = r.root, !.poc = TaggedFromRefcount(r.count)]
  <2>1. find'[t] = h /\ call'[t] = c /\ pc'[t] = "incref_cas"
    BY <1>8 DEF GotIncRefRoot, OrderInv, TypeOK, Goto
  <2>2. h.ai = root
    BY <1>0, <1>1 DEF FindFrame
  <2> HIDE DEF h
  <2>3. CountInGroup(Root, "incref_cas", c, h)
    BY <1>1, <1>8, <2>2 DEF CountInGroup, FindingFor, Finding
  <2>4. InGroups(Root, parent_or_count', "incref_cas", c, h, fuse'[t])
    BY <1>1, <2>3, AtCount
  <2> QED BY <2>1, <2>4, Arrives
<1> QED BY <1>3, <1>4, <1>5, <1>6, <1>7, <1>8 DEF FindRootReturns, r

\* The walk goes on within its group.
LEMMA FinderWalks ==
    ASSUME OrderInv, OrderStep, GroupInv, NEW t \in Thread, OthersSame(t), Root' = Root,
           pc[t] \in Finding, UNCHANGED <<call, fuse>>, NEW l \in Finding, NEW h,
           pc'[t] = l, find'[t] = h, h.ret = find[t].ret,
           h.ai \in Arena, Root[h.ai] = Root[find[t].ai],
           WalkInGroup(Root, parent_or_count', l, h)
    PROVE  GroupStep
<1> PICK c, f, g : c = call[t] /\ f = find[t] /\ g = fuse[t]
  OBVIOUS
<1>1. /\ f.ai \in Arena /\ WasFused(Root, c)
      /\ f.ret \in {"r1", "ra", "tmp", "incref"} => Root[f.ai] = Root[c.a]
      /\ f.ret \in {"r2", "rb"} => Root[f.ai] = Root[c.b]
      /\ f.ret \in {"r1", "r2"} =>
            /\ c.op = "fuse" /\ c.a \in Arena \ HasInitialBlock /\ c.b \in Arena \ HasInitialBlock
            /\ Root[g.ai1] = Root[c.a] /\ Root[g.ai2] = Root[c.b]
      /\ f.ret = "r2" => Root[g.r1.root] = Root[c.a]
      /\ f.ret \in {"ra", "rb", "tmp"} => c.op = "isfused" /\ Root[g.ai2] = Root[c.b]
      /\ f.ret \in {"rb", "tmp"} => Root[g.ai1] = Root[c.a] /\ g.ai1 \in Arena
      /\ f.ret = "tmp" /\ IsTaggedRefcount(parent_or_count[g.ai1]) => c.was = "false"
      /\ f.ret = "incref" => c.op = "incref" /\ c.a \in Arena
  BY FinderFacts
<1>2. f.ret = "tmp" /\ IsTaggedRefcount(parent_or_count'[g.ai1]) => c.was = "false"
  <2>1. ASSUME f.ret = "tmp", IsTaggedRefcount(parent_or_count'[g.ai1])
        PROVE  IsTaggedRefcount(parent_or_count[g.ai1])
    <3>1. parent_or_count[g.ai1] \in Word /\ parent_or_count'[g.ai1] \in Word
      BY <1>1, <2>1 DEF OrderInv, OrderStep, TypeOK
    <3> QED BY <1>1, <2>1, <3>1, WordCases DEF OrderStep, NonRootsStay
  <2> QED BY <1>1, <2>1
<1>3. l \notin FusingAt /\ l \notin {"idle", "return", "incref_cas", "free_load", "free_cas",
                                     "do_free", "space_backward", "space_forward"}
  BY DEF Finding, FusingAt, Linking
<1>4. FuseInGroups(Root, l, c, h, g)
  BY <1>1, <1>3 DEF FuseInGroups, FindingFor, FusingAt
<1>5. IsFusedInGroups(Root, parent_or_count', l, c, h, g)
  BY <1>1, <1>2 DEF IsFusedInGroups, FindingFor, WasFused
<1>6. CountInGroup(Root, l, c, h) /\ ResultInGroups(Root, l, c)
  BY <1>1, <1>3 DEF CountInGroup, ResultInGroups, FindingFor
<1>7. InGroups(Root, parent_or_count', l, c, h, g)
  BY <1>4, <1>5, <1>6 DEF InGroups
<1> QED BY <1>7, Arrives

LEMMA FindRootLoadGroups ==
    ASSUME OrderInv, OrderStep, GroupInv, NEW t \in Thread, OthersSame(t), FindRootLoad(t)
    PROVE  GroupStep
<1> PICK ai, word : ai = find[t].ai /\ word = parent_or_count[ai]
  OBVIOUS
<1>1. pc[t] = "find_load" /\ pc[t] \in Finding
  BY DEF FindRootLoad, At, Finding
<1>2. ai \in Arena /\ word \in Word
  BY <1>1 DEF OrderInv, WalkOrdered, TypeOK
<1>3. UNCHANGED parent_or_count /\ Root' = Root
  BY RootsSame DEF FindRootLoad, memory
<1>4. CASE IsTaggedRefcount(word) /\ FindRootReturns(t, ai, word)
  <2>1. Root[ai] = ai
    BY <1>2, <1>4, RootsNow
  <2> QED BY <1>1, <1>2, <1>3, <1>4, <2>1, FindRootReturnsGroups
<1>5. CASE Goto(t, "find_reload") /\ UNCHANGED <<call, find, fuse>>
  <2>1. pc'[t] = "find_reload" /\ find'[t] = find[t] /\ "find_reload" \in Finding
    BY <1>5 DEF OrderInv, TypeOK, Goto, Finding
  <2>2. WalkInGroup(Root, parent_or_count', "find_reload", find[t])
    BY DEF WalkInGroup
  <2> QED BY <1>1, <1>2, <1>3, <1>5, <2>1, <2>2, FinderWalks
<1> QED BY <1>4, <1>5 DEF FindRootLoad

LEMMA FindRootReloadGroups ==
    ASSUME OrderInv, OrderStep, GroupInv, NEW t \in Thread, OthersSame(t), FindRootReload(t)
    PROVE  GroupStep
<1> DEFINE f == find[t]
           w == parent_or_count[f.ai]
           h == [f EXCEPT !.poc = w]
<1>1. pc[t] = "find_reload" /\ pc[t] \in Finding /\ "find_next" \in Finding
  BY DEF FindRootReload, At, Finding
<1>2. f.ai \in Arena /\ w \in Word /\ IsTaggedPointer(w) /\ f \in FindFrame
  BY <1>1 DEF OrderInv, WalkOrdered, TypeOK, At
<1>3. UNCHANGED <<parent_or_count, call, fuse>> /\ Root' = Root
  BY RootsSame DEF FindRootReload, memory
<1>4. pc'[t] = "find_next" /\ find'[t] = h
  BY DEF FindRootReload, OrderInv, TypeOK, Goto
<1>5. h.ret = f.ret /\ h.ai = f.ai /\ h.poc = w
  BY <1>2 DEF FindFrame
<1>6. Root[w.val] = Root[f.ai]
  BY <1>2, RootsNow
<1> HIDE DEF h
<1>7. WalkInGroup(Root, parent_or_count', "find_next", h)
  BY <1>2, <1>3, <1>5, <1>6 DEF WalkInGroup
<1> QED BY <1>1, <1>2, <1>3, <1>4, <1>5, <1>7, FinderWalks

LEMMA FindRootNextGroups ==
    ASSUME OrderInv, OrderStep, GroupInv, NEW t \in Thread, OthersSame(t), FindRootNext(t)
    PROVE  GroupStep
<1> DEFINE f == find[t]
<1> PICK up, word : up = find[t].poc.val /\ word = parent_or_count[up]
  OBVIOUS
<1>1. pc[t] = "find_next" /\ pc[t] \in Finding /\ "find_split" \in Finding
  BY DEF FindRootNext, At, Finding
<1>2. f.ai \in Arena /\ f \in FindFrame /\ IsTaggedPointer(f.poc) /\ f.poc \in Word
  BY <1>1 DEF OrderInv, WalkOrdered, TypeOK, At, FindFrame
<1>3. up \in Arena /\ word \in Word
  <2>1. up \in Arena
    BY <1>2, WordCases
  <2> QED BY <2>1 DEF OrderInv, TypeOK
<1>4. UNCHANGED parent_or_count /\ Root' = Root
  BY RootsSame DEF FindRootNext, memory
<1>5. IsTaggedPointer(parent_or_count[f.ai]) /\ Root[up] = Root[f.ai]
  BY <1>1 DEF GroupInv, ThreadInGroups, InGroups, WalkInGroup
<1>6. CASE IsTaggedRefcount(word) /\ FindRootReturns(t, up, word)
  <2>1. Root[up] = up
    BY <1>3, <1>6, RootsNow
  <2> QED BY <1>1, <1>3, <1>4, <1>5, <1>6, <2>1, FindRootReturnsGroups
<1>7. CASE /\ IsTaggedPointer(word)
           /\ find' = [find EXCEPT ![t].up = up, ![t].poc = word]
           /\ Goto(t, "find_split")
           /\ UNCHANGED <<call, fuse>>
  <2> DEFINE h == [f EXCEPT !.up = up, !.poc = word]
  <2>1. pc'[t] = "find_split" /\ find'[t] = h
    BY <1>7 DEF OrderInv, TypeOK, Goto
  <2>2. h.ret = f.ret /\ h.ai = f.ai /\ h.up = up /\ h.poc = word
    BY <1>2 DEF FindFrame
  <2>3. Root[word.val] = Root[up]
    BY <1>3, <1>7, RootsNow
  <2> HIDE DEF h
  <2>4. WalkInGroup(Root, parent_or_count', "find_split", h)
    BY <1>4, <1>5, <1>7, <2>2, <2>3 DEF WalkInGroup
  <2> QED BY <1>1, <1>2, <1>4, <1>7, <2>1, <2>2, <2>4, FinderWalks
<1> QED BY <1>6, <1>7 DEF FindRootNext

\* Path splitting replaces a pointer by one into the same group.
LEMMA SplitKeepsRoots ==
    ASSUME OrderInv, OrderStep, GroupInv, NEW t \in Thread, FindRootSplit(t), NEW f, f = find[t]
    PROVE  /\ Root' = Root
           /\ f.ai \in Arena /\ f \in FindFrame /\ f.up \in Arena /\ f.up < f.ai
           /\ parent_or_count' = [parent_or_count EXCEPT ![f.ai] = f.poc]
           /\ IsTaggedPointer(parent_or_count[f.ai]) /\ IsTaggedPointer(parent_or_count[f.up])
           /\ IsTaggedPointer(f.poc) /\ f.poc \in Word
           /\ Root[f.up] = Root[f.ai] /\ Root[f.poc.val] = Root[f.ai]
<1>1. pc[t] = "find_split" /\ pc[t] \in Finding
  BY DEF FindRootSplit, At, Finding
<1>2. /\ f.ai \in Arena /\ f \in FindFrame /\ IsTaggedPointer(f.poc) /\ f.poc \in Word
      /\ f.up \in Arena /\ f.up < f.ai
  <2>1. f \in FindFrame /\ WalkOrdered(t)
    BY DEF OrderInv, TypeOK
  <2>2. f.poc \in Word
    BY <2>1 DEF FindFrame
  <2> QED BY <1>1, <2>1, <2>2 DEF WalkOrdered, At
<1>3. parent_or_count' = [parent_or_count EXCEPT ![f.ai] = f.poc]
  BY DEF FindRootSplit
<1>4. /\ IsTaggedPointer(parent_or_count[f.ai]) /\ IsTaggedPointer(parent_or_count[f.up])
      /\ Root[f.up] = Root[f.ai] /\ Root[f.poc.val] = Root[f.ai]
  BY <1>1 DEF GroupInv, ThreadInGroups, InGroups, WalkInGroup
<1>5. parent_or_count \in [Arena -> Word] /\ OrderInv'
  BY DEF OrderInv, TypeOK, OrderStep
<1>6. ASSUME NEW a \in Arena
      PROVE  \/ IsTaggedRefcount(parent_or_count[a]) /\ IsTaggedRefcount(parent_or_count'[a])
             \/ /\ IsTaggedPointer(parent_or_count[a]) /\ IsTaggedPointer(parent_or_count'[a])
                /\ Root[parent_or_count'[a].val] = Root[a]
  <2>1. CASE a = f.ai
    <3>1. parent_or_count'[a] = f.poc
      BY <1>3, <1>5, <2>1
    <3> QED BY <1>2, <1>4, <2>1, <3>1
  <2>2. CASE a # f.ai
    <3>1. parent_or_count'[a] = parent_or_count[a] /\ parent_or_count[a] \in Word
      BY <1>3, <1>5, <2>2
    <3> QED BY <3>1, RootsNow, WordCases
  <2> QED BY <2>1, <2>2
<1>7. Root' = Root
  BY <1>5, <1>6, RootsKept
<1> QED BY <1>2, <1>3, <1>4, <1>7

LEMMA FindRootSplitGroups ==
    ASSUME OrderInv, OrderStep, GroupInv, NEW t \in Thread, OthersSame(t), FindRootSplit(t)
    PROVE  GroupStep
<1> DEFINE f == find[t]
           h == [f EXCEPT !.ai = f.up, !.up = NULL]
<1>1. pc[t] = "find_split" /\ pc[t] \in Finding /\ "find_next" \in Finding
  BY DEF FindRootSplit, At, Finding
<1>2. /\ Root' = Root
      /\ f.ai \in Arena /\ f \in FindFrame /\ f.up \in Arena /\ f.up < f.ai
      /\ parent_or_count' = [parent_or_count EXCEPT ![f.ai] = f.poc]
      /\ IsTaggedPointer(parent_or_count[f.ai]) /\ IsTaggedPointer(parent_or_count[f.up])
      /\ Root[f.up] = Root[f.ai] /\ Root[f.poc.val] = Root[f.ai]
  BY SplitKeepsRoots
<1>3. UNCHANGED <<call, fuse>> /\ parent_or_count \in [Arena -> Word]
  BY DEF FindRootSplit, OrderInv, TypeOK
<1>4. pc'[t] = "find_next" /\ find'[t] = h
  BY DEF FindRootSplit, OrderInv, TypeOK, Goto
<1>5. h.ret = f.ret /\ h.ai = f.up /\ h.poc = f.poc
  BY <1>2 DEF FindFrame
<1>6. IsTaggedPointer(parent_or_count'[f.up])
  <2>1. f.up # f.ai
    BY <1>2, ArenaNat
  <2> QED BY <1>2, <1>3, <2>1
<1> HIDE DEF h
<1>7. WalkInGroup(Root, parent_or_count', "find_next", h)
  BY <1>2, <1>5, <1>6 DEF WalkInGroup
<1> QED BY <1>1, <1>2, <1>3, <1>4, <1>5, <1>7, FinderWalks

----------------------------------------------------------------------------
(***************************************************************************)
(* upb_Arena_Fuse.                                                         *)
(***************************************************************************)
\* What DoFuse and what follows it know of groups.
LEMMA FuserFacts ==
    ASSUME OrderInv, GroupInv, NEW t \in Thread, pc[t] \in FusingAt,
           NEW c, NEW g, c = call[t], g = fuse[t]
    PROVE  /\ pc[t] # "idle" /\ g \in FuseFrame /\ c.op = "fuse"
           /\ c.a \in Arena \ HasInitialBlock /\ c.b \in Arena \ HasInitialBlock
           /\ g.ai1 \in Arena /\ g.ai2 \in Arena /\ g.r1.root \in Arena
           /\ Root[g.ai1] = Root[c.a] /\ Root[g.ai2] = Root[c.b]
           /\ pc[t] \in Linking \cup {"add_refs", "reparent"} =>
                  g.r2.root \in Arena /\ g.r1.root < g.r2.root
           /\ pc[t] \in {"add_refs", "reparent"} =>
                 \/ Root[g.r1.root] = Root[c.a] /\ Root[g.r2.root] = Root[c.b]
                 \/ Root[g.r1.root] = Root[c.b] /\ Root[g.r2.root] = Root[c.a]
           /\ pc[t] \in Linking => Root[g.r2.root] = Root[c.a]
           /\ pc[t] \in Linking \cup {"fixup_load", "fixup_cas"} =>
                 Root[c.b] = Root[c.a] /\ Root[g.r1.root] = Root[c.a]
<1>1. FuseInGroups(Root, pc[t], c, find[t], g)
  BY DEF GroupInv, ThreadInGroups, InGroups
<1>2. g \in FuseFrame /\ pc[t] # "idle"
  BY DEF OrderInv, TypeOK, FusingAt, Linking
<1>3. /\ g.ai1 \in Arena /\ g.ai2 \in Arena /\ g.r1.root \in Arena
      /\ pc[t] \in Linking \cup {"add_refs", "reparent"} =>
            g.r2.root \in Arena /\ g.r1.root < g.r2.root
  BY DEF OrderInv, FuseOrdered, FusingAt
<1> QED BY <1>1, <1>2, <1>3 DEF FuseInGroups

LEMMA RetryGroups ==
    ASSUME OrderInv, OrderStep, GroupInv, NEW t \in Thread, OthersSame(t), Root' = Root,
           pc[t] \in FusingAt, Retry(t)
    PROVE  GroupStep
<1> PICK c, g : c = call[t] /\ g = fuse[t]
  OBVIOUS
<1>1. /\ pc[t] # "idle" /\ c.op = "fuse"
      /\ c.a \in Arena \ HasInitialBlock /\ c.b \in Arena \ HasInitialBlock
      /\ g.ai1 \in Arena /\ g.ai2 \in Arena
      /\ Root[g.ai1] = Root[c.a] /\ Root[g.ai2] = Root[c.b]
  BY FuserFacts
<1>2. fuse'[t] = FuseOf(g.ai1, g.ai2) /\ call'[t] = c /\ CallFindRoot(t, g.ai1, "r1")
  BY DEF Retry, OrderInv, TypeOK
<1> PICK h : h = FuseOf(g.ai1, g.ai2)
  OBVIOUS
<1>3. h.ai1 = g.ai1 /\ h.ai2 = g.ai2
  BY DEF FuseOf
<1>4. WasFused(Root, c)
  BY <1>1, InCall
<1>5. InGroups(Root, parent_or_count', "find_load", c, FindFrom(g.ai1, "r1"), h)
  BY <1>1, <1>3, <1>4, AtFindLoad
<1> QED BY <1>2, <1>5, FindGroups

\* A step to another place of Fuse, with the same frame.
LEMMA FuserMoves ==
    ASSUME OrderInv, OrderStep, GroupInv, NEW t \in Thread, OthersSame(t), Root' = Root,
           pc[t] \in FusingAt, NEW l \in FusingAt, pc'[t] = l, UNCHANGED <<call, fuse>>,
           FuseInGroups(Root, l, call[t], find'[t], fuse[t])
    PROVE  GroupStep
<1>1. InGroups(Root, parent_or_count', l, call[t], find'[t], fuse[t])
  BY AtFusing
<1> QED BY <1>1, Arrives

LEMMA FuseFinishes ==
    ASSUME OrderInv, OrderStep, GroupInv, NEW t \in Thread, OthersSame(t), Root' = Root,
           pc[t] \in {"fixup_load", "fixup_cas"}, Finish(t, "true")
    PROVE  GroupStep
<1>1. pc[t] \in FusingAt
  BY DEF FusingAt
<1>2. /\ pc[t] # "idle" /\ call[t].op = "fuse" /\ call[t].a \in Arena /\ call[t].b \in Arena
      /\ Root[call[t].b] = Root[call[t].a]
  BY <1>1, FuserFacts
<1> QED BY <1>2, FinishGroups

LEMMA DoFuseAddRefsGroups ==
    ASSUME OrderInv, OrderStep, GroupInv, NEW t \in Thread, OthersSame(t), DoFuseAddRefs(t)
    PROVE  GroupStep
<1> PICK c, g : c = call[t] /\ g = fuse[t]
  OBVIOUS
<1>1. pc[t] = "add_refs" /\ pc[t] \in FusingAt
  BY DEF DoFuseAddRefs, At, FusingAt
<1>2. /\ c.op = "fuse" /\ c.a \in Arena \ HasInitialBlock /\ c.b \in Arena \ HasInitialBlock
      /\ g \in FuseFrame /\ g.r1.root \in Arena
      /\ Root[g.ai1] = Root[c.a] /\ Root[g.ai2] = Root[c.b]
      /\ \/ Root[g.r1.root] = Root[c.a] /\ Root[g.r2.root] = Root[c.b]
         \/ Root[g.r1.root] = Root[c.b] /\ Root[g.r2.root] = Root[c.a]
  BY <1>1, FuserFacts
<1>3. CASE /\ parent_or_count[g.r1.root] = TaggedFromRefcount(g.r1.count)
           /\ parent_or_count' = [parent_or_count EXCEPT
                  ![g.r1.root] = TaggedFromRefcount(g.r1.count + g.r2.count)]
           /\ Goto(t, "reparent")
           /\ UNCHANGED <<call, find, fuse>>
  <2>1. g.r1.count + g.r2.count \in Int
    BY <1>2 DEF FuseFrame, RootResult
  <2>2. IsTaggedRefcount(parent_or_count[g.r1.root])
    BY <1>3, TagOfWord
  <2>3. Root' = Root
    BY <1>2, <1>3, <2>1, <2>2, CountsKeepRoots DEF OrderStep
  <2>4. pc'[t] = "reparent" /\ "reparent" \in FusingAt
    BY <1>3 DEF OrderInv, TypeOK, Goto, FusingAt
  <2>5. FuseInGroups(Root, "reparent", c, find'[t], g)
    BY <1>2 DEF FuseInGroups, FindingFor, FusingAt, Finding, Linking
  <2> QED BY <1>1, <1>3, <2>3, <2>4, <2>5, FuserMoves
<1>4. CASE UNCHANGED parent_or_count /\ Retry(t)
  BY <1>1, <1>4, RootsSame, RetryGroups
<1> QED BY <1>3, <1>4 DEF DoFuseAddRefs

\* The group of r2 joins the group of r1, and with it the argument of the one
\* the argument of the other.
LEMMA DoFuseReparentGroups ==
    ASSUME OrderInv, OrderStep, GroupInv, NEW t \in Thread, OthersSame(t), DoFuseReparent(t)
    PROVE  GroupStep
<1> PICK c, g : c = call[t] /\ g = fuse[t]
  OBVIOUS
<1>1. pc[t] = "reparent" /\ pc[t] \in FusingAt
  BY DEF DoFuseReparent, At, FusingAt
<1>2. /\ c.op = "fuse" /\ c.a \in Arena \ HasInitialBlock /\ c.b \in Arena \ HasInitialBlock
      /\ g.ai1 \in Arena /\ g.ai2 \in Arena
      /\ g.r1.root \in Arena /\ g.r2.root \in Arena /\ g.r1.root < g.r2.root
      /\ Root[g.ai1] = Root[c.a] /\ Root[g.ai2] = Root[c.b]
      /\ \/ Root[g.r1.root] = Root[c.a] /\ Root[g.r2.root] = Root[c.b]
         \/ Root[g.r1.root] = Root[c.b] /\ Root[g.r2.root] = Root[c.a]
  BY <1>1, FuserFacts
<1>3. CASE /\ parent_or_count[g.r2.root] = TaggedFromRefcount(g.r2.count)
           /\ parent_or_count' = [parent_or_count EXCEPT
                  ![g.r2.root] = TaggedFromPointer(g.r1.root)]
           /\ Goto(t, "link_tail")
           /\ UNCHANGED <<call, find, fuse>>
  <2> PICK r1, r2 : r1 = g.r1.root /\ r2 = g.r2.root
    OBVIOUS
  <2>1. IsTaggedRefcount(parent_or_count[r2]) /\ Root[r2] = r2
    <3>1. IsTaggedRefcount(parent_or_count[r2])
      BY <1>3, TagOfWord
    <3> QED BY <1>2, <3>1, RootsNow
  <2>2. \A a \in Arena : Root'[a] = IF Root[a] = r2 THEN Root[r1] ELSE Root[a]
    <3>1. OrderInv' /\ r1 \in Arena /\ r2 \in Arena /\ r1 < r2
      BY <1>2 DEF OrderStep
    <3>2. parent_or_count' = [parent_or_count EXCEPT ![r2] = TaggedFromPointer(r1)]
      BY <1>3
    <3>3. IsTaggedRefcount(parent_or_count[r2]) /\ OrderInv
      BY <2>1
    <3> QED BY ONLY <3>1, <3>2, <3>3, ReparentJoins
  <2>3. RootsJoin
    BY <2>2 DEF RootsJoin
  <2>4. InitialBlocksAlone'
    <3> SUFFICES ASSUME NEW a \in HasInitialBlock, NEW b \in Arena, Root'[b] = Root'[a]
                 PROVE  b = a
      BY DEF InitialBlocksAlone
    <3>1. a \in Arena /\ \A d \in Arena : Root[d] = Root[a] => d = a
      BY InitialBlockAssumption DEF GroupInv, InitialBlocksAlone
    <3>2. a # c.a /\ a # c.b
      BY <1>2
    <3>3. Root[a] # Root[c.a] /\ Root[a] # Root[c.b]
      BY <1>2, <3>1, <3>2
    <3>4. Root[a] # r2 /\ Root[a] # Root[r1]
      BY <1>2, <2>1, <3>3
    <3>5. Root[b] = Root[a]
      BY <2>2, <3>1, <3>4
    <3> QED BY <3>1, <3>5
  <2>5. pc'[t] = "link_tail" /\ "link_tail" \in FusingAt
    BY <1>3 DEF OrderInv, TypeOK, Goto, FusingAt, Linking
  <2>6. FuseInGroups(Root', "link_tail", c, find'[t], g)
    <3>1. /\ Root'[c.b] = Root'[c.a] /\ Root'[r1] = Root'[c.a] /\ Root'[r2] = Root'[c.a]
          /\ Root'[g.ai1] = Root'[c.a] /\ Root'[g.ai2] = Root'[c.b]
      BY <1>2, <2>1, <2>2
    <3> QED BY <1>2, <3>1 DEF FuseInGroups, FindingFor, FusingAt, Finding, Linking
  <2>7. InGroups(Root', parent_or_count', "link_tail", c, find'[t], g)
    BY <2>5, <2>6, AtFusing
  <2>8. ThreadInGroups(t)'
    BY <1>3, <2>5, <2>7 DEF ThreadInGroups
  <2> QED BY <2>3, <2>4, <2>8, GroupsFromParts
<1>4. CASE UNCHANGED parent_or_count /\ Retry(t)
  BY <1>1, <1>4, RootsSame, RetryGroups
<1> QED BY <1>3, <1>4 DEF DoFuseReparent

LEMMA LinkingGroups ==
    ASSUME OrderInv, OrderStep, GroupInv, NEW t \in Thread, OthersSame(t),
           pc[t] \in Linking, pc'[t] \in Linking \cup {"fixup_load"},
           UNCHANGED <<parent_or_count, call, fuse>>
    PROVE  GroupStep
<1> PICK l, c, g : l = pc'[t] /\ c = call[t] /\ g = fuse[t]
  OBVIOUS
<1>1. pc[t] \in FusingAt /\ l \in FusingAt
  BY DEF FusingAt
<1>2. /\ c.op = "fuse" /\ c.a \in Arena \ HasInitialBlock /\ c.b \in Arena \ HasInitialBlock
      /\ Root[g.ai1] = Root[c.a] /\ Root[g.ai2] = Root[c.b]
      /\ Root[g.r2.root] = Root[c.a] /\ Root[c.b] = Root[c.a] /\ Root[g.r1.root] = Root[c.a]
  BY <1>1, FuserFacts
<1>3. l \notin Finding /\ l \notin {"add_refs", "reparent"}
  BY DEF Linking, Finding
<1>4. FuseInGroups(Root, l, c, find'[t], g)
  BY <1>2, <1>3 DEF FuseInGroups, FindingFor
<1> QED BY <1>1, <1>4, RootsSame, FuserMoves

LEMMA LinkStepsGroups ==
    ASSUME OrderInv, OrderStep, GroupInv, NEW t \in Thread, OthersSame(t),
           \/ LinkForwardStart(t) \/ LinkForwardWalk(t) \/ LinkForwardCAS(t)
           \/ UpdateTailChild(t) \/ UpdateTailParent(t) \/ UpdateTailCAS(t) \/ LinkBackward(t)
    PROVE  GroupStep
<1> USE DEF Goto, At, Linking
<1>0. pc \in [Thread -> Label]
  BY DEF OrderInv, TypeOK
<1>1. CASE LinkForwardStart(t)
  <2>1. /\ pc[t] \in Linking /\ pc'[t] \in Linking \cup {"fixup_load"}
        /\ UNCHANGED <<parent_or_count, call, fuse>>
    BY <1>0, <1>1 DEF LinkForwardStart, memory
  <2> QED BY <2>1, LinkingGroups
<1>2. CASE LinkForwardWalk(t)
  <2>1. /\ pc[t] \in Linking /\ pc'[t] \in Linking \cup {"fixup_load"}
        /\ UNCHANGED <<parent_or_count, call, fuse>>
    BY <1>0, <1>2 DEF LinkForwardWalk, memory
  <2> QED BY <2>1, LinkingGroups
<1>3. CASE LinkForwardCAS(t)
  <2>1. /\ pc[t] \in Linking /\ pc'[t] \in Linking \cup {"fixup_load"}
        /\ UNCHANGED <<parent_or_count, call, fuse>>
    BY <1>0, <1>3 DEF LinkForwardCAS, memory
  <2> QED BY <2>1, LinkingGroups
<1>4. CASE UpdateTailChild(t)
  <2>1. /\ pc[t] \in Linking /\ pc'[t] \in Linking \cup {"fixup_load"}
        /\ UNCHANGED <<parent_or_count, call, fuse>>
    BY <1>0, <1>4 DEF UpdateTailChild, memory
  <2> QED BY <2>1, LinkingGroups
<1>5. CASE UpdateTailParent(t)
  <2>1. /\ pc[t] \in Linking /\ pc'[t] \in Linking \cup {"fixup_load"}
        /\ UNCHANGED <<parent_or_count, call, fuse>>
    BY <1>0, <1>5 DEF UpdateTailParent, memory
  <2> QED BY <2>1, LinkingGroups
<1>6. CASE UpdateTailCAS(t)
  <2>1. /\ pc[t] \in Linking /\ pc'[t] \in Linking \cup {"fixup_load"}
        /\ UNCHANGED <<parent_or_count, call, fuse>>
    BY <1>0, <1>6 DEF UpdateTailCAS, memory
  <2> QED BY <2>1, LinkingGroups
<1>7. CASE LinkBackward(t)
  <2>1. /\ pc[t] \in Linking /\ pc'[t] \in Linking \cup {"fixup_load"}
        /\ UNCHANGED <<parent_or_count, call, fuse>>
    BY <1>0, <1>7 DEF LinkBackward, memory
  <2> QED BY <2>1, LinkingGroups
<1> QED BY <1>1, <1>2, <1>3, <1>4, <1>5, <1>6, <1>7

LEMMA FixupRefsLoadGroups ==
    ASSUME OrderInv, OrderStep, GroupInv, NEW t \in Thread, OthersSame(t), FixupRefsLoad(t)
    PROVE  GroupStep
<1> PICK c, g : c = call[t] /\ g = fuse[t]
  OBVIOUS
<1>1. pc[t] = "fixup_load" /\ pc[t] \in FusingAt /\ "fixup_cas" \in FusingAt
  BY DEF FixupRefsLoad, At, FusingAt
<1>2. Root' = Root
  BY RootsSame DEF FixupRefsLoad, memory
<1>3. CASE Finish(t, "true")
  BY <1>1, <1>2, <1>3, FuseFinishes
<1>4. CASE Retry(t)
  BY <1>1, <1>2, <1>4, RetryGroups
<1>5. CASE Goto(t, "fixup_cas") /\ UNCHANGED <<call, fuse>>
  <2>1. pc'[t] = "fixup_cas"
    BY <1>5 DEF OrderInv, TypeOK, Goto
  <2>2. /\ c.op = "fuse" /\ c.a \in Arena \ HasInitialBlock /\ c.b \in Arena \ HasInitialBlock
        /\ Root[g.ai1] = Root[c.a] /\ Root[g.ai2] = Root[c.b]
        /\ Root[c.b] = Root[c.a] /\ Root[g.r1.root] = Root[c.a]
    BY <1>1, FuserFacts
  <2>3. FuseInGroups(Root, "fixup_cas", c, find'[t], g)
    BY <2>2 DEF FuseInGroups, FindingFor, Finding, Linking
  <2> QED BY <1>1, <1>2, <1>5, <2>1, <2>3, FuserMoves
<1> QED BY <1>3, <1>4, <1>5 DEF FixupRefsLoad

LEMMA FixupRefsCASGroups ==
    ASSUME OrderInv, OrderStep, GroupInv, NEW t \in Thread, OthersSame(t), FixupRefsCAS(t)
    PROVE  GroupStep
<1> PICK root, word : root = fuse[t].r1.root /\ word = find[t].poc
  OBVIOUS
<1>1. pc[t] = "fixup_cas" /\ pc[t] \in FusingAt
  BY DEF FixupRefsCAS, At, FusingAt
<1>2. root \in Arena
  BY <1>1, FuserFacts
<1>3. IsTaggedRefcount(word) /\ word \in Word
  BY <1>1 DEF OrderInv, WalkOrdered, TypeOK, FindFrame
<1>4. CASE /\ parent_or_count[root] = word
           /\ parent_or_count' = [parent_or_count EXCEPT
                  ![root] = TaggedFromRefcount(word.val - ref_delta[t])]
           /\ Finish(t, "true")
  <2>1. word.val - ref_delta[t] \in Int
    <3>1. word.val \in Int /\ ref_delta[t] \in Int
      BY <1>3, WordCases DEF OrderInv, TypeOK
    <3> QED BY <3>1
  <2>2. Root' = Root
    BY <1>2, <1>3, <1>4, <2>1, CountsKeepRoots DEF OrderStep
  <2> QED BY <1>1, <1>4, <2>2, FuseFinishes
<1>5. CASE UNCHANGED parent_or_count /\ Retry(t)
  BY <1>1, <1>5, RootsSame, RetryGroups
<1> QED BY <1>4, <1>5 DEF FixupRefsCAS

----------------------------------------------------------------------------
(***************************************************************************)
(* The other calls, and the invariant.                                     *)
(***************************************************************************)
LEMMA CounterFacts ==
    ASSUME OrderInv, GroupInv, NEW t \in Thread, NEW l, NEW c, NEW f,
           l = pc[t], c = call[t], f = find[t],
           l \in {"incref_cas", "free_load", "free_cas", "do_free",
                  "space_backward", "space_forward"}
    PROVE  /\ f.ai \in Arena /\ f \in FindFrame /\ l # "idle" /\ WasFused(Root, c)
           /\ l \in {"incref_cas", "free_load", "free_cas"} =>
                 c.a \in Arena /\ Root[f.ai] = Root[c.a]
           /\ l = "incref_cas" => c.op = "incref"
           /\ l \in {"free_load", "free_cas", "do_free"} => c.op = "free" /\ c.a \in Arena
           /\ l \in {"space_backward", "space_forward"} => c.op = "space"
<1>1. CountInGroup(Root, l, c, f)
  BY DEF GroupInv, ThreadInGroups, InGroups
<1>2. f.ai \in Arena
  BY DEF OrderInv, WalkOrdered
<1>3. f \in FindFrame
  BY DEF OrderInv, TypeOK
<1>4. WasFused(Root, c)
  BY InCall
<1> QED BY <1>1, <1>2, <1>3, <1>4 DEF CountInGroup

LEMMA IncRefCASGroups ==
    ASSUME OrderInv, OrderStep, GroupInv, NEW t \in Thread, OthersSame(t), IncRefCAS(t)
    PROVE  GroupStep
<1> PICK c, f : c = call[t] /\ f = find[t]
  OBVIOUS
<1>1. pc[t] = "incref_cas"
  BY DEF IncRefCAS, At
<1>2. /\ f.ai \in Arena /\ c.a \in Arena /\ Root[f.ai] = Root[c.a]
      /\ c.op = "incref" /\ WasFused(Root, c)
  BY <1>1, CounterFacts
<1>3. IsTaggedRefcount(f.poc) /\ f.poc \in Word
  BY <1>1 DEF OrderInv, WalkOrdered, TypeOK, FindFrame
<1>4. CASE /\ parent_or_count[f.ai] = f.poc
           /\ parent_or_count' = [parent_or_count EXCEPT
                  ![f.ai] = TaggedFromRefcount(f.poc.val + 1)]
           /\ Finish(t, "true")
  <2>1. f.poc.val + 1 \in Int
    BY <1>3, WordCases
  <2>2. Root' = Root
    BY <1>2, <1>3, <1>4, <2>1, CountsKeepRoots DEF OrderStep
  <2> QED BY <1>1, <1>2, <1>4, <2>2, FinishGroups
<1>5. CASE CallFindRoot(t, f.ai, "incref") /\ UNCHANGED <<parent_or_count, call, fuse>>
  <2>1. InGroups(Root, parent_or_count', "find_load", c, FindFrom(f.ai, "incref"), fuse'[t])
    BY <1>2, AtFindLoad
  <2> QED BY <1>5, <2>1, RootsSame, FindGroups
<1> QED BY <1>4, <1>5 DEF IncRefCAS

LEMMA FreeWithGroups ==
    ASSUME OrderInv, OrderStep, GroupInv, NEW t \in Thread, OthersSame(t),
           UNCHANGED parent_or_count, pc[t] \in {"free_load", "free_cas"},
           FreeWith(t, parent_or_count[find[t].ai])
    PROVE  GroupStep
<1> PICK c, f, w : c = call[t] /\ f = find[t] /\ w = parent_or_count[f.ai]
  OBVIOUS
<1>1. /\ f.ai \in Arena /\ f \in FindFrame /\ WasFused(Root, c)
      /\ c.a \in Arena /\ Root[f.ai] = Root[c.a] /\ c.op = "free"
  BY CounterFacts
<1>2. Root' = Root /\ call'[t] = c
  BY RootsSame DEF FreeWith
<1>3. ASSUME NEW l \in {"free_load", "free_cas", "do_free"}, NEW h, pc'[t] = l, find'[t] = h,
             Root[h.ai] = Root[f.ai]
      PROVE  GroupStep
  <2>1. CountInGroup(Root, l, c, h)
    BY <1>1, <1>3 DEF CountInGroup, FindingFor, Finding
  <2>2. InGroups(Root, parent_or_count', l, c, h, fuse'[t])
    BY <1>1, <2>1, AtCount
  <2> QED BY <1>2, <1>3, <2>2, Arrives
<1>4. pc \in [Thread -> Label] /\ find \in [Thread -> FindFrame]
  BY DEF OrderInv, TypeOK
<1>5. CASE IsTaggedPointer(w) /\ find' = [find EXCEPT ![t].ai = w.val] /\ Goto(t, "free_load")
  <2>0. PICK h : h = [f EXCEPT !.ai = w.val]
    OBVIOUS
  <2>1. pc'[t] = "free_load" /\ find'[t] = h
    BY <1>4, <1>5, <2>0 DEF Goto
  <2>2. h.ai = w.val
    BY <1>1, <2>0 DEF FindFrame
  <2>3. Root[h.ai] = Root[f.ai]
    BY <1>1, <1>5, <2>2, RootsNow
  <2> QED BY <1>3, <2>1, <2>3
<1>6. CASE Goto(t, "do_free") /\ UNCHANGED find
  <2>1. pc'[t] = "do_free" /\ find'[t] = f
    BY <1>4, <1>6 DEF Goto
  <2> QED BY <1>3, <2>1
<1>7. CASE find' = [find EXCEPT ![t].poc = w] /\ Goto(t, "free_cas")
  <2>1. pc'[t] = "free_cas" /\ find'[t] = [f EXCEPT !.poc = w]
    BY <1>4, <1>7 DEF Goto
  <2>2. [f EXCEPT !.poc = w].ai = f.ai
    BY <1>1 DEF FindFrame
  <2> QED BY <1>3, <2>1, <2>2
<1> QED BY <1>5, <1>6, <1>7 DEF FreeWith

LEMMA FreeGroups ==
    ASSUME OrderInv, OrderStep, GroupInv, NEW t \in Thread, OthersSame(t),
           FreeLoad(t) \/ FreeCAS(t) \/ DoFree(t)
    PROVE  GroupStep
<1> PICK c, f : c = call[t] /\ f = find[t]
  OBVIOUS
<1>1. CASE FreeLoad(t)
  BY <1>1, FreeWithGroups DEF FreeLoad, At, memory
<1>2. CASE FreeCAS(t)
  <2>1. pc[t] = "free_cas"
    BY <1>2 DEF FreeCAS, At
  <2>2. f.ai \in Arena /\ c.op = "free" /\ IsTaggedRefcount(f.poc) /\ f.poc \in Word
    <3>1. f.ai \in Arena /\ c.op = "free"
      BY <2>1, CounterFacts
    <3>2. IsTaggedRefcount(f.poc) /\ f.poc \in Word
      BY <2>1 DEF OrderInv, WalkOrdered, TypeOK, FindFrame
    <3> QED BY <3>1, <3>2
  <2>3. CASE /\ parent_or_count[f.ai] = f.poc
             /\ parent_or_count' = [parent_or_count EXCEPT
                    ![f.ai] = TaggedFromRefcount(f.poc.val - 1)]
             /\ Finish(t, "true")
    <3>1. f.poc.val - 1 \in Int
      BY <2>2, WordCases
    <3>2. Root' = Root
      BY <2>2, <2>3, <3>1, CountsKeepRoots DEF OrderStep
    <3> QED BY <2>1, <2>2, <2>3, <3>2, FinishGroups
  <2>4. CASE FreeWith(t, parent_or_count[f.ai]) /\ UNCHANGED parent_or_count
    BY <2>1, <2>4, FreeWithGroups
  <2> QED BY <1>2, <2>3, <2>4 DEF FreeCAS
<1>3. CASE DoFree(t)
  <2>1. pc[t] = "do_free" /\ Root' = Root
    BY <1>3, RootsSame DEF DoFree, At
  <2>2. c.op = "free" /\ c.a \in Arena /\ WasFused(Root, c)
    BY <2>1, CounterFacts
  <2>3. CASE Finish(t, "true")
    BY <2>1, <2>2, <2>3, FinishGroups
  <2>4. CASE WalkTo(t, next[f.ai])
    <3>1. pc'[t] = "do_free" /\ call'[t] = c
      BY <2>1, <2>4 DEF WalkTo
    <3>2. CountInGroup(Root, "do_free", c, find'[t])
      BY <2>2 DEF CountInGroup, FindingFor, Finding
    <3>3. InGroups(Root, parent_or_count', "do_free", c, find'[t], fuse'[t])
      BY <2>2, <3>2, AtCount
    <3> QED BY <2>1, <3>1, <3>3, Arrives
  <2> QED BY <1>3, <2>3, <2>4 DEF DoFree
<1> QED BY <1>1, <1>2, <1>3

LEMMA SpaceGroups ==
    ASSUME OrderInv, OrderStep, GroupInv, NEW t \in Thread, OthersSame(t),
           SpaceBackward(t) \/ SpaceForward(t)
    PROVE  GroupStep
<1> PICK c : c = call[t]
  OBVIOUS
<1>1. pc[t] \in {"space_backward", "space_forward"} /\ Root' = Root
  BY RootsSame DEF SpaceBackward, SpaceForward, At, memory
<1>2. c.op = "space" /\ WasFused(Root, c) /\ pc[t] # "idle"
  BY <1>1, CounterFacts
<1>3. CASE Finish(t, "true")
  BY <1>1, <1>2, <1>3, FinishGroups
<1>4. ASSUME NEW l \in {"space_backward", "space_forward"}, pc'[t] = l, call'[t] = c
      PROVE  GroupStep
  <2>1. CountInGroup(Root, l, c, find'[t])
    BY <1>2 DEF CountInGroup, FindingFor, Finding
  <2>2. InGroups(Root, parent_or_count', l, c, find'[t], fuse'[t])
    BY <1>2, <2>1, AtCount
  <2> QED BY <1>1, <1>4, <2>2, Arrives
<1>5. CASE TurnAround(t)
  <2>1. pc'[t] = "space_forward" /\ call'[t] = c
    BY <1>5 DEF TurnAround, Goto, OrderInv, TypeOK
  <2> QED BY <1>4, <2>1
<1>6. ASSUME NEW a, WalkTo(t, a) PROVE GroupStep
  <2>1. pc'[t] = pc[t] /\ call'[t] = c
    BY <1>6 DEF WalkTo
  <2> QED BY <1>1, <1>4, <2>1
<1> QED BY <1>3, <1>5, <1>6 DEF SpaceBackward, SpaceForward

LEMMA ReturnGroups ==
    ASSUME OrderInv, OrderStep, GroupInv, NEW t \in Thread, OthersSame(t), Return(t)
    PROVE  GroupStep
<1>1. pc'[t] = "idle" /\ Root' = Root
  BY RootsSame DEF Return, memory, Goto, OrderInv, TypeOK
<1> PICK c, f, g : c = call'[t] /\ f = find'[t] /\ g = fuse'[t]
  OBVIOUS
<1>2. call'[t] = NoCall
  BY DEF Return, OrderInv, TypeOK
<1>3. InGroups(Root, parent_or_count', "idle", c, f, g)
  BY DEF InGroups, WalkInGroup, FuseInGroups, IsFusedInGroups, CountInGroup, ResultInGroups,
         FindingFor, FusingAt, Finding, Linking
<1> QED BY <1>1, <1>3, Arrives

LEMMA StepGroups ==
    ASSUME OrderInv, OrderStep, GroupInv, NEW t \in Thread, Step(t)
    PROVE  GroupStep
<1>1. OthersSame(t)
  BY StepOthers
<1> QED BY <1>1, ReturnGroups, FindRootLoadGroups, FindRootReloadGroups, FindRootNextGroups,
           FindRootSplitGroups, DoFuseAddRefsGroups, DoFuseReparentGroups, LinkStepsGroups,
           FixupRefsLoadGroups, FixupRefsCASGroups, IncRefCASGroups, FreeGroups, SpaceGroups
        DEF Step

LEMMA InitGroups == Init => GroupInv
<1> SUFFICES ASSUME Init PROVE GroupInv
  OBVIOUS
<1>1. OrderInv
  BY InitOrdered
<1>2. \A a \in Arena : IsTaggedRefcount(parent_or_count[a])
  BY TagOfWord DEF Init
<1>3. \A a \in Arena : Root[a] = a
  BY <1>1, <1>2, RootsNow
<1>4. InitialBlocksAlone
  BY <1>3, InitialBlockAssumption DEF InitialBlocksAlone
<1>5. ASSUME NEW t \in Thread PROVE ThreadInGroups(t)
  <2> PICK c, f, g : c = call[t] /\ f = find[t] /\ g = fuse[t]
    OBVIOUS
  <2>1. pc[t] = "idle"
    BY DEF Init
  <2>2. InGroups(Root, parent_or_count, "idle", c, f, g)
    BY DEF InGroups, WalkInGroup, FuseInGroups, IsFusedInGroups, CountInGroup, ResultInGroups,
           FindingFor, FusingAt, Finding, Linking
  <2> QED BY <2>1, <2>2 DEF ThreadInGroups
<1> QED BY <1>4, <1>5 DEF GroupInv

\* Every step keeps what the threads know of groups, and joins groups at most.
LEMMA NextGroups ==
    ASSUME OrderInv, GroupInv, Next
    PROVE  GroupStep
<1>1. PICK t \in Thread : Start(t) \/ Step(t)
  BY DEF Next
<1>2. OrderStep
  BY NextOrdered
<1> QED BY <1>1, <1>2, StartGroups, StepGroups

LEMMA StutterGroups ==
    ASSUME GroupInv, UNCHANGED vars
    PROVE  GroupStep
<1>1. UNCHANGED <<parent_or_count, pc, call, find, fuse>>
  BY DEF vars, memory
<1>2. Root' = Root
  BY <1>1, RootsSame
<1> QED BY <1>1, <1>2 DEF GroupInv, GroupStep, RootsJoin, InitialBlocksAlone, ThreadInGroups

----------------------------------------------------------------------------
(***************************************************************************)
(* The theorems.                                                           *)
(***************************************************************************)

\* The inductive invariant: every thread's frames lie in the groups of the
\* arenas it was handed, however many fuses happened since it read them.
THEOREM GroupsInvariant == Spec => [](OrderInv /\ GroupInv)
<1>1. OrderInv /\ GroupInv /\ [Next]_vars => GroupInv'
  BY NextGroups, StutterGroups DEF GroupStep
<1> QED BY <1>1, InitGroups, OrderInvariant, PTL DEF Spec

\* Lifetimes once joined are never parted: path splitting, reparenting and the
\* counts keep arenas of one group in one group.
NeverParted == [][RootsJoin]_vars
THEOREM GroupsNeverPart == Spec => NeverParted
<1>1. OrderInv /\ GroupInv /\ [Next]_vars => [RootsJoin]_vars
  BY NextGroups DEF GroupStep
<1> QED BY <1>1, GroupsInvariant, PTL DEF Spec, NeverParted

\* upb_Arena_Fuse returns true exactly if the arenas' lifetimes are joined.
THEOREM FuseTellsTheTruth == Spec => []FuseResult
<1>1. OrderInv /\ GroupInv => FuseResult
  <2> SUFFICES ASSUME OrderInv, GroupInv, NEW t \in Thread, pc[t] = "return", NEW c,
                      c = call[t], c.op = "fuse"
               PROVE  c.res = Answer(Root[c.a] = Root[c.b])
    BY DEF FuseResult, At
  <2>1. ResultInGroups(Root, "return", c)
    BY DEF GroupInv, ThreadInGroups, InGroups
  <2>2. /\ c.a \in Arena /\ c.b \in Arena /\ c.res \in {"true", "false"}
        /\ c.res = "true" => Root[c.a] = Root[c.b]
        /\ c.res = "false" => c.a # c.b /\ (c.a \in HasInitialBlock \/ c.b \in HasInitialBlock)
    BY <2>1 DEF ResultInGroups
  <2>3. c.res = "false" => Root[c.a] # Root[c.b]
    BY <2>2 DEF GroupInv, InitialBlocksAlone
  <2> QED BY <2>2, <2>3 DEF Answer
<1> QED BY <1>1, GroupsInvariant, PTL

\* upb_Arena_IsFused answers yes only for fused arenas, and no only for arenas
\* that were not fused when it was called, whatever raced with its three walks.
THEOREM IsFusedTellsTheTruth == Spec => []IsFusedResult
<1>1. GroupInv => IsFusedResult
  <2> SUFFICES ASSUME GroupInv, NEW t \in Thread, pc[t] = "return", NEW c,
                      c = call[t], c.op = "isfused"
               PROVE  /\ c.res = "true" => Root[c.a] = Root[c.b]
                      /\ c.res = "false" => c.was = "false"
    BY DEF IsFusedResult, At
  <2>1. ResultInGroups(Root, "return", c)
    BY DEF GroupInv, ThreadInGroups, InGroups
  <2> QED BY <2>1 DEF ResultInGroups
<1> QED BY <1>1, GroupsInvariant, PTL

----------------------------------------------------------------------------
(***************************************************************************)
(* The lists lie in the groups: what _upb_Arena_DoFree and                 *)
(* upb_Arena_SpaceAllocated reach over links is fused with where they      *)
(* began.                                                                  *)
(***************************************************************************)
LinksInGroup ==
    /\ \A a \in Arena : next[a] # NULL => Root[next[a]] = Root[a]
    /\ \A a \in Arena : Root[previous_or_tail[a].val] = Root[a]
LinkerInGroup(t) ==
    /\ pc[t] \in Linking \ {"link_tail"} => Root[link[t].tail] = Root[fuse[t].r1.root]
    /\ pc[t] \in {"tail_parent", "tail_cas"} => Root[link[t].new_tail] = Root[fuse[t].r1.root]
    /\ pc[t] \in {"space_backward", "space_forward"} =>
          call[t].a \in Arena /\ Root[find[t].ai] = Root[call[t].a]
ListGroupInv == LinksInGroup /\ \A t \in Thread : LinkerInGroup(t)

\* Where a thread may be that has nothing to say about links.
LEMMA LinkersStay ==
    ASSUME OrderInv, ListGroupInv, RootsJoin, NEW u \in Thread,
           pc'[u] = pc[u], call'[u] = call[u], find'[u] = find[u], fuse'[u] = fuse[u],
           link'[u] = link[u]
    PROVE  LinkerInGroup(u)'
<1>1. LinkerInGroup(u) /\ WalkOrdered(u) /\ FuseOrdered(u)
  BY DEF OrderInv, ListGroupInv
<1>2. pc[u] \in Linking \ {"link_tail"} => link[u].tail \in Arena /\ fuse[u].r1.root \in Arena
  BY <1>1 DEF FuseOrdered
<1>3. pc[u] \in {"tail_parent", "tail_cas"} =>
          link[u].new_tail \in Arena /\ fuse[u].r1.root \in Arena
  BY <1>1 DEF FuseOrdered, Linking
<1>4. pc[u] \in {"space_backward", "space_forward"} => find[u].ai \in Arena
  BY <1>1 DEF WalkOrdered
<1> QED BY <1>1, <1>2, <1>3, <1>4 DEF LinkerInGroup, RootsJoin

LEMMA LinksStayInGroup ==
    ASSUME OrderInv, ListGroupInv, RootsJoin, UNCHANGED lists
    PROVE  LinksInGroup'
<1>1. next \in [Arena -> MaybeArena] /\ previous_or_tail \in [Arena -> ListWord]
  BY DEF OrderInv, TypeOK
<1>2. \A a \in Arena : (next[a] # NULL => next[a] \in Arena) /\ previous_or_tail[a].val \in Arena
  BY <1>1, ArenaMaybe, ListWordTyped
<1> QED BY <1>2 DEF LinksInGroup, ListGroupInv, RootsJoin, lists

LEMMA ListGroupsFromParts ==
    ASSUME OrderInv, ListGroupInv, RootsJoin, NEW t \in Thread, OthersSame(t), LinksInGroup',
           LinkerInGroup(t)'
    PROVE  ListGroupInv'
<1>1. ASSUME NEW u \in Thread PROVE LinkerInGroup(u)'
  <2>1. CASE u = t
    BY <2>1
  <2>2. CASE u # t
    BY <2>2, LinkersStay DEF OthersSame
  <2> QED BY <2>1, <2>2
<1> QED BY <1>1 DEF ListGroupInv

\* Steps that end outside the linking of lists and the walks along them.
LEMMA LinklessGroups ==
    ASSUME OrderInv, ListGroupInv, RootsJoin, NEW t \in Thread, OthersSame(t), UNCHANGED lists,
           pc'[t] \notin (Linking \ {"link_tail"}) \cup {"space_backward", "space_forward"}
    PROVE  ListGroupInv'
<1>1. LinkerInGroup(t)'
  BY DEF LinkerInGroup, Linking
<1> QED BY <1>1, LinksStayInGroup, ListGroupsFromParts

\* The steps between reparenting and LinkBackward.
LEMMA LinkStepsInGroup ==
    ASSUME OrderInv, OrderStep, GroupInv, ListGroupInv, NEW t \in Thread, OthersSame(t),
           \/ LinkForwardStart(t) \/ LinkForwardWalk(t) \/ LinkForwardCAS(t)
           \/ UpdateTailChild(t) \/ UpdateTailParent(t) \/ UpdateTailCAS(t) \/ LinkBackward(t)
    PROVE  ListGroupInv'
<1> PICK c, g, k : c = call[t] /\ g = fuse[t] /\ k = link[t]
  OBVIOUS
<1>0. /\ next \in [Arena -> MaybeArena] /\ previous_or_tail \in [Arena -> ListWord]
      /\ pc \in [Thread -> Label] /\ link \in [Thread -> LinkFrame] /\ k \in LinkFrame
  BY DEF OrderInv, TypeOK
<1>1. /\ UNCHANGED <<parent_or_count, fuse>> /\ pc[t] \in Linking
      /\ pc'[t] \in Linking \cup {"fixup_load"}
  BY <1>0 DEF LinkForwardStart, LinkForwardWalk, LinkForwardCAS, UpdateTailChild,
              UpdateTailParent, UpdateTailCAS, LinkBackward, memory, At, Linking, Goto
<1>2. Root' = Root /\ RootsJoin
  BY <1>1, RootsSame DEF RootsJoin
<1>3. pc[t] \in FusingAt
  BY <1>1 DEF FusingAt
<1>4. g.r1.root \in Arena /\ g.r2.root \in Arena /\ Root[g.r1.root] = Root[g.r2.root]
  BY <1>1, <1>3, FuserFacts
<1>5. \A a \in Arena : /\ next[a] # NULL => next[a] \in Arena /\ Root[next[a]] = Root[a]
                       /\ previous_or_tail[a].val \in Arena
                       /\ Root[previous_or_tail[a].val] = Root[a]
  BY <1>0, ArenaMaybe, ListWordTyped DEF ListGroupInv, LinksInGroup
<1>6. /\ pc[t] # "link_tail" => k.tail \in Arena /\ Root[k.tail] = Root[g.r1.root]
      /\ pc[t] \in {"tail_parent", "tail_cas"} =>
            k.new_tail \in Arena /\ Root[k.new_tail] = Root[g.r1.root]
  BY <1>1 DEF ListGroupInv, LinkerInGroup, OrderInv, FuseOrdered
<1>7. CASE LinkForwardStart(t)
  <2> PICK w, n : w = previous_or_tail[g.r1.root] /\ n = IF IsTaggedTail(w) THEN w.val ELSE g.r1.root
    OBVIOUS
  <2>1. Root[n] = Root[g.r1.root]
    BY <1>4, <1>5
  <2>2. link'[t].tail = n /\ pc'[t] = "link_next"
    BY <1>0, <1>7 DEF LinkForwardStart, LinkFrame, Goto
  <2>3. LinkerInGroup(t)'
    BY <1>1, <1>2, <2>1, <2>2 DEF LinkerInGroup
  <2>4. UNCHANGED lists
    BY <1>7 DEF LinkForwardStart, memory, lists
  <2> QED BY <1>2, <2>3, <2>4, LinksStayInGroup, ListGroupsFromParts
<1>8. CASE LinkForwardWalk(t)
  <2>1. pc[t] # "link_tail" /\ UNCHANGED lists
    BY <1>8 DEF LinkForwardWalk, At, memory, lists
  <2>2. /\ pc'[t] \in {"link_next", "link_cas"}
        /\ link'[t].tail \in {k.tail, next[k.tail]} \ {NULL}
    BY <1>0, <1>6, <1>8, <2>1, ArenaNat DEF LinkForwardWalk, LinkFrame, Goto, At
  <2>3. Root[link'[t].tail] = Root[g.r1.root]
    BY <1>5, <1>6, <2>1, <2>2
  <2>4. LinkerInGroup(t)'
    BY <1>1, <1>2, <2>2, <2>3 DEF LinkerInGroup
  <2> QED BY <1>2, <2>1, <2>4, LinksStayInGroup, ListGroupsFromParts
<1>9. CASE LinkForwardCAS(t)
  <2>1. pc[t] = "link_cas" /\ UNCHANGED previous_or_tail
    BY <1>9 DEF LinkForwardCAS, At
  <2>2. CASE next[k.tail] = NULL
    <3>1. next' = [next EXCEPT ![k.tail] = g.r2.root] /\ pc'[t] = "tail_child" /\ link'[t] = k
      BY <1>0, <1>9, <2>2 DEF LinkForwardCAS, Goto
    <3>2. LinkerInGroup(t)'
      BY <1>1, <1>2, <1>6, <2>1, <3>1 DEF LinkerInGroup
    <3>3. LinksInGroup'
      BY <1>0, <1>2, <1>4, <1>5, <1>6, <2>1, <3>1 DEF LinksInGroup
    <3> QED BY <1>2, <3>2, <3>3, ListGroupsFromParts
  <2>3. CASE next[k.tail] # NULL
    <3>1. UNCHANGED lists /\ pc'[t] = "link_next" /\ link'[t].tail = next[k.tail]
      BY <1>0, <1>9, <2>3 DEF LinkForwardCAS, Goto, lists, LinkFrame
    <3>2. Root[next[k.tail]] = Root[g.r1.root]
      BY <1>5, <1>6, <2>1, <2>3
    <3>3. LinkerInGroup(t)'
      BY <1>1, <1>2, <3>1, <3>2 DEF LinkerInGroup
    <3> QED BY <1>2, <3>1, <3>3, LinksStayInGroup, ListGroupsFromParts
  <2> QED BY <2>2, <2>3
<1>10. CASE UpdateTailChild(t)
  <2>1. /\ pc[t] = "tail_child" /\ UNCHANGED lists /\ pc'[t] = "tail_parent"
        /\ link'[t].tail = k.tail /\ link'[t].new_tail = previous_or_tail[g.r2.root].val
    BY <1>0, <1>10 DEF UpdateTailChild, At, memory, lists, Goto, LinkFrame
  <2>2. LinkerInGroup(t)'
    BY <1>1, <1>2, <1>4, <1>5, <1>6, <2>1 DEF LinkerInGroup
  <2> QED BY <1>2, <2>1, <2>2, LinksStayInGroup, ListGroupsFromParts
<1>11. CASE UpdateTailParent(t)
  <2>1. /\ pc[t] = "tail_parent" /\ UNCHANGED lists /\ pc'[t] \in {"tail_cas", "link_back"}
        /\ link'[t].tail = k.tail /\ link'[t].new_tail = k.new_tail
    BY <1>0, <1>11 DEF UpdateTailParent, At, memory, lists, Goto, LinkFrame
  <2>2. LinkerInGroup(t)'
    BY <1>1, <1>2, <1>6, <2>1 DEF LinkerInGroup
  <2> QED BY <1>2, <2>1, <2>2, LinksStayInGroup, ListGroupsFromParts
<1>12. CASE UpdateTailCAS(t)
  <2>1. /\ pc[t] = "tail_cas" /\ UNCHANGED next /\ pc'[t] = "link_back" /\ link'[t] = k
        /\ \/ UNCHANGED previous_or_tail
           \/ previous_or_tail' = [previous_or_tail EXCEPT
                                      ![g.r1.root] = TaggedFromTail(k.new_tail)]
    BY <1>0, <1>12 DEF UpdateTailCAS, At, Goto
  <2>2. LinkerInGroup(t)'
    BY <1>1, <1>2, <1>6, <2>1 DEF LinkerInGroup
  <2>3. TaggedFromTail(k.new_tail).val = k.new_tail
    BY DEF TaggedFromTail
  <2>4. LinksInGroup'
    BY <1>0, <1>2, <1>4, <1>5, <1>6, <2>1, <2>3 DEF LinksInGroup
  <2> QED BY <1>2, <2>2, <2>4, ListGroupsFromParts
<1>13. CASE LinkBackward(t)
  <2>1. /\ pc[t] = "link_back" /\ UNCHANGED next /\ pc'[t] = "fixup_load"
        /\ previous_or_tail' = [previous_or_tail EXCEPT ![g.r2.root] = TaggedFromPrevious(k.tail)]
    BY <1>0, <1>13 DEF LinkBackward, At, Goto
  <2>2. LinkerInGroup(t)'
    BY <2>1 DEF LinkerInGroup, Linking
  <2>3. TaggedFromPrevious(k.tail).val = k.tail
    BY DEF TaggedFromPrevious
  <2>4. LinksInGroup'
    BY <1>0, <1>2, <1>4, <1>5, <1>6, <2>1, <2>3 DEF LinksInGroup
  <2> QED BY <1>2, <2>2, <2>4, ListGroupsFromParts
<1> QED BY <1>7, <1>8, <1>9, <1>10, <1>11, <1>12, <1>13

\* The two walks of SpaceAllocated.
LEMMA SpaceInGroup ==
    ASSUME OrderInv, OrderStep, ListGroupInv, NEW t \in Thread, OthersSame(t),
           \/ \E a \in Arena : StartSpaceAllocated(t, a)
           \/ SpaceBackward(t) \/ SpaceForward(t)
    PROVE  ListGroupInv'
<1> PICK c, f : c = call[t] /\ f = find[t]
  OBVIOUS
<1>0. /\ next \in [Arena -> MaybeArena] /\ previous_or_tail \in [Arena -> ListWord]
      /\ pc \in [Thread -> Label] /\ find \in [Thread -> FindFrame] /\ f \in FindFrame
      /\ call \in [Thread -> CallFrame]
  BY DEF OrderInv, TypeOK
<1>1. UNCHANGED <<parent_or_count, lists>>
  BY DEF StartSpaceAllocated, SpaceBackward, SpaceForward, memory, lists
<1>2. Root' = Root /\ RootsJoin
  BY <1>1, RootsSame DEF RootsJoin
<1>3. ASSUME NEW a \in Arena, call'[t].a = a, Root[find'[t].ai] = Root[a],
             pc'[t] \in {"space_backward", "space_forward"}
      PROVE  ListGroupInv'
  <2>1. LinkerInGroup(t)'
    BY <1>2, <1>3 DEF LinkerInGroup, Linking
  <2> QED BY <1>1, <1>2, <2>1, LinksStayInGroup, ListGroupsFromParts
<1>4. ASSUME NEW a \in Arena, StartSpaceAllocated(t, a)
      PROVE  ListGroupInv'
  <2>1. call'[t] = CallOf("space", a, NULL, "none", "false") /\ find'[t] = FindFrom(a, "none")
    BY <1>0, <1>4 DEF StartSpaceAllocated
  <2>2. call'[t].a = a /\ find'[t].ai = a /\ pc'[t] = "space_backward"
    BY <1>0, <1>4, <2>1 DEF StartSpaceAllocated, Goto, CallOf, FindFrom
  <2> QED BY <1>3, <2>2
<1>5. CASE SpaceBackward(t) \/ SpaceForward(t)
  <2>1. pc[t] \in {"space_backward", "space_forward"}
    BY <1>5 DEF SpaceBackward, SpaceForward, At
  <2>2. c.a \in Arena /\ Root[f.ai] = Root[c.a] /\ f.ai \in Arena
    BY <2>1 DEF ListGroupInv, LinkerInGroup, OrderInv, WalkOrdered
  <2>3. CASE Finish(t, "true")
    <3>1. pc'[t] = "return"
      BY <1>0, <2>3 DEF Finish, Goto
    <3> QED BY <1>1, <1>2, <3>1, LinklessGroups DEF Linking
  <2>4. CASE TurnAround(t)
    <3>1. pc'[t] = "space_forward" /\ find'[t].ai = c.a /\ call'[t] = c
      BY <1>0, <2>4 DEF TurnAround, Goto, FindFrame
    <3> QED BY <1>3, <2>2, <3>1
  <2>5. ASSUME NEW a, WalkTo(t, a), Root[a] = Root[f.ai] PROVE ListGroupInv'
    <3>1. pc'[t] = pc[t] /\ find'[t].ai = a /\ call'[t] = c
      BY <1>0, <2>5 DEF WalkTo, FindFrame
    <3> QED BY <1>3, <2>1, <2>2, <2>5, <3>1
  <2>6. /\ next[f.ai] # NULL => Root[next[f.ai]] = Root[f.ai]
        /\ Root[previous_or_tail[f.ai].val] = Root[f.ai]
    BY <2>2 DEF ListGroupInv, LinksInGroup
  <2> QED BY <1>5, <2>3, <2>4, <2>5, <2>6 DEF SpaceBackward, SpaceForward
<1> QED BY <1>4, <1>5

LEMMA StartLinkless ==
    ASSUME OrderInv, NEW t \in Thread, Start(t)
    PROVE  \/ \E a \in Arena : StartSpaceAllocated(t, a)
           \/ UNCHANGED lists /\ pc'[t] \in {"return", "find_load", "free_load"}
<1>0. pc \in [Thread -> Label]
  BY DEF OrderInv, TypeOK
<1> DEFINE P == UNCHANGED lists /\ pc'[t] \in {"return", "find_load", "free_load"}
<1>1. ASSUME NEW a, NEW b, StartFuse(t, a, b) \/ StartIsFused(t, a, b) PROVE P
  BY <1>0, <1>1 DEF StartFuse, StartIsFused, memory, lists, Goto, CallFindRoot
<1>2. ASSUME NEW a, StartIncRef(t, a) \/ StartFree(t, a) PROVE P
  BY <1>0, <1>2 DEF StartIncRef, StartFree, memory, lists, Goto, CallFindRoot
<1> QED BY <1>1, <1>2 DEF Start

LEMMA ReturnsLinkless ==
    ASSUME OrderInv, NEW t \in Thread, NEW root, NEW word, FindRootReturns(t, root, word)
    PROVE  pc'[t] \in {"return", "find_load", "fixup_load", "add_refs", "incref_cas"}
<1>0. pc \in [Thread -> Label]
  BY DEF OrderInv, TypeOK
<1> USE DEF Goto, CallFindRoot, Finish
<1> DEFINE r == [root |-> root, count |-> word.val]
<1> HIDE DEF r
<1>1. CASE GotFirstRoot(t, r)
  BY <1>0, <1>1 DEF GotFirstRoot
<1>2. CASE GotSecondRoot(t, r)
  BY <1>0, <1>2 DEF GotSecondRoot
<1>3. CASE GotRa(t, r)
  BY <1>0, <1>3 DEF GotRa
<1>4. CASE GotRb(t, r)
  BY <1>0, <1>4 DEF GotRb
<1>5. CASE GotTmp(t, r)
  BY <1>0, <1>5 DEF GotTmp
<1>6. CASE GotIncRefRoot(t, r)
  BY <1>0, <1>6 DEF GotIncRefRoot
<1> QED BY <1>1, <1>2, <1>3, <1>4, <1>5, <1>6 DEF FindRootReturns, r

LEMMA StepLinkless ==
    ASSUME OrderInv, NEW t \in Thread, Step(t)
    PROVE  \/ LinkForwardStart(t) \/ LinkForwardWalk(t) \/ LinkForwardCAS(t)
           \/ UpdateTailChild(t) \/ UpdateTailParent(t) \/ UpdateTailCAS(t) \/ LinkBackward(t)
           \/ SpaceBackward(t) \/ SpaceForward(t)
           \/ /\ UNCHANGED lists
              /\ pc'[t] \notin (Linking \ {"link_tail"}) \cup {"space_backward", "space_forward"}
<1>0. pc \in [Thread -> Label]
  BY DEF OrderInv, TypeOK
<1> DEFINE P == /\ UNCHANGED lists
                /\ pc'[t] \notin (Linking \ {"link_tail"}) \cup {"space_backward", "space_forward"}
<1> USE DEF Goto, CallFindRoot, Finish, Retry, WalkTo, FreeWith, memory, lists, Linking, At
<1>1. CASE Return(t)
  BY <1>0, <1>1 DEF Return
<1>2. CASE FindRootLoad(t)
  <2>1. UNCHANGED lists
    BY <1>2 DEF FindRootLoad
  <2>2. pc'[t] \in {"return", "find_load", "fixup_load", "add_refs", "incref_cas", "find_reload"}
    BY <1>0, <1>2, ReturnsLinkless DEF FindRootLoad
  <2> QED BY <2>1, <2>2
<1>3. CASE FindRootReload(t) \/ FindRootSplit(t)
  BY <1>0, <1>3 DEF FindRootReload, FindRootSplit
<1>4. CASE FindRootNext(t)
  <2>1. UNCHANGED lists
    BY <1>4 DEF FindRootNext
  <2>2. pc'[t] \in {"return", "find_load", "fixup_load", "add_refs", "incref_cas", "find_split"}
    BY <1>0, <1>4, ReturnsLinkless DEF FindRootNext
  <2> QED BY <2>1, <2>2
<1>5. CASE DoFuseAddRefs(t) \/ DoFuseReparent(t)
  BY <1>0, <1>5 DEF DoFuseAddRefs, DoFuseReparent
<1>6. CASE FixupRefsLoad(t) \/ FixupRefsCAS(t) \/ IncRefCAS(t)
  BY <1>0, <1>6 DEF FixupRefsLoad, FixupRefsCAS, IncRefCAS
<1>7. CASE FreeLoad(t) \/ FreeCAS(t)
  BY <1>0, <1>7 DEF FreeLoad, FreeCAS
<1>8. CASE DoFree(t)
  BY <1>0, <1>8 DEF DoFree
<1> QED BY <1>1, <1>2, <1>3, <1>4, <1>5, <1>6, <1>7, <1>8 DEF Step

LEMMA NextListGroups ==
    ASSUME OrderInv, GroupInv, ListGroupInv, Next
    PROVE  ListGroupInv'
<1>1. PICK t \in Thread : Start(t) \/ Step(t)
  BY DEF Next
<1>2. OrderStep /\ RootsJoin /\ OthersSame(t)
  BY <1>1, NextOrdered, NextGroups, StartOthers, StepOthers DEF GroupStep
<1>3. CASE Start(t)
  <2>1. \/ \E a \in Arena : StartSpaceAllocated(t, a)
        \/ UNCHANGED lists /\ pc'[t] \in {"return", "find_load", "free_load"}
    BY <1>3, StartLinkless
  <2> QED BY <1>2, <2>1, SpaceInGroup, LinklessGroups DEF Linking
<1>4. CASE Step(t)
  BY <1>2, <1>4, StepLinkless, LinkStepsInGroup, SpaceInGroup, LinklessGroups
<1> QED BY <1>1, <1>3, <1>4

\* What a link or a cached tail leads to is fused with where it starts.
THEOREM ListsStayInGroups == Spec => [](OrderInv /\ GroupInv /\ ListGroupInv)
<1>1. Init => ListGroupInv
  <2> SUFFICES ASSUME Init PROVE ListGroupInv
    OBVIOUS
  <2>1. \A a \in Arena : next[a] = NULL /\ previous_or_tail[a].val = a
    BY DEF Init, TaggedFromTail
  <2>2. \A t \in Thread : pc[t] = "idle"
    BY DEF Init
  <2> QED BY <2>1, <2>2 DEF ListGroupInv, LinksInGroup, LinkerInGroup, Linking
<1>2. OrderInv /\ GroupInv /\ ListGroupInv /\ [Next]_vars => ListGroupInv'
  <2> SUFFICES ASSUME OrderInv, GroupInv, ListGroupInv, [Next]_vars PROVE ListGroupInv'
    OBVIOUS
  <2>1. CASE Next
    BY <2>1, NextListGroups
  <2>2. CASE UNCHANGED vars
    <3>1. UNCHANGED <<parent_or_count, next, previous_or_tail, pc, call, find, fuse, link>>
      BY <2>2 DEF vars, memory
    <3>2. Root' = Root
      BY <3>1, RootsSame
    <3> QED BY <3>1, <3>2 DEF ListGroupInv, LinksInGroup, LinkerInGroup
  <2> QED BY <2>1, <2>2
<1> QED BY <1>1, <1>2, GroupsInvariant, PTL DEF Spec
============================================================================
