----------------------------- MODULE PhpObjects -----------------------------
(***************************************************************************)
(* Lifetimes in the PHP extension: PHP objects that wrap upb objects, the  *)
(* Arena objects that own the upb memory, and the weak object cache that   *)
(* gives every upb object at most one wrapper (php/ext/google/protobuf:    *)
(* message.c, array.c, map.c, arena.c and the object cache of protobuf.c). *)
(*                                                                         *)
(* A cell is the address of a upb_Message, or of a upb_Array or upb_Map    *)
(* ("container": the two are wrapped by the same code).  A message has a   *)
(* submessage field and a repeated or map field, a container has an        *)
(* element; scalar values play no part.  PHP runs one operation at a time. *)
(* Fusing is the atomic step that ArenaGroups promises and ArenaFuse       *)
(* implements.                                                             *)
(***************************************************************************)
EXTENDS Naturals, FiniteSets

CONSTANTS
    Obj,       \* memory of the PHP objects (Message, RepeatedField, MapField)
    Cell,      \* memory of the upb objects
    Arena,     \* memory of the Arena objects, each with its upb_Arena
    NULL,
    MaxRefs,   \* bound: PHP variables that hold the same object
    Misuse     \* what programs do beyond calling each constructor once

ASSUME ObjectsAssumption ==
    /\ MaxRefs \in Nat \ {0}
    /\ IsFiniteSet(Obj)
    /\ Misuse \subseteq {"reconstruct"}
    /\ NULL \notin Obj \cup Cell \cup Arena

VARIABLES
    obj,            \* the PHP objects: state, class, arena and upb pointer
    php_refs,       \* how many PHP variables hold each object
    arena_refs,     \* reference count of each Arena object
    fused,          \* the groups of fused upb_Arenas
    cell,           \* the upb objects: owning arena, class and fields
    object_cache    \* PROTOBUF_G(object_cache): upb pointer -> wrapper

vars == <<obj, php_refs, arena_refs, fused, cell, object_cache>>

Kind == {"message", "container"}
NoFields == [s \in Kind |-> NULL]
NoObj == [state |-> "none", kind |-> "message", arena |-> NULL, upb |-> NULL]
NoCell == [arena |-> NULL, kind |-> "message", field |-> NoFields]

Wrapper(k, a, c) == [state |-> "live", kind |-> k, arena |-> a, upb |-> c]
CellIn(a, k) == [arena |-> a, kind |-> k, field |-> NoFields]

Init ==
    /\ obj = [o \in Obj |-> NoObj]
    /\ php_refs = [o \in Obj |-> 0]
    /\ arena_refs = [a \in Arena |-> 0]
    /\ fused = {{a} : a \in Arena}
    /\ cell = [c \in Cell |-> NoCell]
    /\ object_cache = [c \in Cell |-> NULL]

----------------------------------------------------------------------------
(***************************************************************************)
(* Helpers.                                                                *)
(***************************************************************************)
Live(o) == obj[o].state = "live"
LiveMessage(o) == Live(o) /\ obj[o].kind = "message"
FreshObj(o) == obj[o].state = "none"
FreshCell(c) == cell[c].arena = NULL
GroupOf(a) == UNION {G \in fused : a \in G}
FreshArena(a) == arena_refs[a] = 0 /\ GroupOf(a) = {a}
Upb(o) == obj[o].upb

\* ObjCache_Add: zend_hash_index_add_ptr leaves an existing entry alone.
ObjCache_Add(c, o) ==
    object_cache' = [object_cache EXCEPT ![c] = IF @ = NULL THEN o ELSE @]

\* Faulty variant: entries outlive their wrappers.
ObjCache_Keep(c) == UNCHANGED object_cache
\* ObjCache_Delete: a NULL pointer has no entry.
ObjCache_Delete(c) ==
    object_cache' = [d \in Cell |-> IF d = c THEN NULL ELSE object_cache[d]]

\* Faulty variant: the arenas stay separate.
NoFuse(a, b) == UNCHANGED fused
\* upb_Arena_Fuse.
Fuse(a, b) ==
    fused' = (fused \ {GroupOf(a), GroupOf(b)}) \cup {GroupOf(a) \cup GroupOf(b)}

\* Faulty variant: memory goes back only if the arena was never fused.
FreeUnfusedArena(a) ==
    IF GroupOf(a) = {a}
       THEN /\ cell' = [c \in Cell |-> IF cell[c].arena = a THEN NoCell ELSE cell[c]]
            /\ UNCHANGED fused
       ELSE UNCHANGED <<cell, fused>>

\* upb_Arena_Free on the last reference to an Arena object: when it was the
\* last of its group, the memory of the whole group is free for other uses.
FreeUpbArena(a) ==
    LET G == GroupOf(a)
    IN  IF \A b \in G \ {a} : arena_refs[b] = 0
           THEN /\ cell' = [c \in Cell |-> IF cell[c].arena \in G THEN NoCell ELSE cell[c]]
                /\ fused' = (fused \ {G}) \cup {{b} : b \in G}
           ELSE UNCHANGED <<cell, fused>>

\* ZVAL_COPY of an Arena zval.
CopyArena(a) == arena_refs' = [arena_refs EXCEPT ![a] = @ + 1]

\* zval_dtor of an Arena zval, which may be NULL.
ReleaseArena(a) ==
    IF a = NULL THEN UNCHANGED <<arena_refs, cell, fused>>
    ELSE /\ arena_refs' = [arena_refs EXCEPT ![a] = @ - 1]
         /\ IF arena_refs[a] = 1 THEN FreeUpbArena(a) ELSE UNCHANGED <<cell, fused>>

\* Faulty variant: a wrapper is made without looking for an existing one.
AlwaysWrap(w, k, c, a) ==
    /\ FreshObj(w)
    /\ obj' = [obj EXCEPT ![w] = Wrapper(k, a, c)]
    /\ php_refs' = [php_refs EXCEPT ![w] = 1]
    /\ CopyArena(a)
    /\ ObjCache_Add(c, w)

\* Message_GetPhpWrapper, RepeatedField_GetPhpWrapper, MapField_GetPhpWrapper:
\* w is the cached wrapper of c, or a new one sharing the Arena object a.
GetPhpWrapper(w, k, c, a) ==
    \/ /\ object_cache[c] = w
       /\ php_refs[w] < MaxRefs
       /\ php_refs' = [php_refs EXCEPT ![w] = @ + 1]
       /\ UNCHANGED <<obj, arena_refs, object_cache>>
    \/ /\ object_cache[c] = NULL
       /\ FreshObj(w)
       /\ obj' = [obj EXCEPT ![w] = Wrapper(k, a, c)]
       /\ php_refs' = [php_refs EXCEPT ![w] = 1]
       /\ CopyArena(a)
       /\ ObjCache_Add(c, w)

----------------------------------------------------------------------------
(***************************************************************************)
(* Creating objects.                                                       *)
(***************************************************************************)

\* Message_create: no arena, and msg keeps whatever the memory held.
Message_create(o) ==
    /\ FreshObj(o)
    /\ \E garbage \in Cell \cup {NULL} :
           obj' = [obj EXCEPT ![o] = [state |-> "created", kind |-> "message",
                                      arena |-> NULL, upb |-> garbage]]
    /\ php_refs' = [php_refs EXCEPT ![o] = 1]
    /\ UNCHANGED <<arena_refs, fused, cell, object_cache>>

\* Message::__construct, that is Message_Initialize: a new Arena object and a
\* new message in it.  Nothing stops a program from calling it again, and then
\* the old arena and message are forgotten, not released.
Message_construct(o, a, c) ==
    /\ obj[o].kind = "message"
    /\ obj[o].state = "created" \/ (Live(o) /\ "reconstruct" \in Misuse)
    /\ FreshArena(a) /\ FreshCell(c)
    /\ obj' = [obj EXCEPT ![o] = Wrapper("message", a, c)]
    /\ arena_refs' = [arena_refs EXCEPT ![a] = 1]
    /\ cell' = [cell EXCEPT ![c] = CellIn(a, "message")]
    /\ ObjCache_Add(c, o)
    /\ UNCHANGED <<php_refs, fused>>

\* RepeatedField_create, MapField_create: an arena, but no container yet.
Container_create(o, a) ==
    /\ FreshObj(o) /\ FreshArena(a)
    /\ obj' = [obj EXCEPT ![o] = [state |-> "created", kind |-> "container",
                                  arena |-> a, upb |-> NULL]]
    /\ php_refs' = [php_refs EXCEPT ![o] = 1]
    /\ arena_refs' = [arena_refs EXCEPT ![a] = 1]
    /\ UNCHANGED <<fused, cell, object_cache>>

\* RepeatedField::__construct, MapField::__construct: the container is made in
\* the arena the object has.
Container_construct(o, c) ==
    /\ obj[o].kind = "container"
    /\ obj[o].state = "created" \/ (Live(o) /\ "reconstruct" \in Misuse)
    /\ FreshCell(c)
    /\ obj' = [obj EXCEPT ![o] = Wrapper("container", obj[o].arena, c)]
    /\ cell' = [cell EXCEPT ![c] = CellIn(obj[o].arena, "container")]
    /\ ObjCache_Add(c, o)
    /\ UNCHANGED <<php_refs, arena_refs, fused>>

\* Message_clone_obj, RepeatedField_clone_obj, MapField_clone_obj: a shallow
\* copy in the same arena, wrapped.
Clone(o, c, w) ==
    /\ Live(o) /\ FreshCell(c)
    /\ cell' = [cell EXCEPT ![c] = [cell[Upb(o)] EXCEPT !.arena = obj[o].arena]]
    /\ GetPhpWrapper(w, obj[o].kind, c, obj[o].arena)
    /\ UNCHANGED fused

----------------------------------------------------------------------------
(***************************************************************************)
(* Using objects.                                                          *)
(***************************************************************************)

\* Message_get, offsetGet and the iterators' current(), where there is a value:
\* wrap it.  (Without a value they return null or an error.)
Get(o, s, w) ==
    LET c == cell[Upb(o)].field[s]
    IN  /\ Live(o) /\ c # NULL
        /\ GetPhpWrapper(w, s, c, obj[o].arena)
        /\ UNCHANGED <<fused, cell>>

\* Message_get of a repeated or map field that is not there: upb_Message_Mutable
\* creates it in the message's arena, and it is wrapped.
GetMutable(o, c, w) ==
    /\ LiveMessage(o) /\ cell[Upb(o)].field["container"] = NULL /\ FreshCell(c)
    /\ cell' = [cell EXCEPT ![c] = CellIn(obj[o].arena, "container"),
                            ![Upb(o)].field["container"] = c]
    /\ GetPhpWrapper(w, "container", c, obj[o].arena)
    /\ UNCHANGED fused

\* Message_set with an object, append, offsetSet (Message_GetUpbMessage,
\* RepeatedField_GetUpbArray, MapField_GetUpbMap): fuse, then store the pointer.
Set(o, v) ==
    /\ Live(o) /\ Live(v)
    /\ obj[v].kind = "message" \/ obj[o].kind = "message"
    /\ Fuse(obj[o].arena, obj[v].arena)
    /\ cell' = [cell EXCEPT ![Upb(o)].field[obj[v].kind] = Upb(v)]
    /\ UNCHANGED <<obj, php_refs, arena_refs, object_cache>>

\* offsetSet beyond the end: the value is converted, and its arena fused, before
\* the index is checked, and then nothing is stored.
SetRejected(o, v) ==
    /\ Live(o) /\ obj[o].kind = "container" /\ LiveMessage(v)
    /\ Fuse(obj[o].arena, obj[v].arena)
    /\ UNCHANGED <<obj, php_refs, arena_refs, cell, object_cache>>

\* A child nobody wraps, made in the arena of o: Message_set with a PHP array,
\* or a field that mergeFrom, mergeFromString or the JSON parser fills in.
SetNew(o, s, c) ==
    /\ Live(o) /\ FreshCell(c)
    /\ s = "message" \/ obj[o].kind = "message"
    /\ s = "container" \/ cell[Upb(o)].field[s] = NULL
    /\ cell' = [cell EXCEPT ![c] = CellIn(obj[o].arena, s),
                            ![Upb(o)].field[s] = c]
    /\ UNCHANGED <<obj, php_refs, arena_refs, fused, object_cache>>

\* Assigning null, Message_unset_property, offsetUnset: the child is forgotten.
Unset(o) ==
    /\ Live(o)
    /\ cell[Upb(o)].field["message"] # NULL
    /\ cell' = [cell EXCEPT ![Upb(o)].field["message"] = NULL]
    /\ UNCHANGED <<obj, php_refs, arena_refs, fused, object_cache>>

\* Message::clear.
Clear(o) ==
    /\ LiveMessage(o)
    /\ cell' = [cell EXCEPT ![Upb(o)].field = NoFields]
    /\ UNCHANGED <<obj, php_refs, arena_refs, fused, object_cache>>

\* A PHP assignment: one more variable holds the object.
Copy(o) ==
    /\ Live(o) /\ php_refs[o] < MaxRefs
    /\ php_refs' = [php_refs EXCEPT ![o] = @ + 1]
    /\ UNCHANGED <<obj, arena_refs, fused, cell, object_cache>>

\* A PHP variable goes away; the last one takes the object with it
\* (Message_dtor, RepeatedField_destructor, MapField_destructor).  That the engine
\* destroys an object which is still referenced is not modelled.  A message is
\* constructed before it is destroyed: every generated class calls its parent's
\* constructor.
Release(o) ==
    /\ ~FreshObj(o)
    /\ Live(o) \/ obj[o].kind = "container"
    /\ php_refs' = [php_refs EXCEPT ![o] = @ - 1]
    /\ \/ php_refs[o] > 1 /\ UNCHANGED <<obj, arena_refs, fused, cell, object_cache>>
       \/ /\ php_refs[o] = 1
          /\ ObjCache_Delete(Upb(o))
          /\ ReleaseArena(obj[o].arena)
          /\ obj' = [obj EXCEPT ![o] = NoObj]

Next ==
    \E o \in Obj :
        \/ Message_create(o) \/ Unset(o) \/ Clear(o) \/ Copy(o) \/ Release(o)
        \/ \E a \in Arena : Container_create(o, a)
        \/ \E a \in Arena, c \in Cell : Message_construct(o, a, c)
        \/ \E c \in Cell : Container_construct(o, c) \/ \E s \in Kind : SetNew(o, s, c)
        \/ \E w \in Obj : Set(o, w) \/ SetRejected(o, w) \/ \E s \in Kind : Get(o, s, w)
        \/ \E w \in Obj, c \in Cell : GetMutable(o, c, w) \/ Clone(o, c, w)

Spec == Init /\ [][Next]_vars

----------------------------------------------------------------------------
(***************************************************************************)
(* Properties.                                                             *)
(***************************************************************************)

\* The shape of the objects, the cells and the cache.
TypeOK ==
    /\ obj \in [Obj -> [state : {"none", "created", "live"}, kind : Kind,
                        arena : Arena \cup {NULL}, upb : Cell \cup {NULL}]]
    /\ php_refs \in [Obj -> 0..MaxRefs]
    /\ arena_refs \in [Arena -> Nat]
    /\ fused \subseteq SUBSET Arena
    /\ cell \in [Cell -> [arena : Arena \cup {NULL}, kind : Kind,
                          field : [Kind -> Cell \cup {NULL}]]]
    /\ object_cache \in [Cell -> Obj \cup {NULL}]

\* "This is how we ensure that the map only contains live objects": wrappers add
\* themselves when they are constructed and remove themselves when destroyed.
CacheOnlyLive ==
    \A c \in Cell : object_cache[c] # NULL => Live(object_cache[c])

\* What a wrapper found in the cache wraps is the upb object it was looked up
\* for, although memory is reused as soon as a group of arenas is freed.
CacheExact ==
    \A c \in Cell : object_cache[c] # NULL => Upb(object_cache[c]) = c

\* Every wrapper is the cached one, so a upb object has one wrapper however it
\* is reached, and the destructor's PBPHP_ASSERT in ObjCache_Delete holds.
OneWrapper ==
    \A o \in Obj : Live(o) => object_cache[Upb(o)] = o

\* No pointer dangles: what a wrapper wraps and what an object in memory points
\* to is in memory, in a group of arenas that somebody keeps alive.
Kept(c) == cell[c].arena # NULL /\ \E a \in GroupOf(cell[c].arena) : arena_refs[a] > 0
NothingDangles ==
    /\ \A o \in Obj : Live(o) => Kept(Upb(o))
    /\ \A c \in Cell : cell[c].arena # NULL =>
           Kept(c) /\ \A s \in Kind : LET d == cell[c].field[s] IN
                          d # NULL => Kept(d) /\ cell[d].kind = s

\* When PHP holds no object any more all memory has been given back.
NothingLeaks ==
    (\A o \in Obj : php_refs[o] = 0) =>
        \A c \in Cell : cell[c].arena = NULL /\ object_cache[c] = NULL

\* Why nothing dangles: a wrapper keeps an arena of the group its upb object is
\* in, pointers stay inside a group, and reference counts are exact; with the
\* shape of the state.
SameGroup(a, b) == \E G \in fused : a \in G /\ b \in G
Partition ==
    /\ UNION fused = Arena
    /\ \A G, H \in fused : G = H \/ G \cap H = {}
Owned ==
    /\ TypeOK
    /\ Partition
    /\ \A o \in Obj : Live(o) =>
           /\ obj[o].arena # NULL /\ Upb(o) # NULL /\ cell[Upb(o)].arena # NULL
           /\ SameGroup(obj[o].arena, cell[Upb(o)].arena)
           /\ cell[Upb(o)].kind = obj[o].kind
    /\ \A c \in Cell : cell[c].arena # NULL =>
           \A s \in Kind : LET d == cell[c].field[s] IN
               d # NULL => cell[d].arena # NULL /\ SameGroup(cell[c].arena, cell[d].arena)
    /\ \A a \in Arena :
           arena_refs[a] = Cardinality({o \in Obj : ~FreshObj(o) /\ obj[o].arena = a})
============================================================================
