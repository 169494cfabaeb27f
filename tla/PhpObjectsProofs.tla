-------------------------- MODULE PhpObjectsProofs --------------------------
(***************************************************************************)
(* Proofs about PhpObjects: for any number of objects, cells and arenas,   *)
(* programs that call each constructor once use no memory that was freed,  *)
(* see one wrapper of each upb object, and leak nothing.                   *)
(***************************************************************************)
EXTENDS PhpObjects, FiniteSetTheorems, TLAPS

\* The objects that hold a reference to the Arena object a.
Holders(objects, a) == {o \in Obj : objects[o].state # "none" /\ objects[o].arena = a}

\* The parts of Owned: what a live object wraps, what a cell points to, and the
\* reference counts.
Wraps(o) ==
    /\ obj[o].arena # NULL /\ Upb(o) # NULL /\ cell[Upb(o)].arena # NULL
    /\ SameGroup(obj[o].arena, cell[Upb(o)].arena)
    /\ cell[Upb(o)].kind = obj[o].kind
WrapsOK == \A o \in Obj : Live(o) => Wraps(o)

Points(c, s) ==
    LET d == cell[c].field[s]
    IN  d # NULL => /\ cell[d].arena # NULL /\ SameGroup(cell[c].arena, cell[d].arena)
                    /\ cell[d].kind = s
PointsOK == \A c \in Cell : cell[c].arena # NULL => \A s \in Kind : Points(c, s)

CountsOK == \A a \in Arena : arena_refs[a] = Cardinality(Holders(obj, a))

\* What an object has before it is constructed.
CreatedOK ==
    \A o \in Obj : obj[o].state = "created" =>
        IF obj[o].kind = "message" THEN obj[o].arena = NULL
                                   ELSE obj[o].arena # NULL /\ Upb(o) = NULL

\* PHP holds the objects there are.
HeldOK == \A o \in Obj : FreshObj(o) <=> php_refs[o] = 0

CacheOK ==
    /\ \A c \in Cell : object_cache[c] # NULL =>
           Live(object_cache[c]) /\ Upb(object_cache[c]) = c
    /\ OneWrapper

\* Memory is in a group of arenas that somebody keeps alive.
Referenced(c) == \E a \in Arena : SameGroup(cell[c].arena, a) /\ arena_refs[a] > 0
MemoryOK == \A c \in Cell : cell[c].arena # NULL => Referenced(c)

\* The inductive invariant.
ObjectsInv ==
    /\ TypeOK /\ Partition /\ WrapsOK /\ PointsOK /\ CountsOK
    /\ CreatedOK /\ HeldOK /\ CacheOK /\ MemoryOK

----------------------------------------------------------------------------
(***************************************************************************)
(* Groups of arenas.                                                       *)
(***************************************************************************)
IsPartition(F) ==
    /\ F \subseteq SUBSET Arena
    /\ UNION F = Arena
    /\ \A G, H \in F : G = H \/ G \cap H = {}
Group(F, a) == UNION {G \in F : a \in G}
Together(F, a, b) == \E G \in F : a \in G /\ b \in G

\* Every arena is in one group.
LEMMA GroupOfArena ==
    ASSUME NEW F, IsPartition(F), NEW a \in Arena
    PROVE  /\ Group(F, a) \in F /\ a \in Group(F, a)
           /\ \A G \in F : a \in G => G = Group(F, a)
<1>1. PICK G \in F : a \in G
  BY DEF IsPartition
<1>2. \A H \in F : a \in H => H = G
  BY <1>1 DEF IsPartition
<1>3. Group(F, a) = G
  BY <1>1, <1>2 DEF Group
<1> QED BY <1>1, <1>2, <1>3

LEMMA TogetherInGroup ==
    ASSUME NEW F, IsPartition(F), NEW a \in Arena, NEW b \in Arena
    PROVE  Together(F, a, b) <=> b \in Group(F, a)
BY GroupOfArena DEF Together

\* Being in one group is an equivalence.
LEMMA TogetherEquivalence ==
    ASSUME NEW F, IsPartition(F), NEW a \in Arena, NEW b \in Arena, NEW c \in Arena
    PROVE  /\ Together(F, a, a)
           /\ Together(F, a, b) => Together(F, b, a)
           /\ Together(F, a, b) /\ Together(F, b, c) => Together(F, a, c)
<1>1. Together(F, a, a)
  BY GroupOfArena DEF Together
<1>2. Together(F, a, b) => Together(F, b, a)
  BY DEF Together
<1>3. Together(F, a, b) /\ Together(F, b, c) => Together(F, a, c)
  BY GroupOfArena DEF Together
<1> QED BY <1>1, <1>2, <1>3

\* Fusing joins two groups and separates nothing.
LEMMA FusedPartition ==
    ASSUME NEW F, IsPartition(F), NEW a \in Arena, NEW b \in Arena
    PROVE  LET J == (F \ {Group(F, a), Group(F, b)}) \cup {Group(F, a) \cup Group(F, b)}
           IN  /\ IsPartition(J)
               /\ Together(J, a, b)
               /\ \A x, y \in Arena : Together(F, x, y) => Together(J, x, y)
<1> DEFINE A == Group(F, a)
           B == Group(F, b)
           J == (F \ {A, B}) \cup {A \cup B}
<1>1. A \in F /\ a \in A /\ B \in F /\ b \in B
  BY GroupOfArena
<1> HIDE DEF A, B
<1>2. J \subseteq SUBSET Arena /\ UNION J = Arena
  <2>1. J \subseteq SUBSET Arena
    BY <1>1 DEF IsPartition
  <2>2. ASSUME NEW x \in Arena PROVE \E H \in J : x \in H
    <3>1. PICK H \in F : x \in H
      BY DEF IsPartition
    <3>2. CASE H \in {A, B}
      <4>1. A \cup B \in J /\ x \in A \cup B
        BY <3>1, <3>2
      <4> QED BY <4>1
    <3>3. CASE H \notin {A, B}
      BY <3>1, <3>3
    <3> QED BY <3>2, <3>3
  <2> QED BY <2>1, <2>2
<1>3. ASSUME NEW G \in J, NEW H \in J
      PROVE  G = H \/ G \cap H = {}
  <2>1. \A K \in F \ {A, B} : K \cap (A \cup B) = {}
    BY <1>1 DEF IsPartition
  <2> QED BY <2>1 DEF IsPartition
<1>4. Together(J, a, b)
  BY <1>1 DEF Together
<1>5. ASSUME NEW x \in Arena, NEW y \in Arena, Together(F, x, y)
      PROVE  Together(J, x, y)
  BY <1>5 DEF Together
<1> QED BY <1>2, <1>3, <1>4, <1>5 DEF IsPartition, A, B

\* A group that is freed falls apart; the others stay.
LEMMA SplitPartition ==
    ASSUME NEW F, IsPartition(F), NEW G \in F
    PROVE  LET J == (F \ {G}) \cup {{b} : b \in G}
           IN  /\ IsPartition(J)
               /\ \A x, y \in Arena : x \notin G /\ Together(F, x, y) =>
                     y \notin G /\ Together(J, x, y)
<1> DEFINE J == (F \ {G}) \cup {{b} : b \in G}
<1>1. G \subseteq Arena
  BY DEF IsPartition
<1>2. J \subseteq SUBSET Arena /\ UNION J = Arena
  <2>1. J \subseteq SUBSET Arena
    BY <1>1 DEF IsPartition
  <2>2. ASSUME NEW x \in Arena PROVE \E H \in J : x \in H
    <3>1. PICK H \in F : x \in H
      BY DEF IsPartition
    <3>2. CASE H = G
      <4>1. {x} \in J /\ x \in {x}
        BY <3>1, <3>2
      <4> QED BY <4>1
    <3>3. CASE H # G
      BY <3>1, <3>3
    <3> QED BY <3>2, <3>3
  <2> QED BY <2>1, <2>2
<1>3. ASSUME NEW H \in J, NEW K \in J
      PROVE  H = K \/ H \cap K = {}
  <2>1. \A M \in F \ {G} : M \cap G = {}
    BY DEF IsPartition
  <2>2. CASE H \in F \ {G} /\ K \in F \ {G}
    BY <2>2 DEF IsPartition
  <2>3. CASE H \in F \ {G} /\ K \in {{b} : b \in G}
    BY <2>1, <2>3
  <2>4. CASE K \in F \ {G} /\ H \in {{b} : b \in G}
    BY <2>1, <2>4
  <2>5. CASE K \in {{b} : b \in G} /\ H \in {{b} : b \in G}
    BY <2>5
  <2> QED BY <2>2, <2>3, <2>4, <2>5
<1>4. ASSUME NEW x \in Arena, NEW y \in Arena, x \notin G, Together(F, x, y)
      PROVE  y \notin G /\ Together(J, x, y)
  <2>1. PICK H \in F : x \in H /\ y \in H
    BY <1>4 DEF Together
  <2>2. H # G /\ H \cap G = {}
    BY <1>4, <2>1 DEF IsPartition
  <2> QED BY <2>1, <2>2 DEF Together
<1> QED BY <1>2, <1>3, <1>4 DEF IsPartition

\* The groups of the state.
LEMMA FusedFacts ==
    ASSUME TypeOK, Partition
    PROVE  /\ IsPartition(fused)
           /\ \A a : GroupOf(a) = Group(fused, a)
           /\ \A a, b : SameGroup(a, b) <=> Together(fused, a, b)
BY DEF TypeOK, Partition, IsPartition, GroupOf, Group, SameGroup, Together

LEMMA SameGroupEquivalence ==
    ASSUME TypeOK, Partition, NEW a \in Arena, NEW b \in Arena, NEW c \in Arena
    PROVE  /\ SameGroup(a, a)
           /\ SameGroup(a, b) => SameGroup(b, a)
           /\ SameGroup(a, b) /\ SameGroup(b, c) => SameGroup(a, c)
BY FusedFacts, TogetherEquivalence

----------------------------------------------------------------------------
(***************************************************************************)
(* Reference counts.                                                       *)
(***************************************************************************)
LEMMA HoldersFinite == \A objects, a : IsFiniteSet(Holders(objects, a))
BY ObjectsAssumption, FS_Subset DEF Holders

\* An arena that an object holds is referenced.
LEMMA HeldArena ==
    ASSUME CountsOK, NEW o \in Obj, NEW a \in Arena, ~FreshObj(o), obj[o].arena = a
    PROVE  arena_refs[a] > 0
<1>1. o \in Holders(obj, a) /\ IsFiniteSet(Holders(obj, a))
  BY HoldersFinite DEF Holders, FreshObj
<1>2. Cardinality(Holders(obj, a)) \in Nat /\ Cardinality(Holders(obj, a)) # 0
  BY <1>1, FS_CardinalityType, FS_EmptySet
<1> QED BY <1>2 DEF CountsOK

\* An object takes a reference, gives one back, or keeps what it has.
LEMMA CountAdded ==
    ASSUME TypeOK, CountsOK, NEW o \in Obj, NEW a \in Arena,
           FreshObj(o) \/ obj[o].arena = NULL,
           obj'[o].state # "none", obj'[o].arena = a,
           \A p \in Obj : p # o => obj'[p] = obj[p],
           arena_refs' = [arena_refs EXCEPT ![a] = @ + 1]
    PROVE  CountsOK'
<1> SUFFICES ASSUME NEW b \in Arena
             PROVE  arena_refs'[b] = Cardinality(Holders(obj', b))
  BY DEF CountsOK
<1>1. arena_refs[b] = Cardinality(Holders(obj, b)) /\ arena_refs[b] \in Nat
  BY DEF CountsOK, TypeOK
<1>2. o \notin Holders(obj, b)
  BY ObjectsAssumption DEF Holders, FreshObj
<1>3. CASE b = a
  <2>1. Holders(obj', b) = Holders(obj, b) \cup {o}
    BY <1>3 DEF Holders
  <2>2. Cardinality(Holders(obj', b)) = Cardinality(Holders(obj, b)) + 1
    BY <1>2, <2>1, HoldersFinite, FS_AddElement
  <2>3. arena_refs'[b] = arena_refs[b] + 1
    BY <1>3 DEF TypeOK
  <2> QED BY <1>1, <2>2, <2>3
<1>4. CASE b # a
  <2>1. Holders(obj', b) = Holders(obj, b)
    BY <1>2, <1>4 DEF Holders
  <2>2. arena_refs'[b] = arena_refs[b]
    BY <1>4 DEF TypeOK
  <2> QED BY <1>1, <2>1, <2>2
<1> QED BY <1>3, <1>4

LEMMA CountRemoved ==
    ASSUME TypeOK, CountsOK, NEW o \in Obj, NEW a \in Arena,
           ~FreshObj(o), obj[o].arena = a, obj'[o].state = "none",
           \A p \in Obj : p # o => obj'[p] = obj[p],
           arena_refs' = [arena_refs EXCEPT ![a] = @ - 1]
    PROVE  CountsOK' /\ arena_refs' \in [Arena -> Nat]
<1>1. arena_refs[a] \in Nat /\ arena_refs[a] > 0
  BY HeldArena DEF TypeOK
<1>2. arena_refs' \in [Arena -> Nat]
  BY <1>1 DEF TypeOK
<1>3. ASSUME NEW b \in Arena
      PROVE  arena_refs'[b] = Cardinality(Holders(obj', b))
  <2>1. arena_refs[b] = Cardinality(Holders(obj, b))
    BY DEF CountsOK
  <2>2. CASE b = a
    <3>1. Holders(obj', b) = Holders(obj, b) \ {o} /\ o \in Holders(obj, b)
      BY <2>2 DEF Holders, FreshObj
    <3>2. Cardinality(Holders(obj', b)) = Cardinality(Holders(obj, b)) - 1
      BY <3>1, HoldersFinite, FS_RemoveElement
    <3>3. arena_refs'[b] = arena_refs[b] - 1
      BY <2>2 DEF TypeOK
    <3> QED BY <2>1, <3>2, <3>3
  <2>3. CASE b # a
    <3>1. Holders(obj', b) = Holders(obj, b)
      BY <2>3 DEF Holders
    <3>2. arena_refs'[b] = arena_refs[b]
      BY <2>3 DEF TypeOK
    <3> QED BY <2>1, <3>1, <3>2
  <2> QED BY <2>2, <2>3
<1> QED BY <1>2, <1>3 DEF CountsOK

LEMMA CountKept ==
    ASSUME CountsOK, arena_refs' = arena_refs,
           \A p \in Obj : /\ obj'[p].state = "none" <=> obj[p].state = "none"
                          /\ obj[p].state # "none" => obj'[p].arena = obj[p].arena
    PROVE  CountsOK'
<1>1. \A a \in Arena : Holders(obj', a) = Holders(obj, a)
  BY DEF Holders
<1> QED BY <1>1 DEF CountsOK

----------------------------------------------------------------------------
(***************************************************************************)
(* What several operations have in common.                                 *)
(***************************************************************************)
LEMMA Types ==
    ASSUME TypeOK
    PROVE  /\ \A o \in Obj : /\ obj[o].arena \in Arena \cup {NULL}
                             /\ Upb(o) \in Cell \cup {NULL} /\ obj[o].kind \in Kind
                             /\ obj[o].state \in {"none", "created", "live"}
           /\ \A c \in Cell : /\ cell[c].arena \in Arena \cup {NULL} /\ cell[c].kind \in Kind
                              /\ \A s \in Kind : cell[c].field[s] \in Cell \cup {NULL}
BY DEF TypeOK, Upb

\* What a live object is known to have.
LEMMA LiveFacts ==
    ASSUME ObjectsInv, NEW o \in Obj, Live(o)
    PROVE  /\ obj[o].arena \in Arena /\ Upb(o) \in Cell /\ obj[o].kind \in Kind
           /\ cell[Upb(o)].arena \in Arena
           /\ SameGroup(obj[o].arena, cell[Upb(o)].arena)
           /\ cell[Upb(o)].kind = obj[o].kind
           /\ object_cache[Upb(o)] = o
           /\ arena_refs[obj[o].arena] > 0 /\ ~FreshObj(o)
<1>1. Wraps(o) /\ object_cache[Upb(o)] = o
  BY DEF ObjectsInv, WrapsOK, CacheOK, OneWrapper
<1>2. obj[o].arena \in Arena /\ Upb(o) \in Cell /\ obj[o].kind \in Kind
  BY <1>1, Types DEF ObjectsInv, Wraps
<1>3. cell[Upb(o)].arena \in Arena
  BY <1>1, <1>2, Types DEF ObjectsInv, Wraps
<1>4. ~FreshObj(o)
  BY DEF Live, FreshObj
<1>5. arena_refs[obj[o].arena] > 0
  BY <1>2, <1>4, HeldArena DEF ObjectsInv
<1> QED BY <1>1, <1>2, <1>3, <1>4, <1>5 DEF Wraps

\* Nothing points to memory that is not in use: no object, no cell, and no entry
\* of the cache.
LEMMA FreshCellFacts ==
    ASSUME ObjectsInv, NEW c \in Cell, FreshCell(c)
    PROVE  /\ \A o \in Obj : Live(o) => Upb(o) # c
           /\ \A x \in Cell, s \in Kind : cell[x].arena # NULL => cell[x].field[s] # c
           /\ object_cache[c] = NULL
<1>1. \A o \in Obj : Live(o) => Upb(o) # c
  BY ObjectsAssumption, LiveFacts DEF FreshCell
<1>2. \A x \in Cell, s \in Kind : cell[x].arena # NULL => cell[x].field[s] # c
  BY ObjectsAssumption DEF ObjectsInv, PointsOK, Points, FreshCell
<1>3. object_cache[c] = NULL
  BY <1>1 DEF ObjectsInv, CacheOK, TypeOK
<1> QED BY <1>1, <1>2, <1>3

\* No memory is given back: objects and cells that were there keep what they
\* wrap and point to, and what is new must be in memory that is kept alive.
LEMMA Grows ==
    ASSUME ObjectsInv, TypeOK',
           \A x, y \in Arena : SameGroup(x, y) => SameGroup(x, y)',
           \A a \in Arena : arena_refs[a] > 0 => arena_refs'[a] > 0,
           \A x \in Cell : cell[x].arena # NULL =>
               cell'[x].arena = cell[x].arena /\ cell'[x].kind = cell[x].kind,
           \A o \in Obj : Live(o)' => Wraps(o)' \/ (Live(o) /\ obj'[o] = obj[o]),
           \A x \in Cell : cell'[x].arena # NULL => \A s \in Kind :
               \/ Points(x, s)'
               \/ cell[x].arena # NULL /\ cell'[x].field[s] \in {NULL, cell[x].field[s]},
           \A x \in Cell : cell'[x].arena # NULL => cell[x].arena # NULL \/ Referenced(x)'
    PROVE  WrapsOK' /\ PointsOK' /\ MemoryOK'
<1>0. \A x, y \in Arena : SameGroup(x, y) => \E G \in fused' : x \in G /\ y \in G
  BY DEF SameGroup
<1>1. ASSUME NEW o \in Obj, Live(o)'
      PROVE  Wraps(o)'
  <2>1. CASE Live(o) /\ obj'[o] = obj[o]
    <3>1. /\ obj[o].arena \in Arena /\ Upb(o) \in Cell /\ cell[Upb(o)].arena \in Arena
          /\ SameGroup(obj[o].arena, cell[Upb(o)].arena)
          /\ cell[Upb(o)].kind = obj[o].kind
      BY <2>1, LiveFacts
    <3>2. /\ cell'[Upb(o)].arena = cell[Upb(o)].arena
          /\ cell'[Upb(o)].kind = cell[Upb(o)].kind
      BY <3>1, ObjectsAssumption
    <3>3. \E G \in fused' : obj[o].arena \in G /\ cell[Upb(o)].arena \in G
      BY <3>1, <1>0
    <3> QED BY <2>1, <3>1, <3>2, <3>3, ObjectsAssumption DEF Wraps, Upb, SameGroup
  <2> QED BY <1>1, <2>1
<1>2. ASSUME NEW x \in Cell, cell'[x].arena # NULL, NEW s \in Kind
      PROVE  Points(x, s)'
  <2>1. CASE cell[x].arena # NULL /\ cell'[x].field[s] = NULL
    BY <2>1 DEF Points
  <2>2. CASE /\ cell[x].arena # NULL /\ cell'[x].field[s] = cell[x].field[s]
             /\ cell[x].field[s] # NULL
    <3> DEFINE d == cell[x].field[s]
    <3>1. d \in Cell /\ cell[x].arena \in Arena
      BY <2>2, Types DEF ObjectsInv
    <3>2. /\ cell[d].arena # NULL /\ SameGroup(cell[x].arena, cell[d].arena)
          /\ cell[d].kind = s
      BY <2>2 DEF ObjectsInv, PointsOK, Points
    <3>3. cell[d].arena \in Arena
      BY <3>1, <3>2, Types DEF ObjectsInv
    <3>4. /\ cell'[d].arena = cell[d].arena /\ cell'[d].kind = s
          /\ cell'[x].arena = cell[x].arena
      BY <2>2, <3>1, <3>2
    <3>5. \E G \in fused' : cell[x].arena \in G /\ cell[d].arena \in G
      BY <3>1, <3>2, <3>3, <1>0
    <3> QED BY <2>2, <3>2, <3>4, <3>5 DEF Points, SameGroup
  <2> QED BY <1>2, <2>1, <2>2
<1>3. ASSUME NEW x \in Cell, cell'[x].arena # NULL
      PROVE  Referenced(x)'
  <2>1. CASE cell[x].arena # NULL
    <3>1. PICK a \in Arena : SameGroup(cell[x].arena, a) /\ arena_refs[a] > 0
      BY <2>1 DEF ObjectsInv, MemoryOK, Referenced
    <3>2. cell[x].arena \in Arena /\ cell'[x].arena = cell[x].arena
      BY <2>1, Types DEF ObjectsInv
    <3>3. \E G \in fused' : cell[x].arena \in G /\ a \in G
      BY <3>1, <3>2, <1>0
    <3>4. arena_refs'[a] > 0
      BY <3>1
    <3> QED BY <3>2, <3>3, <3>4 DEF Referenced, SameGroup
  <2> QED BY <1>3, <2>1
<1> QED BY <1>1, <1>2, <1>3 DEF WrapsOK, PointsOK, MemoryOK

\* An object becomes the wrapper of a upb object that has none.
LEMMA Becomes ==
    ASSUME ObjectsInv, NEW o \in Obj, NEW k \in Kind, NEW a \in Arena, NEW c \in Cell,
           ~Live(o), object_cache[c] = NULL,
           obj' = [obj EXCEPT ![o] = Wrapper(k, a, c)], ObjCache_Add(c, o)
    PROVE  /\ CacheOK' /\ CreatedOK'
           /\ obj'[o] = Wrapper(k, a, c) /\ \A p \in Obj : p # o => obj'[p] = obj[p]
           /\ obj' \in [Obj -> [state : {"none", "created", "live"}, kind : Kind,
                                arena : Arena \cup {NULL}, upb : Cell \cup {NULL}]]
           /\ object_cache' \in [Cell -> Obj \cup {NULL}]
<1>1. /\ obj'[o] = Wrapper(k, a, c) /\ \A p \in Obj : p # o => obj'[p] = obj[p]
      /\ obj' \in [Obj -> [state : {"none", "created", "live"}, kind : Kind,
                           arena : Arena \cup {NULL}, upb : Cell \cup {NULL}]]
  BY DEF ObjectsInv, TypeOK, Wrapper
<1>2. /\ object_cache' \in [Cell -> Obj \cup {NULL}] /\ object_cache'[c] = o
      /\ \A d \in Cell : d # c => object_cache'[d] = object_cache[d]
  BY DEF ObjectsInv, TypeOK, ObjCache_Add
<1>3. obj'[o].state = "live" /\ obj'[o].upb = c
  BY <1>1 DEF Wrapper
<1>4. CreatedOK'
  BY <1>1, <1>3 DEF ObjectsInv, CreatedOK, Upb
<1>5. ASSUME NEW d \in Cell, object_cache'[d] # NULL
      PROVE  obj'[object_cache'[d]].state = "live" /\ obj'[object_cache'[d]].upb = d
  <2>1. CASE d = c
    BY <1>2, <1>3, <2>1
  <2>2. CASE d # c
    <3>1. /\ object_cache'[d] = object_cache[d] /\ object_cache[d] \in Obj
          /\ Live(object_cache[d]) /\ Upb(object_cache[d]) = d
      BY <1>2, <1>5, <2>2 DEF ObjectsInv, CacheOK, TypeOK
    <3>2. object_cache[d] # o
      BY <3>1
    <3> QED BY <1>1, <3>1, <3>2 DEF Live, Upb
  <2> QED BY <2>1, <2>2
<1>6. ASSUME NEW p \in Obj, obj'[p].state = "live"
      PROVE  object_cache'[obj'[p].upb] = p
  <2>1. CASE p = o
    BY <1>2, <1>3, <2>1
  <2>2. CASE p # o
    <3>1. obj'[p] = obj[p] /\ Live(p)
      BY <1>1, <1>6, <2>2 DEF Live
    <3>2. Upb(p) \in Cell /\ object_cache[Upb(p)] = p
      BY <3>1, LiveFacts
    <3>3. Upb(p) # c
      BY <3>2, ObjectsAssumption
    <3> QED BY <1>2, <3>1, <3>2, <3>3 DEF Upb
  <2> QED BY <2>1, <2>2
<1>7. CacheOK'
  BY <1>5, <1>6 DEF CacheOK, OneWrapper, Live, Upb
<1> QED BY <1>1, <1>2, <1>4, <1>7

----------------------------------------------------------------------------
(***************************************************************************)
(* The invariant holds at first, and every step keeps it.                  *)
(***************************************************************************)
ObjType == [state : {"none", "created", "live"}, kind : Kind,
            arena : Arena \cup {NULL}, upb : Cell \cup {NULL}]
CellType == [arena : Arena \cup {NULL}, kind : Kind, field : [Kind -> Cell \cup {NULL}]]

LEMMA InitInv == Init => ObjectsInv
<1> SUFFICES ASSUME Init PROVE ObjectsInv
  OBVIOUS
<1>1. TypeOK
  <2>1. NoObj \in ObjType /\ NoCell \in CellType
    BY DEF NoObj, NoCell, NoFields, ObjType, CellType, Kind
  <2> QED BY <2>1, ObjectsAssumption DEF Init, TypeOK, ObjType, CellType
<1>2. Partition
  BY DEF Init, Partition
<1>3. CountsOK
  <2>1. \A a \in Arena : Holders(obj, a) = {}
    BY DEF Holders, Init, NoObj
  <2> QED BY <2>1, FS_EmptySet DEF CountsOK, Init
<1>4. /\ \A o \in Obj : obj[o].state = "none" /\ php_refs[o] = 0
      /\ \A c \in Cell : cell[c].arena = NULL /\ object_cache[c] = NULL
  BY DEF Init, NoObj, NoCell
<1>5. HeldOK /\ CreatedOK /\ WrapsOK /\ CacheOK /\ PointsOK /\ MemoryOK
  BY <1>4 DEF HeldOK, CreatedOK, WrapsOK, CacheOK, OneWrapper, PointsOK, MemoryOK, Live,
              FreshObj
<1> QED BY <1>1, <1>2, <1>3, <1>5 DEF ObjectsInv

\* Cells are filled and their fields changed; none is freed, and fields point to
\* what is in memory.
CellsGrow ==
    /\ cell' \in [Cell -> CellType]
    /\ \A x \in Cell : cell[x].arena # NULL =>
           cell'[x].arena = cell[x].arena /\ cell'[x].kind = cell[x].kind
    /\ \A x \in Cell : cell'[x].arena # NULL => \A s \in Kind :
           \/ Points(x, s)'
           \/ cell[x].arena # NULL /\ cell'[x].field[s] \in {NULL, cell[x].field[s]}
    /\ \A x \in Cell : cell'[x].arena # NULL => cell[x].arena # NULL \/ Referenced(x)'

\* An operation on cells alone, which may fuse.
LEMMA CellsOnly ==
    ASSUME ObjectsInv, UNCHANGED <<obj, arena_refs, object_cache>>,
           php_refs' \in [Obj -> 0 .. MaxRefs], HeldOK',
           fused' \subseteq SUBSET Arena, Partition',
           \A x, y \in Arena : SameGroup(x, y) => SameGroup(x, y)',
           CellsGrow
    PROVE  ObjectsInv'
<1>1. TypeOK'
  BY DEF ObjectsInv, TypeOK, CellsGrow, CellType
<1>2. CountsOK'
  BY CountKept DEF ObjectsInv
<1>3. CreatedOK' /\ CacheOK'
  BY DEF ObjectsInv, CreatedOK, CacheOK, OneWrapper, Live, Upb
<1>4. \A o \in Obj : Live(o)' => Live(o) /\ obj'[o] = obj[o]
  BY DEF Live
<1>5. WrapsOK' /\ PointsOK' /\ MemoryOK'
  BY <1>1, <1>4, Grows DEF CellsGrow
<1> QED BY <1>1, <1>2, <1>3, <1>5 DEF ObjectsInv

\* The same without fusing, and without any change of who holds what.
LEMMA FieldsOnly ==
    ASSUME ObjectsInv, UNCHANGED <<obj, php_refs, arena_refs, fused, object_cache>>, CellsGrow
    PROVE  ObjectsInv'
<1>1. php_refs' \in [Obj -> 0 .. MaxRefs] /\ HeldOK'
  BY DEF ObjectsInv, TypeOK, HeldOK, FreshObj
<1>2. fused' \subseteq SUBSET Arena /\ Partition'
  BY DEF ObjectsInv, TypeOK, Partition
<1>3. \A x, y \in Arena : SameGroup(x, y) => SameGroup(x, y)'
  BY DEF SameGroup
<1> QED BY <1>1, <1>2, <1>3, CellsOnly

\* Only the number of variables that hold an object changes.
LEMMA RefsOnly ==
    ASSUME ObjectsInv, UNCHANGED <<obj, arena_refs, fused, cell, object_cache>>,
           NEW o \in Obj, ~FreshObj(o), NEW n \in 1 .. MaxRefs,
           php_refs' = [php_refs EXCEPT ![o] = n]
    PROVE  ObjectsInv'
<1>1. php_refs' \in [Obj -> 0 .. MaxRefs] /\ HeldOK'
  BY ObjectsAssumption DEF ObjectsInv, TypeOK, HeldOK, FreshObj
<1>2. fused' \subseteq SUBSET Arena /\ Partition'
  BY DEF ObjectsInv, TypeOK, Partition
<1>3. \A x, y \in Arena : SameGroup(x, y) => SameGroup(x, y)'
  BY DEF SameGroup
<1>4. CellsGrow
  BY DEF CellsGrow, ObjectsInv, TypeOK, CellType
<1> QED BY <1>1, <1>2, <1>3, <1>4, CellsOnly

\* A wrapper is made for a upb object that has none, and shares the Arena object
\* a; the upb object may be new.
LEMMA NewWrapper ==
    ASSUME ObjectsInv, NEW w \in Obj, NEW k \in Kind, NEW a \in Arena, NEW c \in Cell,
           FreshObj(w), object_cache[c] = NULL,
           obj' = [obj EXCEPT ![w] = Wrapper(k, a, c)],
           php_refs' = [php_refs EXCEPT ![w] = 1],
           CopyArena(a), ObjCache_Add(c, w), fused' = fused, CellsGrow,
           cell'[c].arena \in Arena, SameGroup(a, cell'[c].arena), cell'[c].kind = k
    PROVE  ObjectsInv'
<1>0. ~Live(w) /\ TypeOK
  BY DEF Live, FreshObj, ObjectsInv
<1>1. /\ CacheOK' /\ CreatedOK'
      /\ obj'[w] = Wrapper(k, a, c) /\ \A p \in Obj : p # w => obj'[p] = obj[p]
      /\ obj' \in [Obj -> ObjType] /\ object_cache' \in [Cell -> Obj \cup {NULL}]
  BY <1>0, Becomes DEF ObjType
<1>2. /\ obj'[w].state = "live" /\ obj'[w].arena = a /\ obj'[w].upb = c /\ obj'[w].kind = k
  BY <1>1 DEF Wrapper
<1>3. arena_refs' = [arena_refs EXCEPT ![a] = @ + 1]
  BY DEF CopyArena
<1>4. /\ arena_refs' \in [Arena -> Nat]
      /\ \A b \in Arena : arena_refs[b] > 0 => arena_refs'[b] > 0
  BY <1>3 DEF ObjectsInv, TypeOK
<1>5. CountsOK'
  BY <1>0, <1>1, <1>2, <1>3, CountAdded DEF ObjectsInv
<1>6. php_refs' \in [Obj -> 0 .. MaxRefs] /\ HeldOK'
  BY <1>1, <1>2, ObjectsAssumption DEF ObjectsInv, TypeOK, HeldOK, FreshObj
<1>7. TypeOK' /\ Partition'
  BY <1>1, <1>4, <1>6 DEF ObjectsInv, TypeOK, Partition, CellsGrow, ObjType, CellType
<1>8. \A x, y \in Arena : SameGroup(x, y) => SameGroup(x, y)'
  BY DEF SameGroup
<1>9. ASSUME NEW p \in Obj, Live(p)'
      PROVE  Wraps(p)' \/ (Live(p) /\ obj'[p] = obj[p])
  <2>1. CASE p = w
    BY <1>2, <2>1, ObjectsAssumption DEF Wraps, Upb, SameGroup
  <2>2. CASE p # w
    BY <1>1, <1>9, <2>2 DEF Live
  <2> QED BY <2>1, <2>2
<1>10. WrapsOK' /\ PointsOK' /\ MemoryOK'
  BY <1>4, <1>7, <1>8, <1>9, Grows DEF CellsGrow
<1> QED BY <1>1, <1>5, <1>6, <1>7, <1>10 DEF ObjectsInv

LEMMA CopyInv ==
    ASSUME ObjectsInv, NEW o \in Obj, Copy(o)
    PROVE  ObjectsInv'
<1>1. ~FreshObj(o) /\ php_refs[o] + 1 \in 1 .. MaxRefs
  BY ObjectsAssumption DEF Copy, Live, FreshObj, ObjectsInv, TypeOK
<1>2. php_refs' = [php_refs EXCEPT ![o] = php_refs[o] + 1]
  BY DEF Copy
<1> QED BY <1>1, <1>2, RefsOnly DEF Copy

\* Fields are cleared.
LEMMA UnsetInv ==
    ASSUME ObjectsInv, NEW o \in Obj, Unset(o)
    PROVE  ObjectsInv'
<1>1. Upb(o) \in Cell
  BY LiveFacts DEF Unset
<1>2. CellsGrow
  BY <1>1 DEF Unset, CellsGrow, CellType, ObjectsInv, TypeOK, Kind
<1> QED BY <1>2, FieldsOnly DEF Unset

LEMMA ClearInv ==
    ASSUME ObjectsInv, NEW o \in Obj, Clear(o)
    PROVE  ObjectsInv'
<1>1. Upb(o) \in Cell
  BY LiveFacts DEF Clear, LiveMessage
<1>2. CellsGrow
  BY <1>1 DEF Clear, CellsGrow, CellType, ObjectsInv, TypeOK, Kind, NoFields
<1> QED BY <1>2, FieldsOnly DEF Clear

\* Fusing keeps the groups a partition, and joins those of its arguments.
LEMMA FuseGroups ==
    ASSUME ObjectsInv, NEW a \in Arena, NEW b \in Arena, Fuse(a, b)
    PROVE  /\ fused' \subseteq SUBSET Arena /\ Partition'
           /\ \A x, y \in Arena : SameGroup(x, y) => SameGroup(x, y)'
           /\ IsPartition(fused') /\ Together(fused', a, b)
           /\ \A x, y \in Arena : Together(fused, x, y) => Together(fused', x, y)
<1>1. /\ IsPartition(fused)
      /\ fused' = (fused \ {Group(fused, a), Group(fused, b)})
                      \cup {Group(fused, a) \cup Group(fused, b)}
  BY FusedFacts DEF ObjectsInv, Fuse
<1>2. /\ IsPartition(fused') /\ Together(fused', a, b)
      /\ \A x, y \in Arena : Together(fused, x, y) => Together(fused', x, y)
  BY <1>1, FusedPartition
<1>3. fused' \subseteq SUBSET Arena /\ Partition'
  BY <1>2 DEF IsPartition, Partition
<1>4. \A x, y \in Arena : SameGroup(x, y) => SameGroup(x, y)'
  BY <1>2 DEF Together, SameGroup
<1> QED BY <1>2, <1>3, <1>4

\* One field of a cell changes.
LEMMA FieldSet ==
    ASSUME NEW r \in CellType, NEW k \in Kind, NEW d \in Cell \cup {NULL}
    PROVE  LET n == [r EXCEPT !.field[k] = d]
           IN  /\ n \in CellType /\ n.arena = r.arena /\ n.kind = r.kind
               /\ n.field[k] = d /\ \A s \in Kind : s # k => n.field[s] = r.field[s]
BY DEF CellType

\* A new cell, and a field of another that points to it.
WithChild(m, c, r, x, k) == [m EXCEPT ![c] = r, ![x].field[k] = c]
\* A pointer is stored after its arena was fused with that of its owner.
LEMMA SetInv ==
    ASSUME ObjectsInv, NEW o \in Obj, NEW v \in Obj, Set(o, v)
    PROVE  ObjectsInv'
<1>a. PICK x, y, k : x = Upb(o) /\ y = Upb(v) /\ k = obj[v].kind
  OBVIOUS
<1>0. /\ Live(o) /\ Live(v) /\ Fuse(obj[o].arena, obj[v].arena)
      /\ cell' = [cell EXCEPT ![x].field[k] = y]
      /\ UNCHANGED <<obj, php_refs, arena_refs, object_cache>>
  BY <1>a DEF Set
<1>1. /\ obj[o].arena \in Arena /\ x \in Cell /\ cell[x].arena \in Arena
      /\ SameGroup(obj[o].arena, cell[x].arena)
      /\ obj[v].arena \in Arena /\ y \in Cell /\ cell[y].arena \in Arena /\ k \in Kind
      /\ SameGroup(obj[v].arena, cell[y].arena) /\ cell[y].kind = k
  BY <1>0, <1>a, LiveFacts
<1>2. /\ fused' \subseteq SUBSET Arena /\ Partition'
      /\ \A s, t \in Arena : SameGroup(s, t) => SameGroup(s, t)'
      /\ IsPartition(fused') /\ Together(fused', obj[o].arena, obj[v].arena)
      /\ \A s, t \in Arena : Together(fused, s, t) => Together(fused', s, t)
  BY <1>0, <1>1, FuseGroups
<1>3. Together(fused', cell[x].arena, cell[y].arena)
  <2>1. /\ Together(fused', obj[o].arena, cell[x].arena)
        /\ Together(fused', obj[v].arena, cell[y].arena)
    BY <1>1, <1>2, FusedFacts DEF ObjectsInv
  <2>2. Together(fused', cell[x].arena, obj[v].arena)
    BY <1>1, <1>2, <2>1, TogetherEquivalence
  <2> QED BY <1>1, <1>2, <2>1, <2>2, TogetherEquivalence
<1>4. /\ cell' \in [Cell -> CellType]
      /\ \A z \in Cell : cell'[z].arena = cell[z].arena /\ cell'[z].kind = cell[z].kind
      /\ cell'[x].field[k] = y
      /\ \A z \in Cell, s \in Kind :
            z # x \/ s # k => cell'[z].field[s] = cell[z].field[s]
  <2> DEFINE n == [cell[x] EXCEPT !.field[k] = y]
  <2>1. cell \in [Cell -> CellType]
    BY DEF ObjectsInv, TypeOK, CellType
  <2>2. /\ n \in CellType /\ n.arena = cell[x].arena /\ n.kind = cell[x].kind
        /\ n.field[k] = y /\ \A s \in Kind : s # k => n.field[s] = cell[x].field[s]
    BY <1>1, <2>1, FieldSet
  <2>3. cell' = [cell EXCEPT ![x] = n]
    BY <1>0
  <2> HIDE DEF n
  <2> QED BY <1>1, <2>1, <2>2, <2>3
<1>5. Points(x, k)'
  BY <1>1, <1>3, <1>4, ObjectsAssumption DEF Points, SameGroup, Together
<1>6. ASSUME NEW z \in Cell, cell'[z].arena # NULL, NEW s \in Kind
      PROVE  \/ Points(z, s)'
             \/ cell[z].arena # NULL /\ cell'[z].field[s] \in {NULL, cell[z].field[s]}
  <2>1. CASE z = x /\ s = k
    BY <1>5, <2>1
  <2>2. CASE z # x \/ s # k
    BY <1>4, <1>6, <2>2
  <2> QED BY <2>1, <2>2
<1>7. CellsGrow
  BY <1>4, <1>6 DEF CellsGrow
<1>8. php_refs' \in [Obj -> 0 .. MaxRefs] /\ HeldOK'
  BY <1>0 DEF ObjectsInv, TypeOK, HeldOK, FreshObj
<1> QED BY <1>0, <1>2, <1>7, <1>8, CellsOnly

LEMMA SetRejectedInv ==
    ASSUME ObjectsInv, NEW o \in Obj, NEW v \in Obj, SetRejected(o, v)
    PROVE  ObjectsInv'
<1>0. /\ Live(o) /\ Live(v) /\ Fuse(obj[o].arena, obj[v].arena)
      /\ UNCHANGED <<obj, php_refs, arena_refs, cell, object_cache>>
  BY DEF SetRejected, LiveMessage
<1>1. obj[o].arena \in Arena /\ obj[v].arena \in Arena
  BY <1>0, LiveFacts
<1>2. /\ fused' \subseteq SUBSET Arena /\ Partition'
      /\ \A s, t \in Arena : SameGroup(s, t) => SameGroup(s, t)'
  BY <1>0, <1>1, FuseGroups
<1>3. CellsGrow
  BY <1>0 DEF CellsGrow, ObjectsInv, TypeOK, CellType
<1>4. php_refs' \in [Obj -> 0 .. MaxRefs] /\ HeldOK'
  BY <1>0 DEF ObjectsInv, TypeOK, HeldOK, FreshObj
<1> QED BY <1>0, <1>2, <1>3, <1>4, CellsOnly

\* A new child in the arena of the wrapper of its parent.
LEMMA StoreNew ==
    ASSUME ObjectsInv, NEW o \in Obj, Live(o), NEW c \in Cell, FreshCell(c), NEW k \in Kind,
           cell' = WithChild(cell, c, CellIn(obj[o].arena, k), Upb(o), k),
           fused' = fused,
           \A a \in Arena : arena_refs[a] > 0 => arena_refs'[a] > 0
    PROVE  /\ CellsGrow
           /\ cell'[c].arena = obj[o].arena /\ cell'[c].kind = k
<1>a. PICK x, a : x = Upb(o) /\ a = obj[o].arena
  OBVIOUS
<1>1. /\ a \in Arena /\ x \in Cell /\ cell[x].arena \in Arena
      /\ SameGroup(a, cell[x].arena) /\ arena_refs[a] > 0
  BY <1>a, LiveFacts
<1>2. cell[c].arena = NULL /\ x # c /\ a # NULL
  BY <1>1, ObjectsAssumption DEF FreshCell
<1>3. SameGroup(cell[x].arena, a) /\ SameGroup(a, a)
  BY <1>1, SameGroupEquivalence DEF ObjectsInv
<1>4. CellIn(a, k) \in CellType /\ CellIn(a, k).arena = a /\ CellIn(a, k).kind = k
      /\ \A s \in Kind : CellIn(a, k).field[s] = NULL
  BY <1>1 DEF CellIn, CellType, NoFields
<1>5. cell' = WithChild(cell, c, CellIn(a, k), x, k)
  BY <1>a
<1>6. /\ cell' \in [Cell -> CellType] /\ cell'[c] = CellIn(a, k)
      /\ \A z \in Cell : z # c => cell'[z].arena = cell[z].arena /\ cell'[z].kind = cell[z].kind
      /\ cell'[x].field[k] = c
      /\ \A z \in Cell, s \in Kind :
            z # c /\ (z # x \/ s # k) => cell'[z].field[s] = cell[z].field[s]
  <2>1. cell \in [Cell -> CellType]
    BY DEF ObjectsInv, TypeOK, CellType
  <2>2. x \in Cell /\ x # c /\ CellIn(a, k) \in CellType
    BY <1>1, <1>2, <1>4
  <2> DEFINE n == [cell[x] EXCEPT !.field[k] = c]
  <2>3. cell' = [z \in Cell |-> IF z = c THEN CellIn(a, k) ELSE IF z = x THEN n ELSE cell[z]]
    BY <1>5, <2>1, <2>2 DEF WithChild
  <2>4. /\ n \in CellType /\ n.arena = cell[x].arena /\ n.kind = cell[x].kind
        /\ n.field[k] = c /\ \A s \in Kind : s # k => n.field[s] = cell[x].field[s]
    BY <2>1, <2>2, FieldSet
  <2> HIDE DEF n
  <2>5. cell'[c] = CellIn(a, k) /\ cell'[x] = n /\ cell' \in [Cell -> CellType]
    BY <2>1, <2>2, <2>3, <2>4
  <2>6. \A z \in Cell : z # c /\ z # x => cell'[z] = cell[z]
    BY <2>3
  <2>7. ASSUME NEW z \in Cell, z # c
        PROVE  /\ cell'[z].arena = cell[z].arena /\ cell'[z].kind = cell[z].kind
               /\ \A s \in Kind : z # x \/ s # k => cell'[z].field[s] = cell[z].field[s]
    <3>1. CASE z = x
      BY <2>4, <2>5, <3>1
    <3>2. CASE z # x
      BY <2>6, <2>7, <3>2
    <3> QED BY <3>1, <3>2
  <2> QED BY <2>4, <2>5, <2>7
<1>7. cell'[c].arena = a /\ cell'[c].kind = k /\ cell'[x].arena = cell[x].arena
  BY <1>1, <1>2, <1>4, <1>6
<1>8. Points(x, k)'
  BY <1>2, <1>3, <1>6, <1>7 DEF Points, SameGroup
<1>9. ASSUME NEW z \in Cell, cell'[z].arena # NULL, NEW s \in Kind
      PROVE  \/ Points(z, s)'
             \/ cell[z].arena # NULL /\ cell'[z].field[s] \in {NULL, cell[z].field[s]}
  <2>1. CASE z = c
    BY <1>4, <1>6, <2>1 DEF Points
  <2>2. CASE z = x /\ s = k
    BY <1>8, <2>2
  <2>3. CASE z # c /\ (z # x \/ s # k)
    BY <1>6, <1>9, <2>3
  <2> QED BY <2>1, <2>2, <2>3
<1>10. Referenced(c)'
  BY <1>1, <1>3, <1>7 DEF Referenced, SameGroup
<1>11. CellsGrow
  BY <1>2, <1>6, <1>9, <1>10 DEF CellsGrow
<1> QED BY <1>a, <1>7, <1>11

LEMMA SetNewInv ==
    ASSUME ObjectsInv, NEW o \in Obj, NEW s \in Kind, NEW c \in Cell, SetNew(o, s, c)
    PROVE  ObjectsInv'
<1>1. CellsGrow
  BY StoreNew DEF SetNew, WithChild
<1> QED BY <1>1, FieldsOnly DEF SetNew

\* The wrapper found in the cache is one of the objects PHP holds.
LEMMA CachedWrapper ==
    ASSUME ObjectsInv, NEW w \in Obj, NEW c \in Cell, object_cache[c] = w,
           php_refs[w] < MaxRefs, php_refs' = [php_refs EXCEPT ![w] = @ + 1],
           UNCHANGED <<obj, arena_refs, fused, cell, object_cache>>
    PROVE  ObjectsInv'
<1>1. Live(w)
  BY ObjectsAssumption DEF ObjectsInv, CacheOK
<1>2. ~FreshObj(w) /\ php_refs[w] + 1 \in 1 .. MaxRefs
  BY <1>1, ObjectsAssumption DEF Live, FreshObj, ObjectsInv, TypeOK
<1> QED BY <1>2, RefsOnly

LEMMA GetInv ==
    ASSUME ObjectsInv, NEW o \in Obj, NEW s \in Kind, NEW w \in Obj, Get(o, s, w)
    PROVE  ObjectsInv'
<1> DEFINE x == Upb(o)
           a == obj[o].arena
           c == cell[x].field[s]
<1>0. /\ Live(o) /\ c # NULL /\ GetPhpWrapper(w, s, c, a)
      /\ UNCHANGED <<fused, cell>>
  BY DEF Get
<1>1. /\ a \in Arena /\ x \in Cell /\ cell[x].arena \in Arena
      /\ SameGroup(a, cell[x].arena)
  BY <1>0, LiveFacts
<1>2. c \in Cell
  BY <1>0, <1>1, Types DEF ObjectsInv
<1>3. /\ cell[c].arena # NULL /\ SameGroup(cell[x].arena, cell[c].arena)
      /\ cell[c].kind = s
  BY <1>0, <1>1, ObjectsAssumption DEF ObjectsInv, PointsOK, Points
<1>4. cell[c].arena \in Arena
  BY <1>2, <1>3, Types DEF ObjectsInv
<1>5. SameGroup(a, cell[c].arena)
  BY <1>1, <1>3, <1>4, SameGroupEquivalence DEF ObjectsInv
<1>6. CellsGrow
  BY <1>0 DEF CellsGrow, ObjectsInv, TypeOK, CellType
<1> HIDE DEF a, c, x
<1>7. CASE /\ object_cache[c] = w
           /\ php_refs[w] < MaxRefs
           /\ php_refs' = [php_refs EXCEPT ![w] = @ + 1]
           /\ UNCHANGED <<obj, arena_refs, object_cache>>
  BY <1>0, <1>2, <1>7, CachedWrapper
<1>8. CASE /\ object_cache[c] = NULL
           /\ FreshObj(w)
           /\ obj' = [obj EXCEPT ![w] = Wrapper(s, a, c)]
           /\ php_refs' = [php_refs EXCEPT ![w] = 1]
           /\ CopyArena(a)
           /\ ObjCache_Add(c, w)
  BY <1>0, <1>1, <1>2, <1>3, <1>4, <1>5, <1>6, <1>8, NewWrapper
<1> QED BY <1>0, <1>7, <1>8 DEF GetPhpWrapper

\* A wrapper of a cell that is new is never in the cache already.
LEMMA FreshWrapper ==
    ASSUME ObjectsInv, NEW w \in Obj, NEW k \in Kind, NEW c \in Cell, NEW a \in Arena,
           FreshCell(c), GetPhpWrapper(w, k, c, a)
    PROVE  /\ object_cache[c] = NULL /\ FreshObj(w)
           /\ obj' = [obj EXCEPT ![w] = Wrapper(k, a, c)]
           /\ php_refs' = [php_refs EXCEPT ![w] = 1]
           /\ CopyArena(a) /\ ObjCache_Add(c, w)
           /\ \A b \in Arena : arena_refs[b] > 0 => arena_refs'[b] > 0
<1>1. object_cache[c] = NULL
  BY FreshCellFacts
<1>2. /\ FreshObj(w)
      /\ obj' = [obj EXCEPT ![w] = Wrapper(k, a, c)]
      /\ php_refs' = [php_refs EXCEPT ![w] = 1]
      /\ CopyArena(a) /\ ObjCache_Add(c, w)
  BY <1>1, ObjectsAssumption DEF GetPhpWrapper
<1>3. \A b \in Arena : arena_refs[b] > 0 => arena_refs'[b] > 0
  BY <1>2 DEF CopyArena, ObjectsInv, TypeOK
<1> QED BY <1>1, <1>2, <1>3

LEMMA GetMutableInv ==
    ASSUME ObjectsInv, NEW o \in Obj, NEW c \in Cell, NEW w \in Obj, GetMutable(o, c, w)
    PROVE  ObjectsInv'
<1> DEFINE a == obj[o].arena
<1>0. /\ Live(o) /\ FreshCell(c) /\ fused' = fused
      /\ cell' = [cell EXCEPT ![c] = CellIn(a, "container"), ![Upb(o)].field["container"] = c]
      /\ GetPhpWrapper(w, "container", c, a) /\ "container" \in Kind
  BY DEF GetMutable, LiveMessage, Kind
<1>1. a \in Arena
  BY <1>0, LiveFacts
<1>2. SameGroup(a, a)
  BY <1>1, SameGroupEquivalence DEF ObjectsInv
<1>3. /\ object_cache[c] = NULL /\ FreshObj(w)
      /\ obj' = [obj EXCEPT ![w] = Wrapper("container", a, c)]
      /\ php_refs' = [php_refs EXCEPT ![w] = 1]
      /\ CopyArena(a) /\ ObjCache_Add(c, w)
      /\ \A b \in Arena : arena_refs[b] > 0 => arena_refs'[b] > 0
  BY <1>0, <1>1, FreshWrapper
<1>4. CellsGrow /\ cell'[c].arena = a /\ cell'[c].kind = "container"
  BY <1>0, <1>3, StoreNew DEF WithChild
<1> HIDE DEF a
<1> QED BY <1>0, <1>1, <1>2, <1>3, <1>4, NewWrapper

\* The fields of a copy point into the group its original is in.
LEMMA CloneInv ==
    ASSUME ObjectsInv, NEW o \in Obj, NEW c \in Cell, NEW w \in Obj, Clone(o, c, w)
    PROVE  ObjectsInv'
<1> DEFINE a == obj[o].arena
           x == Upb(o)
           k == obj[o].kind
<1>0. /\ Live(o) /\ FreshCell(c) /\ fused' = fused
      /\ cell' = [cell EXCEPT ![c] = [cell[x] EXCEPT !.arena = a]]
      /\ GetPhpWrapper(w, k, c, a)
  BY DEF Clone
<1>1. /\ a \in Arena /\ x \in Cell /\ cell[x].arena \in Arena /\ k \in Kind
      /\ SameGroup(a, cell[x].arena) /\ cell[x].kind = k /\ arena_refs[a] > 0
  BY <1>0, LiveFacts
<1>2. SameGroup(a, a) /\ a # NULL /\ cell[x].arena # NULL /\ cell[c].arena = NULL
  BY <1>0, <1>1, SameGroupEquivalence, ObjectsAssumption DEF ObjectsInv, FreshCell
<1>3. /\ object_cache[c] = NULL /\ FreshObj(w)
      /\ obj' = [obj EXCEPT ![w] = Wrapper(k, a, c)]
      /\ php_refs' = [php_refs EXCEPT ![w] = 1]
      /\ CopyArena(a) /\ ObjCache_Add(c, w)
      /\ \A b \in Arena : arena_refs[b] > 0 => arena_refs'[b] > 0
  BY <1>0, <1>1, FreshWrapper
<1> HIDE DEF a, x, k
<1>4. /\ cell' \in [Cell -> CellType]
      /\ cell'[c].arena = a /\ cell'[c].kind = cell[x].kind /\ cell'[c].field = cell[x].field
      /\ \A z \in Cell : z # c => cell'[z] = cell[z]
  BY <1>0, <1>1 DEF ObjectsInv, TypeOK, CellType
<1>5. ASSUME NEW s \in Kind PROVE Points(c, s)'
  <2> DEFINE d == cell[x].field[s]
  <2>1. CASE d = NULL
    BY <1>4, <2>1 DEF Points
  <2>2. CASE d # NULL
    <3>1. /\ cell[d].arena # NULL /\ SameGroup(cell[x].arena, cell[d].arena)
          /\ cell[d].kind = s
      BY <1>1, <1>2, <2>2 DEF ObjectsInv, PointsOK, Points
    <3>2. d \in Cell
      BY <1>1, <2>2, Types DEF ObjectsInv
    <3>3. d # c /\ cell[d].arena \in Arena
      BY <1>2, <3>1, <3>2, Types DEF ObjectsInv
    <3>4. SameGroup(a, cell[d].arena)
      BY <1>1, <3>1, <3>3, SameGroupEquivalence DEF ObjectsInv
    <3> QED BY <1>0, <1>4, <3>1, <3>2, <3>3, <3>4 DEF Points, SameGroup
  <2> QED BY <2>1, <2>2
<1>6. Referenced(c)'
  BY <1>0, <1>1, <1>2, <1>3, <1>4 DEF Referenced, SameGroup
<1>7. CellsGrow
  BY <1>2, <1>4, <1>5, <1>6 DEF CellsGrow
<1> QED BY <1>0, <1>1, <1>2, <1>3, <1>4, <1>7, NewWrapper

\* An object is created and wraps nothing yet.
LEMMA Created ==
    ASSUME ObjectsInv, NEW o \in Obj, FreshObj(o), NEW r \in ObjType, r.state = "created",
           IF r.kind = "message" THEN r.arena = NULL ELSE r.arena # NULL /\ r.upb = NULL,
           obj' = [obj EXCEPT ![o] = r], php_refs' = [php_refs EXCEPT ![o] = 1],
           UNCHANGED <<fused, cell, object_cache>>,
           arena_refs' \in [Arena -> Nat], CountsOK',
           \A a \in Arena : arena_refs[a] > 0 => arena_refs'[a] > 0
    PROVE  ObjectsInv'
<1>1. /\ obj' \in [Obj -> ObjType] /\ obj'[o] = r /\ \A p \in Obj : p # o => obj'[p] = obj[p]
  BY DEF ObjectsInv, TypeOK, ObjType
<1>2. php_refs' \in [Obj -> 0 .. MaxRefs] /\ HeldOK'
  BY <1>1, ObjectsAssumption DEF ObjectsInv, TypeOK, HeldOK, FreshObj
<1>3. TypeOK' /\ Partition'
  BY <1>1, <1>2 DEF ObjectsInv, TypeOK, Partition, ObjType
<1>4. \A p \in Obj : Live(p)' => Live(p) /\ obj'[p] = obj[p]
  BY <1>1 DEF Live
<1>5. CreatedOK'
  BY <1>1 DEF ObjectsInv, CreatedOK, Upb
<1>6. CacheOK'
  <2>1. \A p \in Obj : Live(p) => p # o
    BY DEF Live, FreshObj
  <2>2. ASSUME NEW c \in Cell, object_cache[c] # NULL
        PROVE  LET p == object_cache[c] IN obj'[p].state = "live" /\ obj'[p].upb = c
    <3>1. object_cache[c] \in Obj /\ Live(object_cache[c]) /\ Upb(object_cache[c]) = c
      BY <2>2 DEF ObjectsInv, CacheOK, TypeOK
    <3> QED BY <1>1, <2>1, <3>1 DEF Live, Upb
  <2>3. ASSUME NEW p \in Obj, obj'[p].state = "live"
        PROVE  object_cache[obj'[p].upb] = p
    BY <1>4, <2>3 DEF ObjectsInv, CacheOK, OneWrapper, Live, Upb
  <2> QED BY <2>2, <2>3 DEF CacheOK, OneWrapper, Live, Upb
<1>7. \A x, y \in Arena : SameGroup(x, y) => SameGroup(x, y)'
  BY DEF SameGroup
<1>8. WrapsOK' /\ PointsOK' /\ MemoryOK'
  BY <1>3, <1>4, <1>7, Grows
<1> QED BY <1>2, <1>3, <1>5, <1>6, <1>8 DEF ObjectsInv

LEMMA Message_createInv ==
    ASSUME ObjectsInv, NEW o \in Obj, Message_create(o)
    PROVE  ObjectsInv'
<1>1. PICK garbage \in Cell \cup {NULL} :
          obj' = [obj EXCEPT ![o] = [state |-> "created", kind |-> "message",
                                     arena |-> NULL, upb |-> garbage]]
  BY DEF Message_create
<1> DEFINE r == [state |-> "created", kind |-> "message", arena |-> NULL, upb |-> garbage]
<1>2. /\ r \in ObjType /\ r.state = "created" /\ r.kind = "message" /\ r.arena = NULL
  BY DEF ObjType, Kind
<1>3. obj' = [obj EXCEPT ![o] = r]
  BY <1>1
<1> HIDE DEF r
<1>4. /\ FreshObj(o) /\ php_refs' = [php_refs EXCEPT ![o] = 1]
      /\ UNCHANGED <<arena_refs, fused, cell, object_cache>>
  BY DEF Message_create
<1>5. CountsOK'
  <2>1. \A a \in Arena : Holders(obj', a) = Holders(obj, a)
    <3>1. obj'[o] = r /\ \A p \in Obj : p # o => obj'[p] = obj[p]
      BY <1>3 DEF ObjectsInv, TypeOK
    <3> QED BY <1>2, <1>4, <3>1, ObjectsAssumption DEF Holders, FreshObj
  <2> QED BY <1>4, <2>1 DEF CountsOK, ObjectsInv
<1>6. arena_refs' \in [Arena -> Nat]
  BY <1>4 DEF ObjectsInv, TypeOK
<1> QED BY <1>2, <1>3, <1>4, <1>5, <1>6, Created

LEMMA Container_createInv ==
    ASSUME ObjectsInv, NEW o \in Obj, NEW a \in Arena, Container_create(o, a)
    PROVE  ObjectsInv'
<1> DEFINE r == [state |-> "created", kind |-> "container", arena |-> a, upb |-> NULL]
<1>1. /\ FreshObj(o) /\ arena_refs[a] = 0
      /\ obj' = [obj EXCEPT ![o] = r] /\ php_refs' = [php_refs EXCEPT ![o] = 1]
      /\ arena_refs' = [arena_refs EXCEPT ![a] = 1]
      /\ UNCHANGED <<fused, cell, object_cache>>
  BY DEF Container_create, FreshArena
<1>2. /\ r \in ObjType /\ r.state = "created" /\ r.kind = "container" /\ r.arena = a
      /\ r.upb = NULL /\ a # NULL
  BY ObjectsAssumption DEF ObjType, Kind
<1> HIDE DEF r
<1>3. obj'[o] = r /\ \A p \in Obj : p # o => obj'[p] = obj[p]
  BY <1>1 DEF ObjectsInv, TypeOK
<1>4. /\ arena_refs' = [arena_refs EXCEPT ![a] = @ + 1] /\ arena_refs' \in [Arena -> Nat]
      /\ \A b \in Arena : arena_refs[b] > 0 => arena_refs'[b] > 0
  BY <1>1 DEF ObjectsInv, TypeOK
<1>5. CountsOK'
  BY <1>1, <1>2, <1>3, <1>4, CountAdded DEF ObjectsInv
<1> QED BY <1>1, <1>2, <1>4, <1>5, Created

\* A cell that nothing points to yet, in an arena that somebody holds.
LEMMA NewCell ==
    ASSUME ObjectsInv, NEW c \in Cell, FreshCell(c), NEW a \in Arena, NEW k \in Kind,
           cell' = [cell EXCEPT ![c] = CellIn(a, k)], fused' = fused, arena_refs'[a] > 0
    PROVE  CellsGrow /\ cell'[c].arena = a /\ cell'[c].kind = k
<1>1. CellIn(a, k) \in CellType /\ CellIn(a, k).arena = a /\ CellIn(a, k).kind = k
      /\ \A s \in Kind : CellIn(a, k).field[s] = NULL
  BY DEF CellIn, CellType, NoFields
<1>2. /\ cell' \in [Cell -> CellType] /\ cell'[c] = CellIn(a, k) /\ cell[c].arena = NULL
      /\ \A z \in Cell : z # c => cell'[z] = cell[z]
  BY <1>1 DEF ObjectsInv, TypeOK, CellType, FreshCell
<1>3. \A s \in Kind : Points(c, s)'
  BY <1>1, <1>2 DEF Points
<1>4. SameGroup(a, a)
  BY SameGroupEquivalence DEF ObjectsInv
<1>5. Referenced(c)'
  BY <1>1, <1>2, <1>4 DEF Referenced, SameGroup
<1> QED BY <1>1, <1>2, <1>3, <1>5 DEF CellsGrow

\* A created object is constructed: it becomes the wrapper of a new cell.
LEMMA Constructed ==
    ASSUME ObjectsInv, NEW o \in Obj, NEW k \in Kind, NEW a \in Arena, NEW c \in Cell,
           obj[o].state = "created", FreshCell(c),
           obj' = [obj EXCEPT ![o] = Wrapper(k, a, c)], ObjCache_Add(c, o),
           cell' = [cell EXCEPT ![c] = CellIn(a, k)], UNCHANGED <<php_refs, fused>>,
           arena_refs' \in [Arena -> Nat], arena_refs'[a] > 0,
           \A b \in Arena : arena_refs[b] > 0 => arena_refs'[b] > 0,
           CountsOK'
    PROVE  ObjectsInv'
<1>0. ~Live(o) /\ object_cache[c] = NULL
  BY FreshCellFacts DEF Live
<1>1. /\ CacheOK' /\ CreatedOK'
      /\ obj'[o] = Wrapper(k, a, c) /\ \A p \in Obj : p # o => obj'[p] = obj[p]
      /\ obj' \in [Obj -> ObjType] /\ object_cache' \in [Cell -> Obj \cup {NULL}]
  BY <1>0, Becomes DEF ObjType
<1>2. /\ obj'[o].state = "live" /\ obj'[o].arena = a /\ obj'[o].upb = c /\ obj'[o].kind = k
  BY <1>1 DEF Wrapper
<1>3. CellsGrow /\ cell'[c].arena = a /\ cell'[c].kind = k
  BY NewCell
<1>4. php_refs' \in [Obj -> 0 .. MaxRefs] /\ HeldOK'
  BY <1>1, <1>2, ObjectsAssumption DEF ObjectsInv, TypeOK, HeldOK, FreshObj
<1>5. TypeOK' /\ Partition'
  BY <1>1, <1>3, <1>4 DEF ObjectsInv, TypeOK, Partition, CellsGrow, ObjType, CellType
<1>6. SameGroup(a, a) /\ \A x, y \in Arena : SameGroup(x, y) => SameGroup(x, y)'
  BY SameGroupEquivalence DEF SameGroup, ObjectsInv
<1>7. ASSUME NEW p \in Obj, Live(p)'
      PROVE  Wraps(p)' \/ (Live(p) /\ obj'[p] = obj[p])
  <2>1. CASE p = o
    BY <1>2, <1>3, <1>6, <2>1, ObjectsAssumption DEF Wraps, Upb, SameGroup
  <2>2. CASE p # o
    BY <1>1, <1>7, <2>2 DEF Live
  <2> QED BY <2>1, <2>2
<1>8. WrapsOK' /\ PointsOK' /\ MemoryOK'
  BY <1>3, <1>5, <1>6, <1>7, Grows DEF CellsGrow
<1> QED BY <1>1, <1>4, <1>5, <1>8 DEF ObjectsInv

LEMMA Message_constructInv ==
    ASSUME Misuse = {}, ObjectsInv, NEW o \in Obj, NEW a \in Arena, NEW c \in Cell,
           Message_construct(o, a, c)
    PROVE  ObjectsInv'
<1>1. /\ obj[o].state = "created" /\ obj[o].kind = "message" /\ arena_refs[a] = 0
      /\ FreshCell(c) /\ "message" \in Kind
      /\ obj' = [obj EXCEPT ![o] = Wrapper("message", a, c)]
      /\ arena_refs' = [arena_refs EXCEPT ![a] = 1]
      /\ cell' = [cell EXCEPT ![c] = CellIn(a, "message")]
      /\ ObjCache_Add(c, o) /\ UNCHANGED <<php_refs, fused>>
  BY DEF Message_construct, FreshArena, Kind
<1>2. obj[o].arena = NULL
  BY <1>1 DEF ObjectsInv, CreatedOK
<1>3. /\ obj'[o].state # "none" /\ obj'[o].arena = a
      /\ \A p \in Obj : p # o => obj'[p] = obj[p]
  BY <1>1 DEF ObjectsInv, TypeOK, Wrapper
<1>4. /\ arena_refs' = [arena_refs EXCEPT ![a] = @ + 1] /\ arena_refs' \in [Arena -> Nat]
      /\ arena_refs'[a] > 0
      /\ \A b \in Arena : arena_refs[b] > 0 => arena_refs'[b] > 0
  BY <1>1 DEF ObjectsInv, TypeOK
<1>5. CountsOK'
  BY <1>2, <1>3, <1>4, CountAdded DEF ObjectsInv
<1> QED BY <1>1, <1>4, <1>5, Constructed

LEMMA Container_constructInv ==
    ASSUME Misuse = {}, ObjectsInv, NEW o \in Obj, NEW c \in Cell, Container_construct(o, c)
    PROVE  ObjectsInv'
<1> DEFINE a == obj[o].arena
<1>1. /\ obj[o].state = "created" /\ obj[o].kind = "container"
      /\ FreshCell(c) /\ "container" \in Kind
      /\ obj' = [obj EXCEPT ![o] = Wrapper("container", a, c)]
      /\ cell' = [cell EXCEPT ![c] = CellIn(a, "container")]
      /\ ObjCache_Add(c, o) /\ UNCHANGED <<php_refs, arena_refs, fused>>
  BY DEF Container_construct, Kind
<1>2. a \in Arena
  BY <1>1, Types DEF ObjectsInv, CreatedOK
<1>3. obj[o].arena = a /\ ~FreshObj(o)
  BY <1>1 DEF FreshObj
<1> HIDE DEF a
<1>4. arena_refs[a] > 0
  BY <1>2, <1>3, HeldArena DEF ObjectsInv
<1>5. /\ obj'[o].state # "none" /\ obj'[o].arena = a
      /\ \A p \in Obj : p # o => obj'[p] = obj[p]
  BY <1>1 DEF ObjectsInv, TypeOK, Wrapper
<1>6. CountsOK'
  BY <1>1, <1>3, <1>5, CountKept DEF ObjectsInv, FreshObj
<1>7. arena_refs' \in [Arena -> Nat]
  BY <1>1 DEF ObjectsInv, TypeOK
<1> QED BY <1>1, <1>2, <1>4, <1>6, <1>7, Constructed

\* An object goes: its entry leaves the cache, and no other does.
LEMMA CacheReleased ==
    ASSUME ObjectsInv, NEW o \in Obj, Live(o) \/ Upb(o) = NULL,
           obj' = [obj EXCEPT ![o] = NoObj], ObjCache_Delete(Upb(o))
    PROVE  CacheOK'
<1>a. PICK x : x = Upb(o)
  OBVIOUS
<1>1. /\ obj'[o].state = "none" /\ \A p \in Obj : p # o => obj'[p] = obj[p]
  BY DEF ObjectsInv, TypeOK, NoObj
<1>2. /\ \A d \in Cell : object_cache'[d] = IF d = x THEN NULL ELSE object_cache[d]
  BY <1>a DEF ObjCache_Delete
<1>3. ASSUME NEW d \in Cell, object_cache'[d] # NULL
      PROVE  obj'[object_cache'[d]].state = "live" /\ obj'[object_cache'[d]].upb = d
  <2>1. d # x /\ object_cache'[d] = object_cache[d]
    BY <1>2, <1>3
  <2>2. object_cache[d] \in Obj /\ Live(object_cache[d]) /\ Upb(object_cache[d]) = d
    BY <1>3, <2>1 DEF ObjectsInv, CacheOK, TypeOK
  <2>3. object_cache[d] # o
    BY <1>a, <2>1, <2>2
  <2> QED BY <1>1, <2>1, <2>2, <2>3 DEF Live, Upb
<1>4. ASSUME NEW p \in Obj, obj'[p].state = "live"
      PROVE  object_cache'[obj'[p].upb] = p
  <2>1. p # o /\ obj'[p] = obj[p] /\ Live(p)
    BY <1>1, <1>4 DEF Live
  <2>2. Upb(p) \in Cell /\ object_cache[Upb(p)] = p
    BY <2>1, LiveFacts
  <2>3. Upb(p) # x
    <3>1. CASE Live(o)
      BY <1>a, <2>1, <2>2, <3>1, LiveFacts
    <3>2. CASE Upb(o) = NULL
      BY <1>a, <2>2, <3>2, ObjectsAssumption
    <3> QED BY <3>1, <3>2
  <2> QED BY <1>2, <2>1, <2>2, <2>3 DEF Upb
<1> QED BY <1>3, <1>4 DEF CacheOK, OneWrapper, Live, Upb

\* The others keep their arenas alive.
LEMMA OthersHold ==
    ASSUME ObjectsInv, CountsOK', NEW o \in Obj, obj' = [obj EXCEPT ![o] = NoObj],
           NEW p \in Obj, p # o, ~FreshObj(p), obj[p].arena \in Arena
    PROVE  arena_refs'[obj[p].arena] > 0
<1>a. PICK b \in Arena : b = obj[p].arena
  OBVIOUS
<1>1. obj'[p] = obj[p]
  BY DEF ObjectsInv, TypeOK
<1>2. p \in Holders(obj', b) /\ IsFiniteSet(Holders(obj', b))
  <2>1. obj'[p].state # "none" /\ obj'[p].arena = b
    BY <1>a, <1>1 DEF FreshObj
  <2> QED BY <2>1, HoldersFinite DEF Holders
<1>3. Cardinality(Holders(obj', b)) \in Nat /\ Cardinality(Holders(obj', b)) # 0
  BY <1>2, FS_CardinalityType, FS_EmptySet
<1>4. arena_refs'[b] = Cardinality(Holders(obj', b))
  BY DEF CountsOK
<1> QED BY <1>a, <1>3, <1>4

\* The last object that held an arena of a group goes, and the memory of the
\* group with it: nothing that is left was in it or points into it.
LEMMA GroupFreed ==
    ASSUME ObjectsInv, CountsOK', NEW o \in Obj, NEW a \in Arena,
           obj' = [obj EXCEPT ![o] = NoObj],
           NEW G, G = GroupOf(a), \A b \in G : arena_refs'[b] = 0,
           \A b \in Arena : b # a => arena_refs'[b] = arena_refs[b],
           cell' = [c \in Cell |-> IF cell[c].arena \in G THEN NoCell ELSE cell[c]],
           fused' = (fused \ {G}) \cup {{b} : b \in G}
    PROVE  /\ cell' \in [Cell -> CellType] /\ fused' \subseteq SUBSET Arena /\ Partition'
           /\ WrapsOK' /\ PointsOK' /\ MemoryOK'
<1>1. IsPartition(fused) /\ G = Group(fused, a)
  BY FusedFacts DEF ObjectsInv
<1>2. G \in fused /\ a \in G
  BY <1>1, GroupOfArena
<1>3. /\ IsPartition(fused')
      /\ \A x, y \in Arena : x \notin G /\ Together(fused, x, y) =>
             y \notin G /\ Together(fused', x, y)
  BY <1>1, <1>2, SplitPartition
<1>4. fused' \subseteq SUBSET Arena /\ Partition'
  BY <1>3 DEF IsPartition, Partition
<1>5. \A x, y : (\E H \in fused' : x \in H /\ y \in H) <=> Together(fused', x, y)
  BY DEF Together
<1>6. \A x, y : SameGroup(x, y) => Together(fused, x, y)
  BY DEF SameGroup, Together
<1>7. cell' \in [Cell -> CellType]
  <2>1. NoCell \in CellType
    BY DEF NoCell, NoFields, CellType, Kind
  <2> QED BY <2>1 DEF ObjectsInv, TypeOK, CellType
<1>8. /\ \A x \in Cell : cell[x].arena \notin G => cell'[x] = cell[x]
      /\ \A x \in Cell : cell'[x].arena # NULL => cell[x].arena \notin G
  BY DEF NoCell
<1>9. ASSUME NEW p \in Obj, Live(p)' PROVE Wraps(p)'
  <2>a. PICK x, b : x = Upb(p) /\ b = obj[p].arena
    OBVIOUS
  <2>1. p # o /\ obj'[p] = obj[p] /\ Live(p)
    BY <1>9 DEF ObjectsInv, TypeOK, Live, NoObj
  <2>2. /\ b \in Arena /\ x \in Cell /\ cell[x].arena \in Arena
        /\ SameGroup(b, cell[x].arena) /\ cell[x].kind = obj[p].kind /\ ~FreshObj(p)
    BY <2>a, <2>1, LiveFacts
  <2>3. arena_refs'[b] > 0
    BY <2>a, <2>1, <2>2, OthersHold
  <2>4. b \notin G
    BY <2>3
  <2>5. cell[x].arena \notin G /\ Together(fused', b, cell[x].arena)
    BY <1>3, <1>6, <2>2, <2>4
  <2>6. cell'[x] = cell[x] /\ obj'[p].upb = x /\ obj'[p].arena = b
    BY <1>8, <2>a, <2>1, <2>2, <2>5 DEF Upb
  <2> QED BY <2>1, <2>2, <2>5, <2>6, ObjectsAssumption DEF Wraps, Upb, SameGroup, Together
<1>10. ASSUME NEW x \in Cell, cell'[x].arena # NULL, NEW s \in Kind
       PROVE  Points(x, s)'
  <2>1. cell[x].arena \notin G /\ cell'[x] = cell[x] /\ cell[x].arena \in Arena
    BY <1>8, <1>10, Types DEF ObjectsInv
  <2>a. PICK d : d = cell[x].field[s]
    OBVIOUS
  <2>2. CASE d = NULL
    BY <2>1, <2>2, <2>a DEF Points
  <2>3. CASE d # NULL
    <3>1. /\ d \in Cell /\ cell[d].arena # NULL /\ SameGroup(cell[x].arena, cell[d].arena)
          /\ cell[d].kind = s
      BY <1>10, <2>1, <2>a, <2>3, Types DEF ObjectsInv, PointsOK, Points
    <3>2. cell[d].arena \in Arena
      BY <3>1, Types DEF ObjectsInv
    <3>3. cell[d].arena \notin G /\ Together(fused', cell[x].arena, cell[d].arena)
      BY <1>3, <1>6, <2>1, <3>1, <3>2
    <3>4. cell'[d] = cell[d] /\ cell'[x].field[s] = d
      BY <1>8, <2>a, <2>1, <3>1, <3>3
    <3> QED BY <2>1, <3>1, <3>3, <3>4 DEF Points, SameGroup, Together
  <2> QED BY <2>2, <2>3
<1>11. ASSUME NEW x \in Cell, cell'[x].arena # NULL
       PROVE  Referenced(x)'
  <2>1. cell[x].arena \notin G /\ cell'[x] = cell[x] /\ cell[x].arena \in Arena
    BY <1>8, <1>11, Types DEF ObjectsInv
  <2>2. PICK b \in Arena : SameGroup(cell[x].arena, b) /\ arena_refs[b] > 0
    BY <1>11, <2>1 DEF ObjectsInv, MemoryOK, Referenced
  <2>3. b \notin G /\ Together(fused', cell[x].arena, b)
    BY <1>3, <1>6, <2>1, <2>2
  <2>4. arena_refs'[b] > 0
    BY <1>2, <2>2, <2>3
  <2> QED BY <2>1, <2>3, <2>4 DEF Referenced, SameGroup, Together
<1> QED BY <1>4, <1>7, <1>9, <1>10, <1>11 DEF WrapsOK, PointsOK, MemoryOK

\* An object goes, and the group of its arena has another that is held.
LEMMA GroupKept ==
    ASSUME ObjectsInv, NEW o \in Obj, NEW a \in Arena,
           obj' = [obj EXCEPT ![o] = NoObj], UNCHANGED <<cell, fused>>,
           \A b \in Arena : b # a => arena_refs'[b] = arena_refs[b],
           \E b \in GroupOf(a) : arena_refs'[b] > 0
    PROVE  WrapsOK' /\ PointsOK' /\ MemoryOK'
<1>1. ASSUME NEW p \in Obj, Live(p)' PROVE Wraps(p)'
  <2>1. p # o /\ obj'[p] = obj[p] /\ Live(p)
    BY <1>1 DEF ObjectsInv, TypeOK, Live, NoObj
  <2>2. Wraps(p)
    BY <2>1 DEF ObjectsInv, WrapsOK
  <2> QED BY <2>1, <2>2 DEF Wraps, Upb, SameGroup
<1>2. PointsOK'
  BY DEF ObjectsInv, PointsOK, Points, SameGroup
<1>3. ASSUME NEW x \in Cell, cell'[x].arena # NULL
      PROVE  Referenced(x)'
  <2>1. PICK b \in Arena : SameGroup(cell[x].arena, b) /\ arena_refs[b] > 0
    BY <1>3 DEF ObjectsInv, MemoryOK, Referenced
  <2>2. CASE b # a
    BY <2>1, <2>2 DEF Referenced, SameGroup
  <2>3. CASE b = a
    <3>1. PICK e \in GroupOf(a) : arena_refs'[e] > 0
      OBVIOUS
    <3>2. e \in Arena
      BY <3>1 DEF GroupOf, ObjectsInv, TypeOK
    <3>3. SameGroup(a, e)
      BY <3>1, <3>2, FusedFacts, TogetherInGroup DEF ObjectsInv
    <3>4. cell[x].arena \in Arena
      BY <1>3, Types DEF ObjectsInv
    <3>5. SameGroup(cell[x].arena, e)
      BY <2>1, <2>3, <3>2, <3>3, <3>4, SameGroupEquivalence DEF ObjectsInv
    <3> QED BY <3>1, <3>2, <3>5 DEF Referenced, SameGroup
  <2> QED BY <2>2, <2>3
<1> QED BY <1>1, <1>2, <1>3 DEF WrapsOK, MemoryOK

LEMMA ReleaseInv ==
    ASSUME ObjectsInv, NEW o \in Obj, Release(o)
    PROVE  ObjectsInv'
<1>0. /\ ~FreshObj(o) /\ (Live(o) \/ obj[o].kind = "container")
      /\ php_refs' = [php_refs EXCEPT ![o] = @ - 1]
      /\ php_refs[o] \in 0 .. MaxRefs
  BY DEF Release, ObjectsInv, TypeOK
<1>1. CASE php_refs[o] > 1 /\ UNCHANGED <<obj, arena_refs, fused, cell, object_cache>>
  <2>1. php_refs[o] - 1 \in 1 .. MaxRefs /\ php_refs' = [php_refs EXCEPT ![o] = php_refs[o] - 1]
    BY <1>0, <1>1, ObjectsAssumption
  <2>2. ~FreshObj(o)
    BY <1>0
  <2> QED BY <1>1, <2>1, <2>2, RefsOnly
<1>2. CASE /\ php_refs[o] = 1 /\ ObjCache_Delete(Upb(o)) /\ ReleaseArena(obj[o].arena)
           /\ obj' = [obj EXCEPT ![o] = NoObj]
  <2>a. PICK a : a = obj[o].arena
    OBVIOUS
  <2>1. a \in Arena /\ (Live(o) \/ Upb(o) = NULL)
    <3>1. CASE Live(o)
      BY <2>a, <3>1, LiveFacts
    <3>2. CASE obj[o].state = "created" /\ obj[o].kind = "container"
      BY <2>a, <3>2, Types DEF ObjectsInv, CreatedOK
    <3>3. obj[o].state \in {"none", "created", "live"}
      BY Types DEF ObjectsInv
    <3> QED BY <1>0, <3>1, <3>2, <3>3 DEF Live, FreshObj
  <2>2. /\ obj' \in [Obj -> ObjType] /\ obj'[o].state = "none"
        /\ \A p \in Obj : p # o => obj'[p] = obj[p]
    <3>1. NoObj \in ObjType /\ NoObj.state = "none"
      BY DEF NoObj, ObjType, Kind
    <3> QED BY <1>2, <3>1 DEF ObjectsInv, TypeOK, ObjType
  <2>3. /\ arena_refs' = [arena_refs EXCEPT ![a] = @ - 1]
        /\ IF arena_refs[a] = 1 THEN FreeUpbArena(a) ELSE UNCHANGED <<cell, fused>>
    BY <1>2, <2>a, <2>1, ObjectsAssumption DEF ReleaseArena
  <2>4. CountsOK' /\ arena_refs' \in [Arena -> Nat]
    BY <1>0, <2>a, <2>1, <2>2, <2>3, CountRemoved DEF ObjectsInv
  <2>5. CacheOK'
    BY <1>2, <2>1, CacheReleased
  <2>6. object_cache' \in [Cell -> Obj \cup {NULL}]
    BY <1>2 DEF ObjCache_Delete, ObjectsInv, TypeOK
  <2>7. CreatedOK'
    BY <2>2 DEF ObjectsInv, CreatedOK, Upb
  <2>8. php_refs' \in [Obj -> 0 .. MaxRefs] /\ HeldOK'
    <3>1. php_refs'[o] = 0 /\ \A p \in Obj : p # o => php_refs'[p] = php_refs[p]
      BY <1>0, <1>2 DEF ObjectsInv, TypeOK
    <3>2. php_refs' \in [Obj -> 0 .. MaxRefs]
      BY <1>0, <3>1, ObjectsAssumption DEF ObjectsInv, TypeOK
    <3> QED BY <2>2, <3>1, <3>2 DEF ObjectsInv, HeldOK, FreshObj
  <2>9. /\ arena_refs'[a] = arena_refs[a] - 1 /\ arena_refs[a] \in Nat /\ arena_refs[a] > 0
        /\ \A b \in Arena : b # a => arena_refs'[b] = arena_refs[b]
    BY <1>0, <2>a, <2>1, <2>3, HeldArena DEF ObjectsInv, TypeOK
  <2>10. /\ cell' \in [Cell -> CellType] /\ fused' \subseteq SUBSET Arena /\ Partition'
         /\ WrapsOK' /\ PointsOK' /\ MemoryOK'
    <3>a. PICK G : G = GroupOf(a)
      OBVIOUS
    <3>0. a \in G /\ G \subseteq Arena
      BY <2>1, <3>a, FusedFacts, GroupOfArena DEF ObjectsInv, IsPartition
    <3>1. CASE arena_refs[a] = 1 /\ \A b \in G \ {a} : arena_refs[b] = 0
      <4>1. /\ cell' = [c \in Cell |-> IF cell[c].arena \in G THEN NoCell ELSE cell[c]]
            /\ fused' = (fused \ {G}) \cup {{b} : b \in G}
        BY <2>3, <3>a, <3>1 DEF FreeUpbArena
      <4>2. \A b \in G : arena_refs'[b] = 0
        BY <2>9, <3>0, <3>1
      <4> QED BY <1>2, <2>1, <2>4, <2>9, <3>a, <4>1, <4>2, GroupFreed
    <3>2. CASE ~(arena_refs[a] = 1 /\ \A b \in G \ {a} : arena_refs[b] = 0)
      <4>1. UNCHANGED <<cell, fused>>
        BY <2>3, <3>a, <3>2 DEF FreeUpbArena
      <4>2. \E b \in G : arena_refs'[b] > 0
        <5>1. CASE arena_refs[a] # 1
          BY <2>9, <3>0, <5>1
        <5>2. CASE arena_refs[a] = 1
          <6>1. PICK b \in G \ {a} : arena_refs[b] # 0
            BY <3>2, <5>2
          <6>2. b \in Arena /\ arena_refs[b] \in Nat /\ arena_refs'[b] = arena_refs[b]
            BY <2>9, <3>0, <6>1 DEF ObjectsInv, TypeOK
          <6> QED BY <6>1, <6>2
        <5> QED BY <5>1, <5>2
      <4>3. WrapsOK' /\ PointsOK' /\ MemoryOK'
        BY <1>2, <2>1, <2>9, <3>a, <4>1, <4>2, GroupKept
      <4> QED BY <4>1, <4>3 DEF ObjectsInv, TypeOK, CellType, Partition
    <3> QED BY <3>1, <3>2
  <2>11. TypeOK'
    BY <2>2, <2>4, <2>6, <2>8, <2>10 DEF TypeOK, ObjType, CellType
  <2> QED BY <2>4, <2>5, <2>7, <2>8, <2>10, <2>11 DEF ObjectsInv
<1> QED BY <1>1, <1>2 DEF Release

LEMMA StutterInv == ASSUME ObjectsInv, UNCHANGED vars PROVE ObjectsInv'
<1>1. CellsGrow
  BY DEF CellsGrow, vars, ObjectsInv, TypeOK, CellType
<1> QED BY <1>1, FieldsOnly DEF vars

----------------------------------------------------------------------------
(***************************************************************************)
(* The theorems.                                                           *)
(***************************************************************************)

LEMMA NextInv ==
    ASSUME Misuse = {}, ObjectsInv, Next
    PROVE  ObjectsInv'
<1>1. PICK o \in Obj :
        \/ Message_create(o) \/ Unset(o) \/ Clear(o) \/ Copy(o) \/ Release(o)
        \/ \E a \in Arena : Container_create(o, a)
        \/ \E a \in Arena, c \in Cell : Message_construct(o, a, c)
        \/ \E c \in Cell : Container_construct(o, c) \/ \E s \in Kind : SetNew(o, s, c)
        \/ \E w \in Obj : Set(o, w) \/ SetRejected(o, w) \/ \E s \in Kind : Get(o, s, w)
        \/ \E w \in Obj, c \in Cell : GetMutable(o, c, w) \/ Clone(o, c, w)
  BY DEF Next
<1>2. CASE Message_create(o) \/ Unset(o) \/ Clear(o) \/ Copy(o) \/ Release(o)
  BY <1>2, Message_createInv, UnsetInv, ClearInv, CopyInv, ReleaseInv
<1>3. CASE \E a \in Arena : Container_create(o, a)
  BY <1>3, Container_createInv
<1>4. CASE \E a \in Arena, c \in Cell : Message_construct(o, a, c)
  BY <1>4, Message_constructInv
<1>5. CASE \E c \in Cell : Container_construct(o, c) \/ \E s \in Kind : SetNew(o, s, c)
  BY <1>5, Container_constructInv, SetNewInv
<1>6. CASE \E w \in Obj : Set(o, w) \/ SetRejected(o, w) \/ \E s \in Kind : Get(o, s, w)
  BY <1>6, SetInv, SetRejectedInv, GetInv
<1>7. CASE \E w \in Obj, c \in Cell : GetMutable(o, c, w) \/ Clone(o, c, w)
  BY <1>7, GetMutableInv, CloneInv
<1> QED BY <1>1, <1>2, <1>3, <1>4, <1>5, <1>6, <1>7

\* Memory that is kept alive is what NothingDangles calls Kept.
LEMMA MemoryKept ==
    ASSUME ObjectsInv, NEW c \in Cell, cell[c].arena # NULL
    PROVE  Kept(c)
<1>1. PICK a \in Arena : SameGroup(cell[c].arena, a) /\ arena_refs[a] > 0
  BY DEF ObjectsInv, MemoryOK, Referenced
<1>2. cell[c].arena \in Arena
  BY Types DEF ObjectsInv
<1>3. a \in GroupOf(cell[c].arena)
  BY <1>1, <1>2, FusedFacts, TogetherInGroup DEF ObjectsInv
<1> QED BY <1>1, <1>3 DEF Kept

LEMMA InvImpliesNothingDangles == ObjectsInv => NothingDangles
<1> SUFFICES ASSUME ObjectsInv PROVE NothingDangles
  OBVIOUS
<1>1. ASSUME NEW o \in Obj, Live(o) PROVE Kept(Upb(o))
  <2>1. Upb(o) \in Cell /\ cell[Upb(o)].arena # NULL
    BY <1>1, LiveFacts, ObjectsAssumption
  <2> QED BY <2>1, MemoryKept
<1>2. ASSUME NEW c \in Cell, cell[c].arena # NULL, NEW s \in Kind, cell[c].field[s] # NULL
      PROVE  Kept(cell[c].field[s]) /\ cell[cell[c].field[s]].kind = s
  <2>1. cell[c].field[s] \in Cell
    BY <1>2, Types DEF ObjectsInv
  <2>2. /\ cell[cell[c].field[s]].arena # NULL /\ cell[cell[c].field[s]].kind = s
    BY <1>2 DEF ObjectsInv, PointsOK, Points
  <2> QED BY <2>1, <2>2, MemoryKept
<1> QED BY <1>1, <1>2, MemoryKept DEF NothingDangles

LEMMA InvImpliesNothingLeaks == ObjectsInv => NothingLeaks
<1> SUFFICES ASSUME ObjectsInv, \A o \in Obj : php_refs[o] = 0, NEW c \in Cell
             PROVE  cell[c].arena = NULL /\ object_cache[c] = NULL
  BY DEF NothingLeaks
<1>1. \A o \in Obj : obj[o].state = "none"
  BY DEF ObjectsInv, HeldOK, FreshObj
<1>2. \A a \in Arena : arena_refs[a] = 0
  <2>1. \A a \in Arena : Holders(obj, a) = {}
    BY <1>1 DEF Holders
  <2> QED BY <2>1, FS_EmptySet DEF ObjectsInv, CountsOK
<1>3. cell[c].arena = NULL
  BY <1>2 DEF ObjectsInv, MemoryOK, Referenced
<1>4. object_cache[c] = NULL
  BY <1>1 DEF ObjectsInv, CacheOK, TypeOK, Live
<1> QED BY <1>3, <1>4

LEMMA InvImpliesOwned == ObjectsInv => Owned
<1> SUFFICES ASSUME ObjectsInv PROVE Owned
  OBVIOUS
<1>1. \A a \in Arena : {o \in Obj : ~FreshObj(o) /\ obj[o].arena = a} = Holders(obj, a)
  BY DEF FreshObj, Holders
<1>2. \A a \in Arena :
          arena_refs[a] = Cardinality({o \in Obj : ~FreshObj(o) /\ obj[o].arena = a})
  BY <1>1 DEF ObjectsInv, CountsOK
<1> QED BY <1>2 DEF Owned, ObjectsInv, WrapsOK, Wraps, PointsOK, Points

\* ObjectsInv is an invariant of programs that call each constructor once
\* (Message_construct and Container_construct have no guard against a second
\* call), whatever else they do with their objects.
THEOREM ObjectsInvariant == ASSUME Misuse = {} PROVE Spec => []ObjectsInv
<1>1. ObjectsInv /\ [Next]_vars => ObjectsInv'
  BY NextInv, StutterInv
<1> QED BY <1>1, InitInv, PTL DEF Spec

\* A wrapper keeps an arena of its upb object's group, pointers stay inside a
\* group, and the reference counts of the Arena objects are exact, through every
\* upb_Arena_Fuse of a setter and every ReleaseArena of a destructor.
THEOREM ReferencesAreExact == ASSUME Misuse = {} PROVE Spec => []Owned
BY ObjectsInvariant, InvImpliesOwned, PTL

\* No upb pointer that an object or a cell has dangles, although the destructor
\* of the last holder frees a whole group of fused arenas (FreeUpbArena).
THEOREM NoPointerDangles == ASSUME Misuse = {} PROVE Spec => []NothingDangles
BY ObjectsInvariant, InvImpliesNothingDangles, PTL

\* The object cache gives every upb object at most one wrapper: a wrapper is the
\* entry ObjCache_Add made for it until ObjCache_Delete removes it.
THEOREM WrappersAreUnique == ASSUME Misuse = {} PROVE Spec => []OneWrapper
<1>1. ObjectsInv => OneWrapper
  BY DEF ObjectsInv, CacheOK
<1> QED BY <1>1, ObjectsInvariant, PTL

\* A cached wrapper wraps the address it is cached under, although addresses are
\* used again when a group of arenas is freed.
THEOREM CacheIsExact == ASSUME Misuse = {} PROVE Spec => [](CacheExact /\ CacheOnlyLive)
<1>1. ObjectsInv => CacheExact /\ CacheOnlyLive
  BY DEF ObjectsInv, CacheOK, CacheExact, CacheOnlyLive
<1> QED BY <1>1, ObjectsInvariant, PTL

\* Once PHP holds no object, the destructors have given all memory back and
\* emptied the cache.
THEOREM MemoryIsReturned == ASSUME Misuse = {} PROVE Spec => []NothingLeaks
BY ObjectsInvariant, InvImpliesNothingLeaks, PTL

============================================================================
