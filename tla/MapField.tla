------------------------------ MODULE MapField ------------------------------
(***************************************************************************)
(* upb_Map (upb/message/map.c, upb/message/internal/map.h) over the tables *)
(* of upb/hash/common.c, and the PHP classes MapField and MapFieldIter     *)
(* (php/ext/google/protobuf/map.c).  A map with integer keys is an         *)
(* inttable, an array part for small keys followed by a hash part; a map   *)
(* with string keys is a strtable, which is the same without an array      *)
(* part.  A string key is a number here, its hash a constant.              *)
(*                                                                         *)
(* One iterator, MapFieldIter, walks the map by position while the program *)
(* changes the map.  `seen', `twice' and `since' are history: the keys the *)
(* iterator stopped at since its rewind, whether it stopped at one twice,  *)
(* and what happened to the map since.  `dict' is the abstract map of      *)
(* Dictionary, which every operation changes alongside by its promise.     *)
(***************************************************************************)
EXTENDS UpbTable

CONSTANTS
    IntKeys,    \* keys of an integer map
    StrKeys,    \* keys of a string map, all different from Empty
    StrHash,    \* [StrKeys -> Nat], what _upb_Hash_NoSeed gives
    Vals,       \* values, all different from Missing
    TableSize,  \* the first size of the hash part; 8 in the code
    MaxSize     \* bound: a larger table cannot be allocated

ASSUME MapAssumption ==
    /\ IntKeys \subseteq Nat /\ 0 \in IntKeys /\ StrKeys \subseteq Nat \ {Empty}
    /\ StrHash \in [StrKeys -> Nat]
    /\ 0 \notin Vals
    /\ TableSize \in Nat \ {0} /\ TableSize \in {2 ^ l : l \in 0..30}
    /\ MaxSize \in Nat /\ TableSize <= MaxSize /\ MaxSize + 1 < End

VARIABLES
    map,    \* the upb_Map
    pos,    \* MapFieldIter::position
    seen, twice, since,
    dict

iter == <<pos, seen, twice, since>>
vars == <<map, iter, dict>>

\* What a lookup that finds nothing gives.
Missing == 0

inthash == [k \in IntKeys |-> k]
strhash == StrHash

Keys(m) == IF m.is_strtable THEN StrKeys ELSE IntKeys

-----------------------------------------------------------------------------
(* The base-table operations with the hash function of the map's kind.     *)

Find(m, k) == IF m.is_strtable THEN findentry(m.t, k, strhash)
              ELSE findentry(m.t, k, inthash)
Put(m, k, v) == IF m.is_strtable THEN insert(m.t, k, v, strhash)
                ELSE insert(m.t, k, v, inthash)
Take(m, k) == IF m.is_strtable THEN rm(m.t, k, strhash)
              ELSE rm(m.t, k, inthash)
Doubled(m) == IF m.is_strtable THEN resize(m.t, DoubledSize(m.t), strhash)
              ELSE resize(m.t, DoubledSize(m.t), inthash)

-----------------------------------------------------------------------------
(* upb_inttable; a strtable is the case of an empty array part.            *)

array_size(m) == Cardinality(DOMAIN m.array)

arrhas(m, i) == m.present[i]

\* Key 0 is kept out of the hash part by an array of at least one element.
upb_inttable_sizedinit(asize, hsize) ==
    LET last == (IF asize > 1 THEN asize ELSE 1) - 1
    IN  [is_strtable |-> FALSE,
         array       |-> [i \in 0..last |-> Missing],
         present     |-> [i \in 0..last |-> FALSE],
         t           |-> init(hsize)]

upb_strtable_init(size) ==
    [is_strtable |-> TRUE, array |-> <<>>, present |-> <<>>,
     t |-> init(size)]

_upb_Map_New(is_strtable) ==
    IF is_strtable THEN upb_strtable_init(TableSize)
    ELSE upb_inttable_sizedinit(0, TableSize)

array_count(m) == Cardinality({i \in DOMAIN m.array : arrhas(m, i)})

_upb_Map_Size(m) == m.t.count + array_count(m)

_upb_Map_Get(m, k) ==
    IF k \in DOMAIN m.array
    THEN IF arrhas(m, k) THEN m.array[k] ELSE Missing
    ELSE LET e == Find(m, k)
         IN  IF e = Null THEN Missing ELSE m.t.entries[e].val

\* upb_strtable_remove2 and upb_inttable_remove.
Remove(m, k) ==
    IF k \in DOMAIN m.array
    THEN [map     |-> [m EXCEPT !.array[k] = Missing, !.present[k] = FALSE],
          removed |-> arrhas(m, k)]
    ELSE LET taken == Take(m, k)
         IN  [map |-> [m EXCEPT !.t = taken.table], removed |-> taken.removed]

\* upb_strtable_insert and upb_inttable_insert.  `fails' names the
\* allocations that fail: "table", a larger table; "key", a string key's copy.
Insert(m, k, v, fails) ==
    LET full  == isfull(m.t)
        grown == IF full THEN [m EXCEPT !.t = Doubled(m)] ELSE m
    IN  IF k \in DOMAIN m.array
        THEN [ok |-> TRUE,
              map |-> [m EXCEPT !.array[k] = v, !.present[k] = TRUE]]
        ELSE IF full /\ ("table" \in fails \/ DoubledSize(m.t) > MaxSize)
        THEN [ok |-> FALSE, map |-> m]
        ELSE IF m.is_strtable /\ "key" \in fails
        THEN [ok |-> FALSE, map |-> grown]
        ELSE [ok |-> TRUE, map |-> [grown EXCEPT !.t = Put(grown, k, v)]]

\* A replacement is a removal followed by an insertion.  "value" fails before
\* either: a string value is copied into the arena first.
_upb_Map_Insert(m, k, v, fails) ==
    LET gone == Remove(m, k)
        done == Insert(gone.map, k, v, fails)
    IN  IF "value" \in fails THEN [map |-> m, status |-> "OutOfMemory"]
        ELSE [map |-> done.map,
              status |-> IF ~ done.ok THEN "OutOfMemory"
                         ELSE IF gone.removed THEN "Replaced" ELSE "Inserted"]

_upb_Map_Clear(m) ==
    [m EXCEPT !.array   = [i \in DOMAIN @ |-> Missing],
              !.present = [i \in DOMAIN @ |-> FALSE],
              !.t       = clear(m.t)]

-----------------------------------------------------------------------------
(* Iteration by position: array indices, then array_size + table index.    *)

Largest(a, b) == IF a > b THEN a ELSE b

\* _upb_map_next over upb_strtable_next and upb_inttable_next.
_upb_map_next(m, i) ==
    LET inArray == {j \in DOMAIN m.array : j > i /\ arrhas(m, j)}
        tab     == next(m.t, Largest(i, array_size(m) - 1) - array_size(m))
    IN  IF inArray # {} THEN Min(inArray)
        ELSE IF tab = End THEN End ELSE tab + array_size(m)

\* upb_strtable_done and upb_inttable_done.
upb_MapIterator_Done(m, i) ==
    \/ i >= array_size(m) + upb_table_size(m.t)
    \/ i \in DOMAIN m.array /\ ~ arrhas(m, i)
    \/ i >= array_size(m) /\ IsEmpty(m.t, i - array_size(m))

upb_MapIterator_Key(m, i) ==
    IF i \in DOMAIN m.array THEN i ELSE m.t.entries[i - array_size(m)].key

upb_MapIterator_Value(m, i) ==
    IF i \in DOMAIN m.array THEN m.array[i]
    ELSE m.t.entries[i - array_size(m)].val

upb_Map_SetEntryValue(m, i, v) ==
    IF i \in DOMAIN m.array THEN [m EXCEPT !.array[i] = v]
    ELSE [m EXCEPT !.t.entries[i - array_size(m)].val = v]

\* The positions at which an iteration stops.
Stops(m) == {i \in 0..(array_size(m) + m.t.mask) : ~ upb_MapIterator_Done(m, i)}

\* Misses what is at the first position.
FaultyInsertAll(m0, m) ==
    LET last == array_size(m) + upb_table_size(m.t)
        upto[n \in 1..last] ==
            IF n = 1 THEN m0
            ELSE IF n - 1 \notin Stops(m) THEN upto[n - 1]
            ELSE _upb_Map_Insert(upto[n - 1], upb_MapIterator_Key(m, n - 1),
                                 upb_MapIterator_Value(m, n - 1), {}).map
    IN  upto[last]

\* m0 after inserting m's elements in the order of an iteration.
InsertAll(m0, m) ==
    LET last == array_size(m) + upb_table_size(m.t)
        upto[n \in 0..last] ==
            IF n = 0 THEN m0
            ELSE IF n - 1 \notin Stops(m) THEN upto[n - 1]
            ELSE _upb_Map_Insert(upto[n - 1], upb_MapIterator_Key(m, n - 1),
                                 upb_MapIterator_Value(m, n - 1), {}).map
    IN  upto[last]

\* MapField_clone_obj.
MapField_clone_obj(m) == InsertAll(_upb_Map_New(m.is_strtable), m)

MapEq(m1, m2) ==
    /\ _upb_Map_Size(m1) = _upb_Map_Size(m2)
    /\ \A i \in Stops(m1) :
          _upb_Map_Get(m2, upb_MapIterator_Key(m1, i)) = upb_MapIterator_Value(m1, i)

\* At most UPB_MAXARRSIZE.
log2ceil(v) == IF v = 0 THEN 0 ELSE Min({16} \cup {l \in 0..16 : 2 ^ l >= v})

\* The array part becomes the largest power of two that is a tenth full.
upb_inttable_compact(m) ==
    LET keys       == {upb_MapIterator_Key(m, i) : i \in Stops(m)}
        upto(l)    == {k \in keys : log2ceil(k) <= l}
        dense      == {l \in 1..16 : /\ \E k \in keys : log2ceil(k) = l
                                     /\ 10 * Cardinality(upto(l)) >= 2 ^ l}
        size_lg2   == IF dense = {} THEN 0 ELSE Max(dense)
        arr_size   == Max({0} \cup {k \in keys : log2ceil(k) = size_lg2}) + 1
        hash_count == Cardinality(keys) - Cardinality(upto(size_lg2))
        hash_size  == IF hash_count = 0 THEN 0
                      ELSE hash_count + 1 + hash_count \div 7
    IN  InsertAll(upb_inttable_sizedinit(arr_size, 2 ^ log2ceil(hash_size)), m)

-----------------------------------------------------------------------------
AllKeys == IntKeys \cup StrKeys

D == INSTANCE Dictionary WITH Key <- AllKeys

Init == /\ D!DictInit
        /\ map \in {_upb_Map_New(s) : s \in BOOLEAN}
        /\ pos = 0 /\ seen = {} /\ twice = FALSE
        /\ since = "not rewound"

\* What a change of the map means for the iterator's history.
Changed(how) ==
    LET now == IF since \in {"nothing", "replaced"} /\ how = "replaced"
               THEN "replaced"
               ELSE IF since = "not rewound" THEN since ELSE "changed"
    IN  /\ since' = now
        /\ seen'  = IF now = "changed" THEN {} ELSE seen
        /\ twice' = IF now = "changed" THEN FALSE ELSE twice
        /\ UNCHANGED pos

\* MapField::offsetSet, which ignores the status of upb_Map_Set.  Without
\* memory the key may be left without a value: the removal is not undone.
offsetSet(k, v, fails) ==
    LET done == _upb_Map_Insert(map, k, v, fails)
    IN  /\ map' = done.map
        /\ \/ done.status # "OutOfMemory" /\ D!Assign(k, v)
           \/ done.status = "OutOfMemory" /\ "value" \notin fails /\ D!Drop(k)
           \/ "value" \in fails /\ UNCHANGED dict
        /\ IF done.map = map THEN UNCHANGED iter
           ELSE Changed(IF done.status = "Replaced" THEN "replaced" ELSE "changed")

\* MapField::offsetUnset.
offsetUnset(k) ==
    LET gone == Remove(map, k)
    IN  /\ map' = gone.map
        /\ D!Drop(k)
        /\ IF gone.removed THEN Changed("changed") ELSE UNCHANGED iter

Clear == /\ map' = _upb_Map_Clear(map)
         /\ D!DropAll
         /\ Changed("changed")

\* Assigns through the iterator; it moves nothing.
SetEntryValue(v) ==
    /\ ~ upb_MapIterator_Done(map, pos)
    /\ map' = upb_Map_SetEntryValue(map, pos, v)
    /\ D!Assign(upb_MapIterator_Key(map, pos), v)
    /\ UNCHANGED iter

\* The iterator stops at position i, where foreach reads key and value.
StopAt(i, before) ==
    /\ pos' = i
    /\ LET k == upb_MapIterator_Key(map, i)
           stops == i # End /\ since' # "changed"
       IN  /\ seen'  = IF stops THEN before \cup {k} ELSE before
           /\ twice' = ((stops /\ k \in before) \/ (twice /\ before # {}))

rewind ==
    /\ since' = "nothing"
    /\ StopAt(_upb_map_next(map, Begin), {})
    /\ UNCHANGED <<map, dict>>

\* MapFieldIter::next.
Advance ==
    /\ since # "not rewound" /\ pos # End
    /\ since' = since
    /\ StopAt(_upb_map_next(map, pos), seen)
    /\ UNCHANGED <<map, dict>>

\* The allocations of an assignment that can fail in this map.
Failures == {{}, {"value"}}
              \cup (IF isfull(map.t) THEN {{"table"}} ELSE {})
              \cup (IF map.is_strtable THEN {{"key"}} ELSE {})

Next ==
    \/ \E k \in Keys(map), v \in Vals, f \in Failures : offsetSet(k, v, f)
    \/ \E k \in Keys(map) : offsetUnset(k)
    \/ Clear
    \/ \E v \in Vals : SetEntryValue(v)
    \/ rewind
    \/ Advance

Spec == Init /\ [][Next]_vars

-----------------------------------------------------------------------------
(* Properties.                                                             *)

\* Whatever is inserted, replaced, removed or does not fit, and however the
\* table is resized and its chains are rearranged, upb_Map_Get finds exactly
\* what the dictionary holds.
LookupsAgree == \A k \in Keys(map) : _upb_Map_Get(map, k) = dict[k]

\* Every position an iteration can stop at, in whatever state the table is,
\* holds a real element: one that a lookup of its key finds there, once, and
\* upb_Map_Size counts exactly those (the debug check() of common.c, and the
\* promise of str_table.h for invalidated iterators).
StopsAreElements ==
    /\ \A i \in Stops(map) :
          LET k == upb_MapIterator_Key(map, i)
          IN  /\ _upb_Map_Get(map, k) = upb_MapIterator_Value(map, i)
              /\ i >= array_size(map) => Find(map, k) = i - array_size(map)
    /\ _upb_Map_Size(map) = Cardinality(Stops(map))

\* A foreach over a map that nothing was added to or removed from (values may
\* be assigned through the iterator) stops at every key exactly once.
IterationExact ==
    since = "nothing" =>
       /\ ~ twice
       /\ pos = End => seen = {k \in Keys(map) : dict[k] # Missing}

\* MapField_clone_obj, which builds a second table from an iteration of the
\* first, gives an equal map.
CloneAgrees ==
    LET c == MapField_clone_obj(map) IN MapEq(map, c) /\ MapEq(c, map)

\* So does upb_inttable_compact, which also divides the keys anew between the
\* array and the table.
CompactAgrees ==
    LET c == upb_inttable_compact(map)
    IN  ~ map.is_strtable => MapEq(map, c) /\ MapEq(c, map)

\* A copy of a map has the elements of the map.
CopiesAgree == CloneAgrees /\ CompactAgrees

\* upb/message/map.h: "If the key was inserted, then any existing iterators
\* will be invalidated", so a key that is only replaced should not disturb an
\* iteration: every key is still met exactly once.
ReplaceKeepsIterators ==
    since \in {"nothing", "replaced"} =>
       /\ ~ twice
       /\ pos = End => seen = {k \in Keys(map) : dict[k] # Missing}
=============================================================================
