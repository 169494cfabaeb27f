--------------------------- MODULE MapFieldProofs ---------------------------
(***************************************************************************)
(* Proofs about upb_Map and MapFieldIter for every set of keys and values, *)
(* every hash function and every table size: a lookup finds what the       *)
(* dictionary holds, an iteration stops at elements only, a foreach over a *)
(* map that does not change meets every key exactly once, and a clone or a *)
(* compaction has the elements of the map.                                 *)
(***************************************************************************)
EXTENDS MapField, UpbTableProofs

-----------------------------------------------------------------------------
(* upb_Map: an array part for the small keys of an integer map, key 0 at   *)
(* least, and a table.                                                     *)

HashOf(m) == IF m.is_strtable THEN strhash ELSE inthash
Small(m) == DOMAIN m.array
Hashable(m) == IF m.is_strtable THEN StrKeys ELSE IntKeys \ Small(m)

MapTyped(m) ==
    /\ m = [is_strtable |-> m.is_strtable, array |-> m.array, present |-> m.present, t |-> m.t]
    /\ m.is_strtable \in BOOLEAN
    /\ array_size(m) \in Nat /\ Small(m) = 0..(array_size(m) - 1)
    /\ m.is_strtable <=> array_size(m) = 0
    /\ m.array \in [Small(m) -> Vals \cup {Missing}]
    /\ m.present \in [Small(m) -> BOOLEAN]
    /\ \A i \in Small(m) : m.present[i] <=> m.array[i] # Missing
    /\ \A i \in Small(m) : m.present[i] => i \in Keys(m)

\* The sizes of tables: powers of two, 1 doubled any number of times.
DoublesIn(P) == 1 \in P /\ \A n \in P : 2 * n \in P
TableSizes == {n \in Nat : \A P \in SUBSET Nat : DoublesIn(P) => n \in P}

\* A map that the operations of upb/message/map.c and a compaction can build.
MapOK(m) ==
    /\ MapTyped(m)
    /\ TableOK(m.t, HashOf(m), Hashable(m), Vals)
    /\ m.t.count <= Room(m.t) /\ upb_table_size(m.t) \in TableSizes

\* A map that was not compacted has no array but for key 0, and its table was
\* allocated as MaxSize allows.
Fits(m) == array_size(m) <= 1 /\ upb_table_size(m.t) <= MaxSize

\* An operation keeps the kind and the array of a map; a new table is allocated.
Sized(t, u) == /\ upb_table_size(t) \in TableSizes
               /\ upb_table_size(t) = upb_table_size(u) \/ upb_table_size(t) <= MaxSize
Like(n, m) ==
    n.is_strtable = m.is_strtable /\ Small(n) = Small(m) /\ Sized(n.t, m.t)

LEMMA Constants ==
    /\ IntKeys \subseteq Nat /\ 0 \in IntKeys /\ StrKeys \subseteq Nat \ {Empty}
    /\ Missing \notin Vals /\ Missing = 0
    /\ TableSize \in Nat \ {0} /\ MaxSize \in Nat /\ TableSize <= MaxSize
    /\ MaxSize + 1 < End /\ End \in Nat
BY MapAssumption DEF Missing, End

LEMMA SizesDouble ==
    /\ 1 \in TableSizes /\ \A n \in TableSizes : n \in Nat /\ 2 * n \in TableSizes
    /\ \A n \in TableSizes : \A P \in SUBSET Nat : DoublesIn(P) => n \in P
BY DEF TableSizes, DoublesIn

\* Of two sizes, the larger one is at least the double of the other.
LEMMA SizesApart ==
    ASSUME NEW n \in TableSizes, NEW k \in TableSizes, n < k
    PROVE  2 * n <= k
<1> DEFINE H == {x \in Nat : x = 1 \/ \E y \in TableSizes : x = 2 * y}
           P == {x \in Nat : x >= 1 /\ \A y \in TableSizes : y <= x \/ y >= 2 * x}
<1>1. \A x \in TableSizes : x \in Nat
  BY SizesDouble
<1>2. \A x \in TableSizes : x \in H
  <2>1. H \in SUBSET Nat /\ DoublesIn(H)
    <3>1. \A x \in H : x \in TableSizes
      BY SizesDouble
    <3> QED BY <1>1, <3>1 DEF DoublesIn
  <2> HIDE DEF H
  <2> QED BY <2>1, SizesDouble
<1>3. \A x \in TableSizes : x >= 1
  <2> DEFINE L == {x \in Nat : x >= 1}
  <2>1. L \in SUBSET Nat /\ DoublesIn(L)
    BY <1>1 DEF DoublesIn
  <2>2. \A x \in TableSizes : x \in L
    BY <2>1, SizesDouble
  <2> QED BY <2>2
<1>4. 1 \in P
  <2>1. ASSUME NEW y \in TableSizes PROVE y <= 1 \/ y >= 2 * 1
    <3>1. y = 1 \/ \E z \in TableSizes : y = 2 * z
      BY <1>2
    <3> QED BY <1>1, <1>3, <3>1
  <2> QED BY <1>1, <2>1
<1>5. ASSUME NEW x \in P PROVE 2 * x \in P
  <2>1. ASSUME NEW y \in TableSizes PROVE y <= 2 * x \/ y >= 2 * (2 * x)
    <3>1. CASE y = 1
      BY <1>1, <3>1
    <3>2. CASE \E z \in TableSizes : y = 2 * z
      <4>1. PICK z \in TableSizes : y = 2 * z
        BY <3>2
      <4>2. z \in Nat /\ (z <= x \/ z >= 2 * x)
        BY <1>1
      <4> QED BY <4>1, <4>2
    <3> QED BY <1>2, <3>1, <3>2
  <2> QED BY <1>1, <2>1
<1>6. P \in SUBSET Nat /\ DoublesIn(P)
  BY <1>4, <1>5 DEF DoublesIn
<1>7. n \in P
  <2> HIDE DEF P
  <2> QED BY <1>6, SizesDouble
<1> QED BY <1>1, <1>7

\* The powers the code computes, 1 << size_lg2, are such sizes.
LEMMA PowersAreSizes == \A l \in 0..30 : 2 ^ l \in TableSizes /\ 2 ^ l \in Nat
<1>0. 1 \in TableSizes /\ \A n \in TableSizes : n \in Nat /\ 2 * n \in TableSizes
  BY SizesDouble
<1>1. 1 \in TableSizes
  BY <1>0
<1>2. 2 \in TableSizes
  BY <1>0, <1>1, SMT
<1>3. 4 \in TableSizes
  BY <1>0, <1>2, SMT
<1>4. 8 \in TableSizes
  BY <1>0, <1>3, SMT
<1>5. 16 \in TableSizes
  BY <1>0, <1>4, SMT
<1>6. 32 \in TableSizes
  BY <1>0, <1>5, SMT
<1>7. 64 \in TableSizes
  BY <1>0, <1>6, SMT
<1>8. 128 \in TableSizes
  BY <1>0, <1>7, SMT
<1>9. 256 \in TableSizes
  BY <1>0, <1>8, SMT
<1>10. 512 \in TableSizes
  BY <1>0, <1>9, SMT
<1>11. 1024 \in TableSizes
  BY <1>0, <1>10, SMT
<1>12. 2048 \in TableSizes
  BY <1>0, <1>11, SMT
<1>13. 4096 \in TableSizes
  BY <1>0, <1>12, SMT
<1>14. 8192 \in TableSizes
  BY <1>0, <1>13, SMT
<1>15. 16384 \in TableSizes
  BY <1>0, <1>14, SMT
<1>16. 32768 \in TableSizes
  BY <1>0, <1>15, SMT
<1>17. 65536 \in TableSizes
  BY <1>0, <1>16, SMT
<1>18. 131072 \in TableSizes
  BY <1>0, <1>17, SMT
<1>19. 262144 \in TableSizes
  BY <1>0, <1>18, SMT
<1>20. 524288 \in TableSizes
  BY <1>0, <1>19, SMT
<1>21. 1048576 \in TableSizes
  BY <1>0, <1>20, SMT
<1>22. 2097152 \in TableSizes
  BY <1>0, <1>21, SMT
<1>23. 4194304 \in TableSizes
  BY <1>0, <1>22, SMT
<1>24. 8388608 \in TableSizes
  BY <1>0, <1>23, SMT
<1>25. 16777216 \in TableSizes
  BY <1>0, <1>24, SMT
<1>26. 33554432 \in TableSizes
  BY <1>0, <1>25, SMT
<1>27. 67108864 \in TableSizes
  BY <1>0, <1>26, SMT
<1>28. 134217728 \in TableSizes
  BY <1>0, <1>27, SMT
<1>29. 268435456 \in TableSizes
  BY <1>0, <1>28, SMT
<1>30. 536870912 \in TableSizes
  BY <1>0, <1>29, SMT
<1>31. 1073741824 \in TableSizes
  BY <1>0, <1>30, SMT
<1> SUFFICES ASSUME NEW l \in 0..30 PROVE 2 ^ l \in TableSizes
  BY DEF TableSizes
<1>32. \/ l = 0 \/ l = 1 \/ l = 2 \/ l = 3 \/ l = 4 \/ l = 5 \/ l = 6 \/ l = 7
       \/ l = 8 \/ l = 9 \/ l = 10 \/ l = 11 \/ l = 12 \/ l = 13 \/ l = 14 \/ l = 15
       \/ l = 16 \/ l = 17 \/ l = 18 \/ l = 19 \/ l = 20 \/ l = 21 \/ l = 22 \/ l = 23
       \/ l = 24 \/ l = 25 \/ l = 26 \/ l = 27 \/ l = 28 \/ l = 29 \/ l = 30
  BY SMT
<1>33. CASE l = 0
  BY <1>1, <1>33, 2 ^ 0 = 1, SMT
<1>34. CASE l = 1
  BY <1>2, <1>34, 2 ^ 1 = 2, SMT
<1>35. CASE l = 2
  BY <1>3, <1>35, 2 ^ 2 = 4, SMT
<1>36. CASE l = 3
  BY <1>4, <1>36, 2 ^ 3 = 8, SMT
<1>37. CASE l = 4
  BY <1>5, <1>37, 2 ^ 4 = 16, SMT
<1>38. CASE l = 5
  BY <1>6, <1>38, 2 ^ 5 = 32, SMT
<1>39. CASE l = 6
  BY <1>7, <1>39, 2 ^ 6 = 64, SMT
<1>40. CASE l = 7
  BY <1>8, <1>40, 2 ^ 7 = 128, SMT
<1>41. CASE l = 8
  BY <1>9, <1>41, 2 ^ 8 = 256, SMT
<1>42. CASE l = 9
  BY <1>10, <1>42, 2 ^ 9 = 512, SMT
<1>43. CASE l = 10
  BY <1>11, <1>43, 2 ^ 10 = 1024, SMT
<1>44. CASE l = 11
  BY <1>12, <1>44, 2 ^ 11 = 2048, SMT
<1>45. CASE l = 12
  BY <1>13, <1>45, 2 ^ 12 = 4096, SMT
<1>46. CASE l = 13
  BY <1>14, <1>46, 2 ^ 13 = 8192, SMT
<1>47. CASE l = 14
  BY <1>15, <1>47, 2 ^ 14 = 16384, SMT
<1>48. CASE l = 15
  BY <1>16, <1>48, 2 ^ 15 = 32768, SMT
<1>49. CASE l = 16
  BY <1>17, <1>49, 2 ^ 16 = 65536, SMT
<1>50. CASE l = 17
  BY <1>18, <1>50, 2 ^ 17 = 131072, SMT
<1>51. CASE l = 18
  BY <1>19, <1>51, 2 ^ 18 = 262144, SMT
<1>52. CASE l = 19
  BY <1>20, <1>52, 2 ^ 19 = 524288, SMT
<1>53. CASE l = 20
  BY <1>21, <1>53, 2 ^ 20 = 1048576, SMT
<1>54. CASE l = 21
  BY <1>22, <1>54, 2 ^ 21 = 2097152, SMT
<1>55. CASE l = 22
  BY <1>23, <1>55, 2 ^ 22 = 4194304, SMT
<1>56. CASE l = 23
  BY <1>24, <1>56, 2 ^ 23 = 8388608, SMT
<1>57. CASE l = 24
  BY <1>25, <1>57, 2 ^ 24 = 16777216, SMT
<1>58. CASE l = 25
  BY <1>26, <1>58, 2 ^ 25 = 33554432, SMT
<1>59. CASE l = 26
  BY <1>27, <1>59, 2 ^ 26 = 67108864, SMT
<1>60. CASE l = 27
  BY <1>28, <1>60, 2 ^ 27 = 134217728, SMT
<1>61. CASE l = 28
  BY <1>29, <1>61, 2 ^ 28 = 268435456, SMT
<1>62. CASE l = 29
  BY <1>30, <1>62, 2 ^ 29 = 536870912, SMT
<1>63. CASE l = 30
  BY <1>31, <1>63, 2 ^ 30 = 1073741824, SMT
<1> QED
  BY <1>32, <1>33, <1>34, <1>35, <1>36, <1>37, <1>38, <1>39, <1>40, <1>41, <1>42,
     <1>43, <1>44, <1>45, <1>46, <1>47, <1>48, <1>49, <1>50, <1>51, <1>52, <1>53,
     <1>54, <1>55, <1>56, <1>57, <1>58, <1>59, <1>60, <1>61, <1>62, <1>63

LEMMA FirstSize == TableSize \in TableSizes
BY PowersAreSizes, MapAssumption

LEMMA TypedHashed == \A m : MapTyped(m) => Hashed(HashOf(m), Hashable(m))
<1> SUFFICES ASSUME NEW m, MapTyped(m) PROVE Hashed(HashOf(m), Hashable(m))
  OBVIOUS
<1>1. Hashed(strhash, StrKeys)
  BY MapAssumption DEF Hashed, strhash
<1>2. ~ m.is_strtable => 0 \in Small(m)
  BY DEF MapTyped
<1>3. ~ m.is_strtable => Hashed(inthash, IntKeys \ Small(m))
  BY <1>2, MapAssumption DEF Hashed, inthash, Empty
<1> QED BY <1>1, <1>3 DEF HashOf, Hashable

LEMMA MapHashed == \A m : MapOK(m) => Hashed(HashOf(m), Hashable(m))
BY TypedHashed DEF MapOK

LEMMA MapKeys ==
    ASSUME NEW m, MapOK(m)
    PROVE  /\ Keys(m) \subseteq Nat
           /\ \A k \in Keys(m) : k \in Small(m) \/ k \in Hashable(m)
           /\ \A k \in Hashable(m) : k \in Keys(m) /\ k \notin Small(m) /\ k # Empty /\ k # 0
<1>1. /\ array_size(m) \in Nat /\ Small(m) = 0..(array_size(m) - 1)
      /\ m.is_strtable <=> array_size(m) = 0
  BY DEF MapOK, MapTyped
<1>2. m.is_strtable => Small(m) = {}
  BY <1>1
<1>3. ~ m.is_strtable => 0 \in Small(m)
  BY <1>1
<1> QED BY <1>2, <1>3, Constants DEF Keys, Hashable, Empty

\* The base-table operations use the map's hash function.
LEMMA MapTable ==
    ASSUME NEW m, NEW k, NEW v
    PROVE  /\ Find(m, k) = findentry(m.t, k, HashOf(m))
           /\ Put(m, k, v) = insert(m.t, k, v, HashOf(m))
           /\ Take(m, k) = rm(m.t, k, HashOf(m))
           /\ Doubled(m) = resize(m.t, DoubledSize(m.t), HashOf(m))
BY DEF Find, Put, Take, Doubled, HashOf

LEMMA ArraySize ==
    ASSUME NEW m, MapTyped(m)
    PROVE  /\ DOMAIN m.array = Small(m) /\ DOMAIN m.present = Small(m)
           /\ array_size(m) \in Nat /\ (m.is_strtable <=> array_size(m) = 0)
           /\ Small(m) \subseteq Nat
           /\ \A i \in Int : i \in Small(m) <=> 0 <= i /\ i < array_size(m)
<1>1. DOMAIN m.array = Small(m) /\ DOMAIN m.present = Small(m)
  BY DEF MapTyped, Small
<1>2. /\ array_size(m) \in Nat /\ Small(m) = 0..(array_size(m) - 1)
      /\ m.is_strtable <=> array_size(m) = 0
  BY DEF MapTyped
<1> QED BY <1>1, <1>2

\* What a map and one like it have in common.
LEMMA LikeSame ==
    ASSUME NEW m, NEW n, Like(n, m)
    PROVE  /\ HashOf(n) = HashOf(m) /\ Hashable(n) = Hashable(m) /\ Keys(n) = Keys(m)
           /\ array_size(n) = array_size(m) /\ (Fits(m) => Fits(n))
BY DEF Like, Sized, HashOf, Hashable, Keys, array_size, Small, Fits

LEMMA LikeTrans ==
    ASSUME NEW m, NEW n, NEW o, Like(n, m), Like(o, n)
    PROVE  Like(o, m)
BY DEF Like, Sized

LEMMA LikeItself ==
    ASSUME NEW m, MapOK(m)
    PROVE  Like(m, m)
BY DEF Like, Sized, MapOK

LEMMA TableBounds ==
    ASSUME NEW t, t.mask \in Nat
    PROVE  /\ upb_table_size(t) \in Nat \ {0} /\ upb_table_size(t) = t.mask + 1
           /\ Room(t) \in Nat /\ Room(t) <= upb_table_size(t)
           /\ \A c \in Nat : c <= Room(t) =>
                  /\ c < DoubledSize(t)
                  /\ c < DoubledSize(t) - DoubledSize(t) \div 8
BY DEF upb_table_size, Room, DoubledSize

LEMMA CountNat ==
    ASSUME NEW t, NEW hash, NEW K, NEW V, TableOK(t, hash, K, V)
    PROVE  t.count \in Nat /\ t.mask \in Nat /\ TableTyped(t, K, V) /\ IsFiniteSet(Used(t))
<1>1. t.mask \in Nat /\ TableTyped(t, K, V) /\ t.count = Cardinality(Used(t))
  BY DEF TableOK, TableTyped
<1>2. IsFiniteSet(Used(t))
  BY <1>1, Slots, FS_Subset DEF Used
<1> QED BY <1>1, <1>2, FS_CardinalityType

\* A new map is empty, whatever the sizes of its parts.
Blanks(m) == Used(m.t) = {} /\ \A i \in Small(m) : m.array[i] = Missing

LEMMA EmptyMapOK ==
    ASSUME NEW m, NEW a \in Nat, NEW size \in TableSizes, m.is_strtable \in BOOLEAN,
           m.is_strtable <=> a = 0,
           m = [is_strtable |-> m.is_strtable, array |-> m.array, present |-> m.present,
                t |-> init(size)],
           m.array = [i \in 0..(a - 1) |-> Missing], m.present = [i \in 0..(a - 1) |-> FALSE]
    PROVE  MapOK(m) /\ Blanks(m) /\ array_size(m) = a /\ upb_table_size(m.t) = size
<1>1. m.t = init(size) /\ size \in Nat \ {0}
  <2> DEFINE P == Nat \ {0}
  <2>1. P \in SUBSET Nat /\ DoublesIn(P)
    BY DEF DoublesIn
  <2> HIDE DEF P
  <2>2. size \in P
    BY <2>1, SizesDouble
  <2> QED BY <2>2 DEF P
<1>2. Small(m) = 0..(a - 1) /\ \A i \in Small(m) : m.array[i] = Missing /\ m.present[i] = FALSE
  BY DEF Small
<1>3. array_size(m) = a
  <2> DEFINE b == a - 1
  <2>1. b \in Int /\ 0 \in Int /\ (0 > b => a = 0) /\ (~(0 > b) => b - 0 + 1 = a)
    OBVIOUS
  <2> HIDE DEF b
  <2>2. Cardinality(0..b) = a
    BY <2>1, FS_Interval
  <2> QED BY <1>2, <2>2 DEF array_size, Small, b
<1>4. MapTyped(m)
  <2>1. /\ m.array \in [Small(m) -> Vals \cup {Missing}] /\ m.present \in [Small(m) -> BOOLEAN]
    BY <1>2
  <2>2. m = [is_strtable |-> m.is_strtable, array |-> m.array, present |-> m.present, t |-> m.t]
    BY <1>1
  <2> QED BY <1>2, <1>3, <2>1, <2>2 DEF MapTyped
<1>5. /\ TableOK(m.t, HashOf(m), Hashable(m), Vals) /\ Used(m.t) = {}
      /\ m.t.mask = size - 1 /\ m.t.count = 0
  <2>1. Hashed(HashOf(m), Hashable(m))
    BY <1>4, TypedHashed
  <2> DEFINE h == HashOf(m)
             K == Hashable(m)
  <2> HIDE DEF h, K
  <2>2. /\ TableOK(init(size), h, K, Vals) /\ Used(init(size)) = {}
        /\ init(size).mask = size - 1 /\ init(size).count = 0
    BY <1>1, <2>1, InitOK DEF h, K
  <2> QED BY <1>1, <2>2 DEF h, K
<1>6. upb_table_size(m.t) = size /\ m.t.count <= Room(m.t)
  <2>1. upb_table_size(m.t) = size /\ Room(m.t) \in Nat
    BY <1>1, <1>5, TableBounds
  <2> QED BY <1>5, <2>1
<1> QED BY <1>2, <1>3, <1>4, <1>5, <1>6 DEF MapOK, Blanks

LEMMA SizedInitOK ==
    ASSUME NEW asize \in Nat, NEW size \in TableSizes, NEW m,
           m = upb_inttable_sizedinit(asize, size)
    PROVE  /\ MapOK(m) /\ Blanks(m) /\ ~ m.is_strtable /\ upb_table_size(m.t) = size
           /\ array_size(m) = IF asize > 1 THEN asize ELSE 1
<1> DEFINE a == IF asize > 1 THEN asize ELSE 1
           A == [i \in 0..(a - 1) |-> Missing]
           B == [i \in 0..(a - 1) |-> FALSE]
<1>1. m = [is_strtable |-> FALSE, array |-> A, present |-> B, t |-> init(size)]
  BY DEF upb_inttable_sizedinit
<1>2. a \in Nat /\ a # 0
  OBVIOUS
<1>3. A = [i \in 0..(a - 1) |-> Missing] /\ B = [i \in 0..(a - 1) |-> FALSE]
  OBVIOUS
<1> HIDE DEF a, A, B
<1>4. m.is_strtable = FALSE /\ m.array = A /\ m.present = B
  BY <1>1
<1>5. MapOK(m) /\ Blanks(m) /\ array_size(m) = a /\ upb_table_size(m.t) = size
  <2>1. m = [is_strtable |-> m.is_strtable, array |-> m.array, present |-> m.present,
             t |-> init(size)]
    BY <1>1, <1>4
  <2>2. /\ m.is_strtable \in BOOLEAN /\ (m.is_strtable <=> a = 0)
        /\ m.array = [i \in 0..(a - 1) |-> Missing] /\ m.present = [i \in 0..(a - 1) |-> FALSE]
    BY <1>2, <1>3, <1>4
  <2> QED BY <1>2, <2>1, <2>2, EmptyMapOK
<1> QED BY <1>4, <1>5 DEF a

LEMMA NewMapOK ==
    ASSUME NEW s \in BOOLEAN, NEW m, m = _upb_Map_New(s)
    PROVE  MapOK(m) /\ Fits(m) /\ m.is_strtable = s /\ Blanks(m)
<1>0. TableSize \in TableSizes /\ TableSize <= MaxSize
  BY FirstSize, Constants
<1>1. CASE s
  <2>1. m = [is_strtable |-> TRUE, array |-> <<>>, present |-> <<>>, t |-> init(TableSize)]
    BY <1>1 DEF _upb_Map_New, upb_strtable_init
  <2>2. m.is_strtable = TRUE /\ m.array = <<>> /\ m.present = <<>>
    BY <2>1
  <2>3. <<>> = [i \in 0..(0 - 1) |-> Missing] /\ <<>> = [i \in 0..(0 - 1) |-> FALSE]
    OBVIOUS
  <2>4. m = [is_strtable |-> m.is_strtable, array |-> m.array, present |-> m.present,
             t |-> init(TableSize)]
    BY <2>1, <2>2
  <2>5. MapOK(m) /\ Blanks(m) /\ array_size(m) = 0 /\ upb_table_size(m.t) = TableSize
    BY <1>0, <2>2, <2>3, <2>4, EmptyMapOK
  <2>6. Fits(m)
    BY <1>0, <2>5 DEF Fits
  <2>7. m.is_strtable = s
    BY <1>1, <2>2
  <2> QED BY <2>5, <2>6, <2>7
<1>2. CASE ~ s
  <2>1. m = upb_inttable_sizedinit(0, TableSize)
    BY <1>2 DEF _upb_Map_New
  <2>2. /\ MapOK(m) /\ Blanks(m) /\ ~ m.is_strtable /\ upb_table_size(m.t) = TableSize
        /\ array_size(m) = 1
    BY <1>0, <2>1, SizedInitOK
  <2>3. m.is_strtable \in BOOLEAN
    BY <2>2 DEF MapOK, MapTyped
  <2> QED BY <1>0, <1>2, <2>2, <2>3 DEF Fits
<1> QED BY <1>1, <1>2

\* What _upb_Map_Get gives: the value in the array, or the one of the table.
LEMMA GetSmall ==
    ASSUME NEW m, MapTyped(m), NEW k \in Small(m)
    PROVE  _upb_Map_Get(m, k) = m.array[k] /\ (m.present[k] <=> m.array[k] # Missing)
<1>1. k \in DOMAIN m.array
  BY ArraySize
<1> QED BY <1>1 DEF _upb_Map_Get, arrhas, MapTyped

LEMMA GetFound ==
    ASSUME NEW m, MapOK(m), NEW x \in Used(m.t)
    PROVE  /\ m.t.entries[x].key \in Hashable(m) /\ m.t.entries[x].val \in Vals
           /\ Find(m, m.t.entries[x].key) = x
           /\ _upb_Map_Get(m, m.t.entries[x].key) = m.t.entries[x].val
<1> DEFINE k == m.t.entries[x].key
<1>1. TableOK(m.t, HashOf(m), Hashable(m), Vals) /\ MapTyped(m)
      /\ Hashed(HashOf(m), Hashable(m)) /\ TableTyped(m.t, Hashable(m), Vals)
  BY MapHashed DEF MapOK, TableOK
<1>2. k \in Hashable(m) /\ m.t.entries[x].val \in Vals
  <2>1. x \in Slot(m.t) /\ k # Empty
    BY DEF Used, IsEmpty
  <2>2. k \in Hashable(m) \cup {Empty}
    BY <1>1, <2>1, TableFields
  <2> QED BY <1>1, <2>1, <2>2 DEF TableTyped
<1>3. findentry(m.t, k, HashOf(m)) = x
  <2> HIDE DEF k
  <2>1. m.t.entries[x].key = k
    BY DEF k
  <2> QED BY <1>1, <1>2, <2>1, FindEntry
<1>4. Find(m, k) = x
  BY <1>3, MapTable
<1>5. k \notin DOMAIN m.array
  BY <1>1, <1>2, ArraySize, MapKeys
<1>6. x # Null
  BY <1>1, Slots DEF Used, TableTyped
<1> QED BY <1>2, <1>4, <1>5, <1>6 DEF _upb_Map_Get

LEMMA GetMissing ==
    ASSUME NEW m, MapOK(m), NEW k \in Hashable(m), \A x \in Used(m.t) : m.t.entries[x].key # k
    PROVE  _upb_Map_Get(m, k) = Missing
<1>1. TableOK(m.t, HashOf(m), Hashable(m), Vals) /\ MapTyped(m)
      /\ Hashed(HashOf(m), Hashable(m))
  BY MapHashed DEF MapOK
<1>2. findentry(m.t, k, HashOf(m)) = Null
  BY <1>1, FindEntry
<1>3. k \notin DOMAIN m.array
  BY <1>1, ArraySize, MapKeys
<1> QED BY <1>2, <1>3, MapTable DEF _upb_Map_Get

LEMMA GetHolds ==
    ASSUME NEW m, MapOK(m), NEW k \in Hashable(m)
    PROVE  /\ \A v \in Vals : Holds(m.t, k, v) <=> _upb_Map_Get(m, k) = v
           /\ _upb_Map_Get(m, k) \in Vals \cup {Missing}
           /\ _upb_Map_Get(m, k) = Missing <=> \A x \in Slot(m.t) : m.t.entries[x].key # k
<1>1. k # Empty
  BY MapKeys
<1>2. CASE \E x \in Slot(m.t) : m.t.entries[x].key = k
  <2>1. PICK x \in Slot(m.t) : m.t.entries[x].key = k
    BY <1>2
  <2>2. x \in Used(m.t)
    BY <1>1, <2>1 DEF Used, IsEmpty
  <2>3. m.t.entries[x].val \in Vals /\ _upb_Map_Get(m, k) = m.t.entries[x].val
    BY <2>1, <2>2, GetFound
  <2>4. ASSUME NEW v \in Vals, Holds(m.t, k, v) PROVE _upb_Map_Get(m, k) = v
    <3>1. PICK y \in Slot(m.t) : m.t.entries[y].key = k /\ m.t.entries[y].val = v
      BY <2>4 DEF Holds
    <3>2. y \in Used(m.t)
      BY <1>1, <3>1 DEF Used, IsEmpty
    <3> QED BY <3>1, <3>2, GetFound
  <2>5. Holds(m.t, k, m.t.entries[x].val)
    BY <2>1 DEF Holds
  <2> QED BY <2>1, <2>3, <2>4, <2>5, Constants
<1>3. CASE \A x \in Slot(m.t) : m.t.entries[x].key # k
  <2>1. _upb_Map_Get(m, k) = Missing
    BY <1>3, GetMissing DEF Used
  <2> QED BY <1>3, <2>1, Constants DEF Holds
<1> QED BY <1>2, <1>3

\* Two maps whose tables hold the same under a key give the same value.
LEMMA GetSame ==
    ASSUME NEW m, MapOK(m), NEW n, MapOK(n), NEW k \in Hashable(m), k \in Hashable(n),
           \A v \in Vals : Holds(n.t, k, v) <=> Holds(m.t, k, v)
    PROVE  _upb_Map_Get(n, k) = _upb_Map_Get(m, k)
<1>1. _upb_Map_Get(m, k) \in Vals \cup {Missing} /\ _upb_Map_Get(n, k) \in Vals \cup {Missing}
  BY GetHolds
<1>2. \A v \in Vals : _upb_Map_Get(n, k) = v <=> _upb_Map_Get(m, k) = v
  BY GetHolds
<1> QED BY <1>1, <1>2

\* A map with another table, or with another array.
LEMMA WithTable ==
    ASSUME NEW m, MapTyped(m), NEW t, NEW n, n = [m EXCEPT !.t = t]
    PROVE  /\ MapTyped(n) /\ n.is_strtable = m.is_strtable /\ n.t = t
           /\ n.array = m.array /\ n.present = m.present
           /\ HashOf(n) = HashOf(m) /\ Hashable(n) = Hashable(m) /\ Small(n) = Small(m)
           /\ Keys(n) = Keys(m) /\ array_size(n) = array_size(m)
<1>1. n = [is_strtable |-> m.is_strtable, array |-> m.array, present |-> m.present, t |-> t]
  BY DEF MapTyped
<1>2. n.is_strtable = m.is_strtable /\ n.t = t /\ n.array = m.array /\ n.present = m.present
  BY <1>1
<1>3. HashOf(n) = HashOf(m) /\ Hashable(n) = Hashable(m) /\ Small(n) = Small(m)
      /\ Keys(n) = Keys(m) /\ array_size(n) = array_size(m)
  BY <1>2 DEF HashOf, Hashable, Small, Keys, array_size
<1>4. MapTyped(n)
  BY <1>1, <1>2, <1>3 DEF MapTyped
<1> QED BY <1>2, <1>3, <1>4

LEMMA WithTableGet ==
    ASSUME NEW m, MapOK(m), NEW t, NEW n, n = [m EXCEPT !.t = t],
           TableOK(t, HashOf(m), Hashable(m), Vals),
           t.count <= Room(t), Sized(t, m.t)
    PROVE  /\ MapOK(n) /\ Like(n, m)
           /\ \A k \in Small(m) : _upb_Map_Get(n, k) = _upb_Map_Get(m, k)
<1>1. /\ MapTyped(m) /\ MapTyped(n) /\ n.is_strtable = m.is_strtable /\ n.t = t
      /\ n.array = m.array /\ HashOf(n) = HashOf(m) /\ Hashable(n) = Hashable(m)
      /\ Small(n) = Small(m)
  BY WithTable DEF MapOK
<1>2. MapOK(n) /\ Like(n, m)
  BY <1>1 DEF MapOK, Like, Sized
<1>3. ASSUME NEW k \in Small(m) PROVE _upb_Map_Get(n, k) = _upb_Map_Get(m, k)
  <2>1. k \in Small(n)
    BY <1>1
  <2>2. _upb_Map_Get(n, k) = n.array[k]
    BY <1>1, <2>1, GetSmall
  <2>3. _upb_Map_Get(m, k) = m.array[k]
    BY <1>1, GetSmall
  <2> QED BY <1>1, <2>2, <2>3
<1> QED BY <1>1, <1>2, <1>3

LEMMA WithArray ==
    ASSUME NEW m, MapOK(m), NEW a \in [Small(m) -> Vals \cup {Missing}],
           \A i \in Small(m) : a[i] # Missing => i \in Keys(m), NEW n,
           n = [is_strtable |-> m.is_strtable, array |-> a,
                present |-> [i \in Small(m) |-> a[i] # Missing], t |-> m.t]
    PROVE  /\ MapOK(n) /\ Like(n, m) /\ n.t = m.t /\ n.array = a
           /\ \A k \in Small(m) : _upb_Map_Get(n, k) = a[k]
           /\ \A k \in Hashable(m) : _upb_Map_Get(n, k) = _upb_Map_Get(m, k)
<1> DEFINE p == [i \in Small(m) |-> a[i] # Missing]
<1>0. p \in [Small(m) -> BOOLEAN] /\ \A i \in Small(m) : p[i] <=> a[i] # Missing
  OBVIOUS
<1>1. n = [is_strtable |-> m.is_strtable, array |-> a, present |-> p, t |-> m.t]
  OBVIOUS
<1> HIDE DEF p
<1>2. n.is_strtable = m.is_strtable /\ n.t = m.t /\ n.array = a /\ n.present = p
  BY <1>1
<1>3. /\ HashOf(n) = HashOf(m) /\ Hashable(n) = Hashable(m) /\ Small(n) = Small(m)
      /\ Keys(n) = Keys(m) /\ array_size(n) = array_size(m)
  BY <1>2 DEF HashOf, Hashable, Small, Keys, array_size
<1>4. MapTyped(n)
  <2>1. n = [is_strtable |-> n.is_strtable, array |-> n.array, present |-> n.present, t |-> n.t]
    BY <1>1, <1>2
  <2>2. /\ n.array \in [Small(n) -> Vals \cup {Missing}] /\ n.present \in [Small(n) -> BOOLEAN]
        /\ \A i \in Small(n) : n.present[i] <=> n.array[i] # Missing
        /\ \A i \in Small(n) : n.present[i] => i \in Keys(n)
    BY <1>0, <1>2, <1>3
  <2> QED BY <1>2, <1>3, <2>1, <2>2 DEF MapOK, MapTyped
<1>5. MapOK(n) /\ Like(n, m)
  BY <1>2, <1>3, <1>4 DEF MapOK, Like, Sized
<1>6. ASSUME NEW k \in Hashable(m) PROVE _upb_Map_Get(n, k) = _upb_Map_Get(m, k)
  <2>1. k \in Hashable(n) /\ \A v \in Vals : Holds(n.t, k, v) <=> Holds(m.t, k, v)
    BY <1>2, <1>3
  <2> QED BY <1>5, <2>1, GetSame
<1>7. ASSUME NEW k \in Small(m) PROVE _upb_Map_Get(n, k) = a[k]
  <2>1. k \in Small(n)
    BY <1>3
  <2>2. _upb_Map_Get(n, k) = n.array[k]
    BY <1>4, <2>1, GetSmall
  <2> QED BY <1>2, <2>2
<1> QED BY <1>2, <1>5, <1>6, <1>7

-----------------------------------------------------------------------------
(* The operations of upb_Map.                                              *)

\* What a map holds under its keys, after key k was given the value v.
Gives(n, m, k, v) ==
    \A i \in Keys(m) : _upb_Map_Get(n, i) = IF i = k THEN v ELSE _upb_Map_Get(m, i)

GivesSame(n, m) == \A i \in Keys(m) : _upb_Map_Get(n, i) = _upb_Map_Get(m, i)

LEMMA ArrayPut ==
    ASSUME NEW m, MapOK(m), NEW k \in Small(m), k \in Keys(m),
           NEW v \in Vals \cup {Missing}, NEW n,
           n = [is_strtable |-> m.is_strtable, array |-> [m.array EXCEPT ![k] = v],
                present |-> [m.present EXCEPT ![k] = (v # Missing)], t |-> m.t]
    PROVE  /\ MapOK(n) /\ Like(n, m) /\ Gives(n, m, k, v)
           /\ v = m.array[k] => n = m
<1> DEFINE a == [m.array EXCEPT ![k] = v]
           q == [m.present EXCEPT ![k] = (v # Missing)]
           p == [i \in Small(m) |-> a[i] # Missing]
<1>1. MapTyped(m)
  BY DEF MapOK
<1>2. n = [is_strtable |-> m.is_strtable, array |-> a, present |-> q, t |-> m.t]
  OBVIOUS
<1>3. /\ a \in [Small(m) -> Vals \cup {Missing}] /\ q \in [Small(m) -> BOOLEAN]
      /\ \A i \in Small(m) : a[i] = IF i = k THEN v ELSE m.array[i]
      /\ \A i \in Small(m) : q[i] = IF i = k THEN (v # Missing) ELSE m.present[i]
      /\ \A i \in Small(m) : q[i] <=> a[i] # Missing
  BY <1>1 DEF MapTyped
<1>4. q = p
  <2>1. \A i \in Small(m) : q[i] = (a[i] # Missing)
    <3> HIDE DEF a, q
    <3> QED BY <1>3
  <2> HIDE DEF q
  <2> QED BY <1>3, <2>1
<1>5. v = m.array[k] => n = m
  <2> SUFFICES ASSUME v = m.array[k] PROVE n = m
    OBVIOUS
  <2>1. (v # Missing) = m.present[k]
    BY <1>1 DEF MapTyped
  <2>2. a = m.array /\ q = m.present
    BY <1>1, <1>3, <2>1 DEF MapTyped
  <2> HIDE DEF a, q
  <2> QED BY <1>1, <1>2, <2>2 DEF MapTyped
<1>6. n = [is_strtable |-> m.is_strtable, array |-> a, present |-> p, t |-> m.t]
  <2> HIDE DEF a, p, q
  <2> QED BY <1>2, <1>4
<1>7. /\ MapOK(n) /\ Like(n, m)
      /\ \A i \in Small(m) : _upb_Map_Get(n, i) = a[i]
      /\ \A i \in Hashable(m) : _upb_Map_Get(n, i) = _upb_Map_Get(m, i)
  <2>1. a \in [Small(m) -> Vals \cup {Missing}]
        /\ \A i \in Small(m) : a[i] # Missing => i \in Keys(m)
    BY <1>1, <1>3 DEF MapTyped
  <2> HIDE DEF a
  <2> QED BY <1>6, <2>1, WithArray
<1> HIDE DEF a, p, q
<1>8. Gives(n, m, k, v)
  <2> SUFFICES ASSUME NEW i \in Keys(m)
               PROVE  _upb_Map_Get(n, i) = IF i = k THEN v ELSE _upb_Map_Get(m, i)
    BY DEF Gives
  <2>1. CASE i \in Small(m)
    BY <1>1, <1>3, <1>7, <2>1, GetSmall
  <2>2. CASE i \in Hashable(m)
    BY <1>7, <2>2, MapKeys
  <2> QED BY <2>1, <2>2, MapKeys
<1> QED BY <1>5, <1>7, <1>8

\* Removal: the key is missing afterwards, and nothing else changed.
LEMMA RemoveOK ==
    ASSUME NEW m, MapOK(m), NEW k \in Keys(m)
    PROVE  /\ MapOK(Remove(m, k).map) /\ Like(Remove(m, k).map, m)
           /\ Gives(Remove(m, k).map, m, k, Missing)
           /\ Remove(m, k).removed \in BOOLEAN
           /\ ~ Remove(m, k).removed => Remove(m, k).map = m
<1> DEFINE n == Remove(m, k).map
<1>1. MapTyped(m) /\ DOMAIN m.array = Small(m)
      /\ TableOK(m.t, HashOf(m), Hashable(m), Vals) /\ Hashed(HashOf(m), Hashable(m))
      /\ m.t.count <= Room(m.t) /\ upb_table_size(m.t) \in TableSizes
  BY ArraySize, MapHashed DEF MapOK
<1>2. CASE k \in Small(m)
  <2>1. /\ n = [is_strtable |-> m.is_strtable, array |-> [m.array EXCEPT ![k] = Missing],
               present |-> [m.present EXCEPT ![k] = FALSE], t |-> m.t]
        /\ Remove(m, k).removed = m.present[k]
    <3>1. /\ n = [m EXCEPT !.array[k] = Missing, !.present[k] = FALSE]
          /\ Remove(m, k).removed = m.present[k]
      BY <1>1, <1>2 DEF Remove, arrhas
    <3> HIDE DEF n
    <3> QED BY <1>1, <3>1 DEF MapTyped
  <2>2. m.present[k] \in BOOLEAN /\ (~ m.present[k] => m.array[k] = Missing)
    BY <1>1, <1>2 DEF MapTyped
  <2> HIDE DEF n
  <2>3. /\ MapOK(n) /\ Like(n, m) /\ Gives(n, m, k, Missing)
        /\ Missing = m.array[k] => n = m
    <3>1. n = [is_strtable |-> m.is_strtable, array |-> [m.array EXCEPT ![k] = Missing],
               present |-> [m.present EXCEPT ![k] = (Missing # Missing)], t |-> m.t]
      BY <2>1
    <3> QED BY <1>2, <3>1, ArrayPut
  <2> QED BY <2>1, <2>2, <2>3 DEF n
<1>3. CASE k \notin Small(m)
  <2> DEFINE r == rm(m.t, k, HashOf(m))
  <2>1. k \in Hashable(m)
    BY <1>3, MapKeys
  <2>2. n = [m EXCEPT !.t = r.table] /\ Remove(m, k).removed = r.removed
    BY <1>1, <1>3, MapTable DEF Remove
  <2>3. CASE \A x \in Slot(m.t) : m.t.entries[x].key # k
    <3>1. r = [table |-> m.t, removed |-> FALSE]
      BY <1>1, <2>1, <2>3, RmNothing
    <3>2. n = m
      BY <1>1, <2>2, <3>1 DEF MapTyped
    <3>3. _upb_Map_Get(m, k) = Missing
      BY <2>1, <2>3, GetHolds
    <3>4. Gives(n, m, k, Missing)
      BY <3>2, <3>3 DEF Gives
    <3> QED BY <2>2, <3>1, <3>2, <3>4, LikeItself
  <2>4. CASE \E x \in Slot(m.t) : m.t.entries[x].key = k
    <3>1. PICK x \in Slot(m.t) : m.t.entries[x].key = k
      BY <2>4
    <3>2. /\ r.removed /\ TableOK(r.table, HashOf(m), Hashable(m), Vals)
          /\ r.table.mask = m.t.mask /\ r.table.count = m.t.count - 1
          /\ \A i \in Hashable(m), w \in Vals : Holds(r.table, i, w) <=> Holds(m.t, i, w) /\ i # k
      BY <1>1, <2>1, <3>1, RmOK
    <3> HIDE DEF r, n
    <3>3. r.table.count <= Room(r.table) /\ Sized(r.table, m.t)
      <4>1. Room(r.table) = Room(m.t) /\ upb_table_size(r.table) = upb_table_size(m.t)
        BY <3>2 DEF Room, upb_table_size
      <4>2. m.t.count \in Nat /\ Room(m.t) \in Nat
        BY <1>1, CountNat, TableBounds
      <4> QED BY <1>1, <3>2, <4>1, <4>2 DEF Sized
    <3>4. /\ MapOK(n) /\ Like(n, m)
          /\ \A i \in Small(m) : _upb_Map_Get(n, i) = _upb_Map_Get(m, i)
      BY <2>2, <3>2, <3>3, WithTableGet
    <3>5. n.t = r.table /\ Hashable(n) = Hashable(m)
      BY <1>1, <2>2, WithTable
    <3>6. Gives(n, m, k, Missing)
      <4> SUFFICES ASSUME NEW i \in Keys(m)
                   PROVE  _upb_Map_Get(n, i) = IF i = k THEN Missing ELSE _upb_Map_Get(m, i)
        BY DEF Gives
      <4>1. CASE i \in Small(m)
        BY <1>3, <3>4, <4>1
      <4>2. CASE i \in Hashable(m) /\ i # k
        <5>1. \A v \in Vals : Holds(n.t, i, v) <=> Holds(m.t, i, v)
          BY <3>2, <3>5, <4>2
        <5> QED BY <3>4, <3>5, <4>2, <5>1, GetSame
      <4>3. CASE i = k
        <5>1. \A v \in Vals : ~ Holds(n.t, k, v)
          BY <2>1, <3>2, <3>5
        <5>2. _upb_Map_Get(n, k) = Missing
          BY <2>1, <3>4, <3>5, <5>1, GetHolds
        <5> QED BY <4>3, <5>2
      <4> QED BY <4>1, <4>2, <4>3, MapKeys
    <3> QED BY <2>2, <3>2, <3>4, <3>6 DEF n
  <2> QED BY <2>3, <2>4
<1> QED BY <1>2, <1>3

\* A table twice as large holds the same.
LEMMA DoubledOK ==
    ASSUME NEW m, MapOK(m), DoubledSize(m.t) <= MaxSize, NEW n, n = [m EXCEPT !.t = Doubled(m)]
    PROVE  /\ MapOK(n) /\ Like(n, m) /\ GivesSame(n, m)
           /\ n.t.count < Room(n.t)
<1> DEFINE t == resize(m.t, DoubledSize(m.t), HashOf(m))
<1>1. MapTyped(m) /\ TableOK(m.t, HashOf(m), Hashable(m), Vals)
      /\ Hashed(HashOf(m), Hashable(m)) /\ m.t.count <= Room(m.t)
      /\ m.t.count \in Nat /\ m.t.mask \in Nat
  BY MapHashed, CountNat DEF MapOK
<1>2. m.t.count < DoubledSize(m.t) /\ DoubledSize(m.t) \in Nat \ {0}
      /\ m.t.count < DoubledSize(m.t) - DoubledSize(m.t) \div 8
  BY <1>1, TableBounds DEF DoubledSize
<1>3. n = [m EXCEPT !.t = t]
  BY MapTable
<1>4. /\ TableOK(t, HashOf(m), Hashable(m), Vals) /\ t.mask = DoubledSize(m.t) - 1
      /\ t.count = m.t.count
      /\ \A i \in Hashable(m), w \in Vals : Holds(t, i, w) <=> Holds(m.t, i, w)
  BY <1>1, <1>2, ResizeOK
<1> HIDE DEF t
<1>5. upb_table_size(t) = DoubledSize(m.t) /\ Room(t) \in Nat /\ t.count < Room(t)
      /\ t.count <= Room(t) /\ Sized(t, m.t)
  <2>1. upb_table_size(t) = DoubledSize(m.t)
    BY <1>2, <1>4 DEF upb_table_size
  <2>2. Room(t) = DoubledSize(m.t) - DoubledSize(m.t) \div 8 /\ Room(t) \in Nat
    BY <1>2, <2>1 DEF Room
  <2>3. Sized(t, m.t)
    BY <2>1, SizesDouble DEF MapOK, Sized, DoubledSize
  <2> QED BY <1>1, <1>2, <1>4, <2>1, <2>2, <2>3
<1>6. /\ MapOK(n) /\ Like(n, m)
      /\ \A i \in Small(m) : _upb_Map_Get(n, i) = _upb_Map_Get(m, i)
  BY <1>3, <1>4, <1>5, WithTableGet
<1>7. n.t = t /\ Hashable(n) = Hashable(m)
  BY <1>1, <1>3, WithTable
<1>8. GivesSame(n, m)
  <2> SUFFICES ASSUME NEW i \in Keys(m) PROVE _upb_Map_Get(n, i) = _upb_Map_Get(m, i)
    BY DEF GivesSame
  <2>1. CASE i \in Small(m)
    BY <1>6, <2>1
  <2>2. CASE i \in Hashable(m)
    <3>1. \A v \in Vals : Holds(n.t, i, v) <=> Holds(m.t, i, v)
      BY <1>4, <1>7, <2>2
    <3> QED BY <1>6, <1>7, <2>2, <3>1, GetSame
  <2> QED BY <2>1, <2>2, MapKeys
<1> QED BY <1>5, <1>6, <1>7, <1>8

\* A key that is missing is put into a table with room for it.
LEMMA PutOK ==
    ASSUME NEW m, MapOK(m), m.t.count < Room(m.t), NEW k \in Hashable(m),
           _upb_Map_Get(m, k) = Missing, NEW v \in Vals, NEW n, n = [m EXCEPT !.t = Put(m, k, v)]
    PROVE  MapOK(n) /\ Like(n, m) /\ Gives(n, m, k, v)
<1> DEFINE t == insert(m.t, k, v, HashOf(m))
<1>1. MapTyped(m) /\ TableOK(m.t, HashOf(m), Hashable(m), Vals)
      /\ Hashed(HashOf(m), Hashable(m)) /\ upb_table_size(m.t) \in TableSizes
      /\ m.t.count \in Nat /\ m.t.mask \in Nat
  BY MapHashed, CountNat DEF MapOK
<1>2. m.t.count < upb_table_size(m.t) /\ Room(m.t) \in Nat
  <2>1. Room(m.t) \in Nat /\ Room(m.t) <= upb_table_size(m.t) /\ upb_table_size(m.t) \in Nat
    BY <1>1, TableBounds
  <2> QED BY <1>1, <2>1
<1>3. n = [m EXCEPT !.t = t]
  BY MapTable
<1>4. \A x \in Slot(m.t) : m.t.entries[x].key # k
  BY GetHolds
<1>5. /\ TableOK(t, HashOf(m), Hashable(m), Vals) /\ t.mask = m.t.mask
      /\ t.count = m.t.count + 1
      /\ \A i \in Hashable(m), w \in Vals : Holds(t, i, w) <=>
                                               Holds(m.t, i, w) \/ (i = k /\ w = v)
  BY <1>1, <1>2, <1>4, InsertOK
<1> HIDE DEF t
<1>6. t.count <= Room(t) /\ Sized(t, m.t)
  <2>1. Room(t) = Room(m.t) /\ upb_table_size(t) = upb_table_size(m.t)
    BY <1>5 DEF Room, upb_table_size
  <2> QED BY <1>1, <1>2, <1>5, <2>1 DEF Sized
<1>7. /\ MapOK(n) /\ Like(n, m)
      /\ \A i \in Small(m) : _upb_Map_Get(n, i) = _upb_Map_Get(m, i)
  BY <1>3, <1>5, <1>6, WithTableGet
<1>8. n.t = t /\ Hashable(n) = Hashable(m)
  BY <1>1, <1>3, WithTable
<1>9. Gives(n, m, k, v)
  <2> SUFFICES ASSUME NEW i \in Keys(m)
               PROVE  _upb_Map_Get(n, i) = IF i = k THEN v ELSE _upb_Map_Get(m, i)
    BY DEF Gives
  <2>1. CASE i \in Small(m)
    BY <1>7, <2>1, MapKeys
  <2>2. CASE i \in Hashable(m) /\ i # k
    <3>1. \A w \in Vals : Holds(n.t, i, w) <=> Holds(m.t, i, w)
      BY <1>5, <1>8, <2>2
    <3> QED BY <1>7, <1>8, <2>2, <3>1, GetSame
  <2>3. CASE i = k
    <3>1. Holds(n.t, k, v)
      BY <1>5, <1>8
    <3>2. _upb_Map_Get(n, k) = v
      BY <1>7, <1>8, <3>1, GetHolds
    <3> QED BY <2>3, <3>2
  <2> QED BY <2>1, <2>2, <2>3, MapKeys
<1> QED BY <1>7, <1>9

\* Insertion of a missing key: it is there afterwards, or there was no memory;
\* nothing else changed either way.
LEMMA MapInsertNew ==
    ASSUME NEW m, MapOK(m), NEW k \in Keys(m), _upb_Map_Get(m, k) = Missing,
           NEW v \in Vals, NEW fails
    PROVE  /\ MapOK(Insert(m, k, v, fails).map)
           /\ Like(Insert(m, k, v, fails).map, m)
           /\ Insert(m, k, v, fails).ok \in BOOLEAN
           /\ Insert(m, k, v, fails).ok => Gives(Insert(m, k, v, fails).map, m, k, v)
           /\ ~ Insert(m, k, v, fails).ok => GivesSame(Insert(m, k, v, fails).map, m)
<1> DEFINE full == isfull(m.t)
           grown == IF full THEN [m EXCEPT !.t = Doubled(m)] ELSE m
           r == Insert(m, k, v, fails)
<1>1. MapTyped(m) /\ DOMAIN m.array = Small(m) /\ m.t.count <= Room(m.t)
      /\ m.t.count \in Nat /\ m.t.mask \in Nat
  BY ArraySize, CountNat DEF MapOK
<1>2. GivesSame(m, m)
  BY DEF GivesSame
<1>3. CASE k \in Small(m)
  <2>1. r.ok /\ r.map = [is_strtable |-> m.is_strtable, array |-> [m.array EXCEPT ![k] = v],
                         present |-> [m.present EXCEPT ![k] = TRUE], t |-> m.t]
    <3>1. r = [ok |-> TRUE, map |-> [m EXCEPT !.array[k] = v, !.present[k] = TRUE]]
      BY <1>1, <1>3 DEF Insert
    <3>2. r.ok = TRUE /\ r.map = [m EXCEPT !.array[k] = v, !.present[k] = TRUE]
      BY <3>1
    <3> HIDE DEF r
    <3> QED BY <1>1, <3>2 DEF MapTyped
  <2>2. r.ok = TRUE
    BY <1>1, <1>3 DEF Insert
  <2> HIDE DEF r
  <2>3. v # Missing
    BY Constants
  <2>4. r.map = [is_strtable |-> m.is_strtable, array |-> [m.array EXCEPT ![k] = v],
                 present |-> [m.present EXCEPT ![k] = (v # Missing)], t |-> m.t]
    BY <2>1, <2>3
  <2>5. MapOK(r.map) /\ Like(r.map, m) /\ Gives(r.map, m, k, v)
    BY <1>3, <2>4, ArrayPut
  <2> QED BY <2>2, <2>5 DEF r
<1>4. CASE k \notin Small(m) /\ full /\ ("table" \in fails \/ DoubledSize(m.t) > MaxSize)
  <2>1. r = [ok |-> FALSE, map |-> m]
    BY <1>1, <1>4 DEF Insert
  <2>2. r.ok = FALSE /\ r.map = m
    BY <2>1
  <2> HIDE DEF r
  <2> QED BY <1>2, <2>2, LikeItself DEF r
<1>5. CASE k \notin Small(m) /\ ~(full /\ ("table" \in fails \/ DoubledSize(m.t) > MaxSize))
  <2>1. MapOK(grown) /\ Like(grown, m) /\ GivesSame(grown, m)
        /\ grown.t.count < Room(grown.t)
    <3>1. CASE full
      <4>1. DoubledSize(m.t) <= MaxSize
        <5>1. DoubledSize(m.t) \in Nat /\ MaxSize \in Nat
          BY <1>1, Constants DEF DoubledSize, upb_table_size
        <5> QED BY <1>5, <3>1, <5>1
      <4>2. grown = [m EXCEPT !.t = Doubled(m)]
        BY <3>1
      <4> HIDE DEF grown
      <4> QED BY <4>1, <4>2, DoubledOK
    <3>2. CASE ~ full
      <4>1. Room(m.t) \in Nat
        BY <1>1, TableBounds
      <4>2. m.t.count # Room(m.t)
        BY <3>2 DEF isfull, Room
      <4> QED BY <1>1, <1>2, <3>2, <4>1, <4>2, LikeItself
    <3> QED BY <3>1, <3>2
  <2>2. Keys(grown) = Keys(m) /\ k \in Hashable(grown) /\ _upb_Map_Get(grown, k) = Missing
    <3>1. Keys(grown) = Keys(m) /\ Hashable(grown) = Hashable(m)
      <4> HIDE DEF grown
      <4> QED BY <2>1, LikeSame
    <3>2. k \in Hashable(m)
      BY <1>5, MapKeys
    <3>3. _upb_Map_Get(grown, k) = _upb_Map_Get(m, k)
      <4> HIDE DEF grown
      <4> QED BY <2>1 DEF GivesSame
    <3> HIDE DEF grown
    <3> QED BY <3>1, <3>2, <3>3
  <2>3. CASE m.is_strtable /\ "key" \in fails
    <3>1. r = [ok |-> FALSE, map |-> grown]
      BY <1>1, <1>5, <2>3 DEF Insert
    <3>2. r.ok = FALSE /\ r.map = grown
      BY <3>1
    <3> HIDE DEF r, grown
    <3> QED BY <2>1, <3>2 DEF r
  <2>4. CASE ~(m.is_strtable /\ "key" \in fails)
    <3> DEFINE n == [grown EXCEPT !.t = Put(grown, k, v)]
    <3>1. r = [ok |-> TRUE, map |-> n]
      BY <1>1, <1>5, <2>4 DEF Insert
    <3>2. r.ok = TRUE /\ r.map = n
      BY <3>1
    <3> HIDE DEF r, grown
    <3>3. MapOK(n) /\ Like(n, grown) /\ Gives(n, grown, k, v)
      BY <2>1, <2>2, PutOK
    <3> HIDE DEF n
    <3>4. Gives(n, m, k, v)
      BY <2>1, <2>2, <3>3 DEF Gives, GivesSame
    <3>5. Like(n, m)
      BY <2>1, <3>3, LikeTrans
    <3> QED BY <3>2, <3>3, <3>4, <3>5 DEF r
  <2> QED BY <2>3, <2>4
<1> QED BY <1>3, <1>4, <1>5

\* _upb_Map_Insert: the value is there, or, without memory, the key is missing
\* or as it was.
LEMMA MapInsertOK ==
    ASSUME NEW m, MapOK(m), NEW k \in Keys(m), NEW v \in Vals, NEW fails
    PROVE  LET done == _upb_Map_Insert(m, k, v, fails)
           IN  /\ MapOK(done.map) /\ Like(done.map, m)
               /\ done.status # "OutOfMemory" => Gives(done.map, m, k, v)
               /\ done.status = "OutOfMemory" /\ "value" \notin fails =>
                     Gives(done.map, m, k, Missing)
               /\ "value" \in fails => done.status = "OutOfMemory" /\ done.map = m
<1> DEFINE gone == Remove(m, k)
           ins == Insert(gone.map, k, v, fails)
           done == _upb_Map_Insert(m, k, v, fails)
<1>1. /\ MapOK(gone.map) /\ Like(gone.map, m)
      /\ Gives(gone.map, m, k, Missing)
  BY RemoveOK
<1>2. CASE "value" \in fails
  <2>1. done = [map |-> m, status |-> "OutOfMemory"]
    BY <1>2 DEF _upb_Map_Insert
  <2>2. done.map = m /\ done.status = "OutOfMemory"
    BY <2>1
  <2> HIDE DEF done
  <2> QED BY <1>2, <2>2, LikeItself DEF done
<1>3. CASE "value" \notin fails
  <2>1. done = [map |-> ins.map, status |-> IF ~ ins.ok THEN "OutOfMemory"
                           ELSE IF gone.removed THEN "Replaced" ELSE "Inserted"]
    BY <1>3 DEF _upb_Map_Insert
  <2>2. done.map = ins.map /\ (done.status = "OutOfMemory" <=> ~ ins.ok)
    <3> HIDE DEF ins, gone
    <3> QED BY <2>1
  <2>3. k \in Keys(gone.map) /\ Keys(gone.map) = Keys(m)
    <3> HIDE DEF gone
    <3> QED BY <1>1, LikeSame
  <2>4. _upb_Map_Get(gone.map, k) = Missing
    BY <1>1 DEF Gives
  <2> HIDE DEF done, gone
  <2>5. /\ MapOK(ins.map) /\ Like(ins.map, gone.map)
        /\ ins.ok \in BOOLEAN
        /\ ins.ok => Gives(ins.map, gone.map, k, v)
        /\ ~ ins.ok => GivesSame(ins.map, gone.map)
    BY <1>1, <2>3, <2>4, MapInsertNew
  <2> HIDE DEF ins
  <2>6. ins.ok => Gives(ins.map, m, k, v)
    BY <1>1, <2>3, <2>5 DEF Gives
  <2>7. ~ ins.ok => Gives(ins.map, m, k, Missing)
    BY <1>1, <2>3, <2>5 DEF Gives, GivesSame
  <2>8. Like(ins.map, m)
    BY <1>1, <2>5, LikeTrans
  <2> QED BY <1>3, <2>2, <2>5, <2>6, <2>7, <2>8 DEF done
<1> QED BY <1>2, <1>3

\* _upb_Map_Clear: every key is missing.
LEMMA MapClearOK ==
    ASSUME NEW m, MapOK(m)
    PROVE  /\ MapOK(_upb_Map_Clear(m)) /\ Like(_upb_Map_Clear(m), m)
           /\ \A i \in Keys(m) : _upb_Map_Get(_upb_Map_Clear(m), i) = Missing
<1> DEFINE n == _upb_Map_Clear(m)
           t == clear(m.t)
<1>1. MapTyped(m) /\ TableOK(m.t, HashOf(m), Hashable(m), Vals)
      /\ Hashed(HashOf(m), Hashable(m)) /\ upb_table_size(m.t) \in TableSizes /\ m.t.mask \in Nat
      /\ DOMAIN m.array = Small(m) /\ DOMAIN m.present = Small(m)
  BY MapHashed, CountNat, ArraySize DEF MapOK
<1>2. TableOK(t, HashOf(m), Hashable(m), Vals) /\ t.mask = m.t.mask /\ t.count = 0
      /\ Used(t) = {}
  BY <1>1, ClearOK
<1> HIDE DEF t
<1>3. n = [is_strtable |-> m.is_strtable, array |-> [i \in Small(m) |-> Missing],
           present |-> [i \in Small(m) |-> FALSE], t |-> t]
  <2> DEFINE a == [i \in Small(m) |-> Missing]
             p == [i \in Small(m) |-> FALSE]
  <2>1. n = [m EXCEPT !.array = [i \in DOMAIN m.array |-> Missing],
                      !.present = [i \in DOMAIN m.present |-> FALSE], !.t = t]
    BY <1>1, Zenon DEF _upb_Map_Clear, t, MapTyped
  <2>2. n = [m EXCEPT !.array = a, !.present = p, !.t = t]
    BY <1>1, <2>1, Zenon
  <2> HIDE DEF a, p, n
  <2>3. n = [is_strtable |-> m.is_strtable, array |-> a, present |-> p, t |-> t]
    BY <1>1, <2>2 DEF MapTyped
  <2> QED BY <2>3 DEF a, p
<1> HIDE DEF n
<1>4. /\ n.is_strtable = m.is_strtable /\ n.t = t
      /\ n.array = [i \in Small(m) |-> Missing] /\ n.present = [i \in Small(m) |-> FALSE]
  BY <1>3
<1>9. /\ HashOf(n) = HashOf(m) /\ Hashable(n) = Hashable(m) /\ Small(n) = Small(m)
      /\ Keys(n) = Keys(m) /\ array_size(n) = array_size(m)
  <2>1. Small(n) = Small(m)
    BY <1>4 DEF Small
  <2> QED BY <1>4, <2>1 DEF HashOf, Hashable, Keys, array_size, Small
<1>5. MapTyped(n) /\ \A i \in Small(m) : n.array[i] = Missing
  <2>1. n = [is_strtable |-> n.is_strtable, array |-> n.array, present |-> n.present, t |-> n.t]
    BY <1>3, <1>4
  <2>2. /\ n.array \in [Small(n) -> Vals \cup {Missing}] /\ n.present \in [Small(n) -> BOOLEAN]
        /\ \A i \in Small(n) : n.present[i] <=> n.array[i] # Missing
        /\ \A i \in Small(n) : n.present[i] => i \in Keys(n)
    BY <1>4, <1>9
  <2> QED BY <1>1, <1>4, <1>9, <2>1, <2>2 DEF MapTyped
<1>6. t.count <= Room(t) /\ Sized(t, m.t)
  <2>1. upb_table_size(t) = upb_table_size(m.t) /\ Room(t) \in Nat
    BY <1>1, <1>2, TableBounds DEF upb_table_size
  <2> QED BY <1>1, <1>2, <2>1 DEF Sized
<1>7. MapOK(n) /\ Like(n, m)
  BY <1>2, <1>4, <1>5, <1>6, <1>9 DEF MapOK, Like, Sized
<1>8. ASSUME NEW i \in Keys(m) PROVE _upb_Map_Get(n, i) = Missing
  <2>1. CASE i \in Small(m)
    BY <1>5, <1>9, <2>1, GetSmall
  <2>2. CASE i \in Hashable(m)
    BY <1>2, <1>4, <1>7, <1>9, <2>2, GetMissing
  <2> QED BY <2>1, <2>2, MapKeys
<1> QED BY <1>7, <1>8 DEF n

-----------------------------------------------------------------------------
(* Iteration.                                                              *)

\* The positions an iteration stops at: the keys in the array, and the used
\* slots of the table behind it.
LEMMA StopsAre ==
    ASSUME NEW m, MapOK(m)
    PROVE  /\ Stops(m) \subseteq Nat
           /\ \A i \in Small(m) : i \in Stops(m) <=> m.present[i]
           /\ \A i \in Nat : i >= array_size(m) =>
                  (i \in Stops(m) <=> i - array_size(m) \in Used(m.t))
           /\ Fits(m) => \A i \in Stops(m) : i < End
<1> DEFINE a == array_size(m)
           n == upb_table_size(m.t)
<1>1. /\ MapTyped(m) /\ DOMAIN m.array = Small(m) /\ m.t.mask \in Nat /\ n = m.t.mask + 1
      /\ a \in Nat /\ \A i \in Int : i \in Small(m) <=> 0 <= i /\ i < a
  BY ArraySize, CountNat DEF MapOK, upb_table_size
<1>2. /\ Fits(m) => a <= 1 /\ n <= MaxSize
      /\ MaxSize \in Nat /\ MaxSize + 1 < End
  BY Constants DEF Fits
<1>3. \A i : i \in Stops(m) <=> i \in 0..(a + m.t.mask) /\ ~ upb_MapIterator_Done(m, i)
  BY DEF Stops
<1>4. \A i : upb_MapIterator_Done(m, i) <=>
               \/ i >= a + n
               \/ i \in DOMAIN m.array /\ ~ m.present[i]
               \/ i >= a /\ IsEmpty(m.t, i - a)
  BY Zenon DEF upb_MapIterator_Done, arrhas
<1> HIDE DEF a, n
<1>5. Stops(m) \subseteq Nat /\ (Fits(m) => \A i \in Stops(m) : i < End)
  BY <1>1, <1>2, <1>3 DEF End
<1>6. \A i \in Small(m) : i \in Stops(m) <=> m.present[i]
  <2> SUFFICES ASSUME NEW i \in Small(m) PROVE i \in Stops(m) <=> m.present[i]
    OBVIOUS
  <2>1. i \in Nat /\ i < a
    BY <1>1, ArraySize
  <2>2. i \in 0..(a + m.t.mask) /\ ~(i >= a + n) /\ ~(i >= a) /\ i \in DOMAIN m.array
    BY <1>1, <2>1
  <2>3. m.present[i] \in BOOLEAN
    BY <1>1 DEF MapTyped
  <2> QED BY <1>3, <1>4, <2>2, <2>3
<1>7. \A i \in Nat : i >= a => (i \in Stops(m) <=> i - a \in Used(m.t))
  <2> SUFFICES ASSUME NEW i \in Nat, i >= a PROVE i \in Stops(m) <=> i - a \in Used(m.t)
    OBVIOUS
  <2>1. i \notin DOMAIN m.array
    BY <1>1
  <2>2. i \in 0..(a + m.t.mask) <=> i - a \in Slot(m.t)
    BY <1>1 DEF Slot
  <2>3. i \in 0..(a + m.t.mask) => ~(i >= a + n)
    BY <1>1
  <2> QED BY <1>3, <1>4, <2>1, <2>2, <2>3 DEF Used
<1> QED BY <1>5, <1>6, <1>7 DEF a

\* What is at a stop.
LEMMA StopIsElement ==
    ASSUME NEW m, MapOK(m), NEW i \in Stops(m)
    PROVE  LET k == upb_MapIterator_Key(m, i)
           IN  /\ k \in Keys(m) /\ _upb_Map_Get(m, k) = upb_MapIterator_Value(m, i)
               /\ upb_MapIterator_Value(m, i) \in Vals
               /\ i >= array_size(m) => /\ Find(m, k) = i - array_size(m)
                                        /\ k \in Hashable(m)
                                        /\ i - array_size(m) \in Used(m.t)
                                        /\ k = m.t.entries[i - array_size(m)].key
               /\ ~(i >= array_size(m)) => k = i /\ k \in Small(m)
<1> DEFINE a == array_size(m)
           k == upb_MapIterator_Key(m, i)
<1>1. /\ MapTyped(m) /\ DOMAIN m.array = Small(m) /\ a \in Nat
      /\ \A j \in Int : j \in Small(m) <=> 0 <= j /\ j < a
  BY ArraySize DEF MapOK
<1>2. i \in Nat
  BY StopsAre
<1>3. CASE i >= a
  <2>1. i \notin DOMAIN m.array /\ i - a \in Used(m.t)
    BY <1>1, <1>2, <1>3, StopsAre
  <2>2. k = m.t.entries[i - a].key /\ upb_MapIterator_Value(m, i) = m.t.entries[i - a].val
    BY <2>1 DEF upb_MapIterator_Key, upb_MapIterator_Value
  <2>3. /\ m.t.entries[i - a].key \in Hashable(m) /\ m.t.entries[i - a].val \in Vals
        /\ Find(m, m.t.entries[i - a].key) = i - a
        /\ _upb_Map_Get(m, m.t.entries[i - a].key) = m.t.entries[i - a].val
    <3> DEFINE x == i - a
    <3> HIDE DEF x
    <3>1. x \in Used(m.t)
      BY <2>1 DEF x
    <3>2. /\ m.t.entries[x].key \in Hashable(m) /\ m.t.entries[x].val \in Vals
          /\ Find(m, m.t.entries[x].key) = x
          /\ _upb_Map_Get(m, m.t.entries[x].key) = m.t.entries[x].val
      BY <3>1, GetFound
    <3> QED BY <3>2 DEF x
  <2>4. k \in Keys(m)
    BY <2>2, <2>3, MapKeys
  <2> HIDE DEF k
  <2> QED BY <1>3, <2>1, <2>2, <2>3, <2>4 DEF k
<1>4. CASE ~(i >= a)
  <2>1. i \in Small(m)
    BY <1>1, <1>2, <1>4
  <2>2. k = i /\ upb_MapIterator_Value(m, i) = m.array[i]
    BY <1>1, <2>1 DEF upb_MapIterator_Key, upb_MapIterator_Value
  <2>3. m.array[i] # Missing /\ m.array[i] \in Vals \cup {Missing} /\ _upb_Map_Get(m, i) = m.array[i]
    BY <1>1, <2>1, StopsAre, GetSmall DEF MapTyped
  <2>4. i \in Keys(m)
    BY <1>1, <2>1, StopsAre DEF MapTyped
  <2> HIDE DEF k
  <2> QED BY <1>4, <2>1, <2>2, <2>3, <2>4 DEF k
<1> QED BY <1>3, <1>4

\* Different stops are at different keys, and every element is at a stop.
LEMMA StopKeysDiffer ==
    ASSUME NEW m, MapOK(m), NEW i \in Stops(m), NEW j \in Stops(m),
           upb_MapIterator_Key(m, i) = upb_MapIterator_Key(m, j)
    PROVE  i = j
<1> DEFINE a == array_size(m)
           k(x) == upb_MapIterator_Key(m, x)
<1>1. i \in Nat /\ j \in Nat /\ a \in Nat
  BY StopsAre, ArraySize DEF MapOK
<1>2. \A x \in Stops(m) : /\ x >= a => k(x) \in Hashable(m) /\ Find(m, k(x)) = x - a
                          /\ ~(x >= a) => k(x) = x /\ k(x) \in Small(m)
  BY StopIsElement
<1>3. \A x \in Hashable(m) : x \notin Small(m)
  BY MapKeys
<1> HIDE DEF a, k
<1>4. k(i) = k(j)
  BY DEF k
<1>5. CASE i >= a
  <2>1. j >= a
    BY <1>2, <1>3, <1>4, <1>5
  <2>2. i - a = j - a
    BY <1>2, <1>4, <1>5, <2>1
  <2> QED BY <1>1, <2>2
<1>6. CASE ~(i >= a)
  <2>1. ~(j >= a)
    BY <1>2, <1>3, <1>4, <1>6
  <2> QED BY <1>2, <1>4, <1>6, <2>1
<1> QED BY <1>5, <1>6

LEMMA ElementHasStop ==
    ASSUME NEW m, MapOK(m), NEW k \in Keys(m), _upb_Map_Get(m, k) # Missing
    PROVE  \E i \in Stops(m) : upb_MapIterator_Key(m, i) = k
<1> DEFINE a == array_size(m)
<1>1. /\ MapTyped(m) /\ DOMAIN m.array = Small(m) /\ a \in Nat
      /\ \A j \in Int : j \in Small(m) <=> 0 <= j /\ j < a
  BY ArraySize DEF MapOK
<1>2. CASE k \in Small(m)
  <2>1. k \in Stops(m)
    BY <1>1, <1>2, GetSmall, StopsAre
  <2>2. upb_MapIterator_Key(m, k) = k
    BY <1>1, <1>2 DEF upb_MapIterator_Key
  <2> QED BY <2>1, <2>2
<1>3. CASE k \in Hashable(m)
  <2>1. PICK x \in Used(m.t) : m.t.entries[x].key = k
    BY <1>3, GetMissing
  <2>2. x \in Nat
    BY CountNat DEF Used, Slot, MapOK
  <2> DEFINE i == a + x
  <2>3. i \in Nat /\ i >= a /\ i - a = x
    BY <1>1, <2>2
  <2>4. i \in Stops(m) /\ i \notin DOMAIN m.array
    BY <1>1, <2>1, <2>3, StopsAre
  <2>5. upb_MapIterator_Key(m, i) = k
    BY <2>1, <2>3, <2>4 DEF upb_MapIterator_Key
  <2> QED BY <2>4, <2>5
<1> QED BY <1>2, <1>3, MapKeys

\* upb_Map_Size counts the stops.
LEMMA SizeCountsStops ==
    ASSUME NEW m, MapOK(m)
    PROVE  _upb_Map_Size(m) = Cardinality(Stops(m))
<1> DEFINE a == array_size(m)
           A == {i \in Small(m) : m.present[i]}
           U == Used(m.t)
           T == {i \in Stops(m) : i >= a}
<1>1. /\ MapTyped(m) /\ DOMAIN m.array = Small(m) /\ a \in Nat
      /\ \A j \in Int : j \in Small(m) <=> 0 <= j /\ j < a
  BY ArraySize DEF MapOK
<1>2. m.t.count = Cardinality(U) /\ IsFiniteSet(U) /\ U \subseteq Nat
  BY CountNat DEF MapOK, TableOK, Used, Slot
<1>3. /\ Stops(m) \subseteq Nat
      /\ \A i \in Small(m) : i \in Stops(m) <=> m.present[i]
      /\ \A i \in Nat : i >= a => (i \in Stops(m) <=> i - a \in U)
  BY StopsAre
<1>4. _upb_Map_Size(m) = Cardinality(U) + Cardinality(A)
  BY <1>1, <1>2 DEF _upb_Map_Size, array_count, arrhas
<1> HIDE DEF a, A, U
<1>5. A \cap T = {} /\ Stops(m) = A \cup T
  <2>1. A \subseteq Stops(m) /\ \A i \in A : ~(i >= a)
    BY <1>1, <1>3, ArraySize DEF A
  <2>2. \A i \in Stops(m) : ~(i >= a) => i \in A
    BY <1>1, <1>3 DEF A
  <2> QED BY <2>1, <2>2
<1>6. IsFiniteSet(A)
  <2>1. IsFiniteSet(Small(m))
    <3>1. Small(m) = 0..(a - 1) /\ 0 \in Int /\ a - 1 \in Int
      BY <1>1 DEF MapTyped, a
    <3> QED BY <3>1, FS_Interval
  <2> QED BY <2>1, FS_Subset DEF A
<1>7. IsFiniteSet(T) /\ Cardinality(T) = Cardinality(U)
  <2> DEFINE f == [x \in U |-> x + a]
  <2>1. \A x \in U : x + a \in T
    BY <1>1, <1>2, <1>3
  <2>2. f \in [U -> T]
    BY <2>1
  <2>3. \A x, y \in U : f[x] = f[y] => x = y
    BY <1>1, <1>2
  <2>4. \A i \in T : \E x \in U : f[x] = i
    <3> SUFFICES ASSUME NEW i \in T PROVE \E x \in U : f[x] = i
      OBVIOUS
    <3>1. i - a \in U /\ i \in Nat
      BY <1>3
    <3>2. f[i - a] = i
      BY <1>1, <3>1
    <3> QED BY <3>1, <3>2
  <2> HIDE DEF f, T
  <2>5. f \in Bijection(U, T)
    <3>1. f \in Injection(U, T)
      BY <2>2, <2>3 DEF Injection, IsInjective
    <3>2. f \in Surjection(U, T)
      BY <2>2, <2>4 DEF Surjection
    <3> QED BY <3>1, <3>2 DEF Bijection
  <2>6. ExistsBijection(U, T)
    BY <2>5 DEF ExistsBijection
  <2> QED BY <1>2, <2>6, FS_Bijection
<1> HIDE DEF T
<1>8. Cardinality(Stops(m)) = Cardinality(A) + Cardinality(T)
  <2>1. Cardinality({}) = 0
    BY FS_EmptySet
  <2>2. /\ Cardinality(A \cup T) = Cardinality(A) + Cardinality(T) - Cardinality(A \cap T)
        /\ Cardinality(A) \in Nat /\ Cardinality(T) \in Nat
    BY <1>6, <1>7, FS_Union, FS_CardinalityType
  <2>3. Cardinality(A \cap T) = 0 /\ Cardinality(Stops(m)) = Cardinality(A \cup T)
    BY <1>5, <2>1
  <2> QED BY <2>2, <2>3
<1>9. Cardinality(A) \in Nat /\ Cardinality(U) \in Nat
  BY <1>2, <1>6, FS_CardinalityType
<1> QED BY <1>4, <1>7, <1>8, <1>9

\* _upb_map_next gives the first stop after a position, or End.
LEMMA NextStop ==
    ASSUME NEW m, MapOK(m), Fits(m), NEW i \in Int, i >= Begin
    PROVE  LET j == _upb_map_next(m, i)
           IN  \/ j \in Stops(m) /\ j > i /\ \A x \in Stops(m) : x > i => x >= j
               \/ j = End /\ \A x \in Stops(m) : ~(x > i)
<1> DEFINE a == array_size(m)
           inArray == {j \in DOMAIN m.array : j > i /\ arrhas(m, j)}
           b == Largest(i, a - 1) - a
           rest == {e \in 0..m.t.mask : e > b /\ ~ IsEmpty(m.t, e)}
           tab == next(m.t, b)
           j == _upb_map_next(m, i)
<1>1. /\ MapTyped(m) /\ DOMAIN m.array = Small(m) /\ a \in Nat
      /\ \A x \in Int : x \in Small(m) <=> 0 <= x /\ x < a
  BY ArraySize DEF MapOK
<1>2. /\ Stops(m) \subseteq Nat
      /\ \A x \in Small(m) : x \in Stops(m) <=> m.present[x]
      /\ \A x \in Nat : x >= a => (x \in Stops(m) <=> x - a \in Used(m.t))
  BY StopsAre
<1>3. j = IF inArray # {} THEN Min(inArray) ELSE IF tab = End THEN End ELSE tab + a
  BY Zenon DEF _upb_map_next
<1>4. rest = {e \in Used(m.t) : e > b}
  BY DEF Used, Slot
<1>5. tab = IF rest = {} THEN End ELSE Min(rest)
  BY Zenon DEF next
<1>6. \A x : x \in inArray <=> x \in Small(m) /\ x > i /\ m.present[x]
  BY <1>1 DEF arrhas
<1>7. b = IF i > a - 1 THEN i - a ELSE -1
  BY <1>1 DEF Largest
<1>8. m.t.mask \in Nat /\ Used(m.t) \subseteq 0..m.t.mask /\ upb_table_size(m.t) <= MaxSize
  BY CountNat DEF MapOK, Fits, Used, Slot
<1> HIDE DEF a, inArray, b, rest, tab, j
<1>9. CASE inArray # {}
  <2>1. inArray \subseteq Nat /\ \A x \in inArray : x < a /\ x > i /\ x \in Stops(m)
    BY <1>1, <1>2, <1>6, ArraySize
  <2>2. Min(inArray) \in inArray /\ \A x \in inArray : Min(inArray) <= x
    BY <1>9, <2>1, MinIsLeast
  <2>3. j \in inArray /\ \A x \in inArray : j <= x
    BY <1>3, <1>9, <2>2
  <2>4. ASSUME NEW x \in Stops(m), x > i PROVE x >= j
    <3>1. x \in Nat /\ j \in Nat /\ j < a
      BY <1>2, <2>1, <2>3
    <3>2. CASE x >= a
      BY <1>1, <3>1, <3>2
    <3>3. CASE ~(x >= a)
      <4>1. x \in Small(m)
        BY <1>1, <3>1, <3>3
      <4>2. x \in inArray
        BY <1>2, <1>6, <2>4, <4>1
      <4> QED BY <2>3, <3>1, <4>2
    <3> QED BY <3>2, <3>3
  <2> QED BY <2>1, <2>3, <2>4 DEF j
<1>10. CASE inArray = {}
  <2>1. \A x \in Stops(m) : x > i <=> x >= a /\ x - a \in rest
    <3> SUFFICES ASSUME NEW x \in Stops(m) PROVE x > i <=> x >= a /\ x - a \in rest
      OBVIOUS
    <3>1. x \in Nat
      BY <1>2
    <3>2. CASE x >= a
      <4>1. x - a \in Used(m.t)
        BY <1>2, <3>1, <3>2
      <4>2. x > i <=> x - a > b
        BY <1>1, <1>7, <3>1, <3>2 DEF Begin
      <4> QED BY <1>4, <3>2, <4>1, <4>2
    <3>3. CASE ~(x >= a)
      <4>1. x \in Small(m) /\ m.present[x]
        BY <1>1, <1>2, <3>1, <3>3
      <4>2. ~(x > i)
        BY <1>6, <1>10, <4>1
      <4> QED BY <3>3, <4>2
    <3> QED BY <3>2, <3>3
  <2>2. CASE rest = {}
    BY <1>3, <1>5, <1>10, <2>1, <2>2 DEF j
  <2>3. CASE rest # {}
    <3>1. rest \subseteq Nat
      BY <1>4, <1>8
    <3>2. Min(rest) \in rest /\ \A y \in rest : Min(rest) <= y
      BY <2>3, <3>1, MinIsLeast
    <3>3. tab \in rest /\ (\A y \in rest : tab <= y) /\ tab \in Nat
      BY <1>5, <2>3, <3>1, <3>2
    <3>4. tab # End
      BY <1>4, <1>8, <3>3, Constants DEF upb_table_size
    <3>5. j = tab + a
      BY <1>3, <1>10, <3>4
    <3>6. j \in Nat /\ j >= a /\ j - a = tab
      BY <1>1, <3>3, <3>5
    <3>7. j \in Stops(m)
      BY <1>2, <1>4, <3>3, <3>6
    <3>8. j > i
      BY <2>1, <3>3, <3>6, <3>7
    <3>9. \A x \in Stops(m) : x > i => x >= j
      <4> SUFFICES ASSUME NEW x \in Stops(m), x > i PROVE x >= j
        OBVIOUS
      <4>1. x \in Nat /\ x >= a /\ tab <= x - a
        BY <1>2, <2>1, <3>3
      <4> QED BY <1>1, <3>3, <3>5, <4>1
    <3> QED BY <3>7, <3>8, <3>9 DEF j
  <2> QED BY <2>2, <2>3
<1> QED BY <1>9, <1>10

\* Assigning through an iterator: the value in one used slot changes.
OneValue(t, K, V, x, v, E) ==
    /\ E \in [Slot(t) -> Entry(t, K, V)] /\ E[x].val = v
    /\ \A y \in Slot(t) : /\ E[y].key = t.entries[y].key /\ E[y].next = t.entries[y].next
                          /\ y # x => E[y].val = t.entries[y].val

ValueSet(t, hash, K, V, x, v, t2) ==
    /\ TableOK(t2, hash, K, V) /\ Used(t2) = Used(t) /\ t2.mask = t.mask
    /\ t2.count = t.count
    /\ t2.entries[x].val = v
    /\ \A y \in Slot(t) : t2.entries[y].key = t.entries[y].key
    /\ \A j \in K, w \in V : j # t.entries[x].key => (Holds(t2, j, w) <=> Holds(t, j, w))

LEMMA SetValueOK ==
    ASSUME NEW t, NEW hash, NEW K, NEW V, Hashed(hash, K), TableOK(t, hash, K, V),
           NEW x \in Used(t), NEW v \in V,
           NEW E, OneValue(t, K, V, x, v, E), NEW t2, t2 = [entries |-> E, mask |-> t.mask, count |-> t.count]
    PROVE  ValueSet(t, hash, K, V, x, v, t2)
<1> \A y \in Slot(t) : /\ E[y].key = t.entries[y].key /\ E[y].next = t.entries[y].next
                       /\ y # x => E[y].val = t.entries[y].val
  BY DEF OneValue
<1> E \in [Slot(t) -> Entry(t, K, V)] /\ E[x].val = v
  BY DEF OneValue
<1>1. /\ TableTyped(t, K, V) /\ t.mask \in Nat /\ x \in Slot(t)
      /\ t.entries \in [Slot(t) -> Entry(t, K, V)]
      /\ \A y \in Used(t) : t.entries[y].val \in V
  BY DEF TableOK, TableTyped, Used
<1>2. t2.entries = E /\ t2.mask = t.mask /\ t2.count = t.count /\ Slot(t2) = Slot(t)
  BY DEF Slot
<1>3. KeyAt(t2) = KeyAt(t) /\ LinkAt(t2) = LinkAt(t)
  BY <1>2 DEF KeyAt, LinkAt
<1>4. Used(t2) = Used(t)
  BY <1>2 DEF Used, IsEmpty
<1>5. \A y \in Slot(t) : E[y].key # Empty => E[y].val \in V
  BY <1>1 DEF Used, IsEmpty
<1>6. TableOK(t2, hash, K, V)
  <2>1. Sound(Slot(t), K, KeyAt(t2), LinkAt(t2), Mains(t, K, hash)) /\ t.count = Cardinality(Used(t2))
    BY <1>3, <1>4 DEF TableOK
  <2> QED BY <1>5, <2>1, TableFromParts
<1>7. ASSUME NEW j \in K, NEW w \in V, j # t.entries[x].key
      PROVE  Holds(t2, j, w) <=> Holds(t, j, w)
  BY <1>2, <1>7 DEF Holds
<1> QED BY <1>2, <1>4, <1>6, <1>7 DEF ValueSet

LEMMA SetEntryOK ==
    ASSUME NEW m, MapOK(m), NEW i \in Stops(m), NEW v \in Vals, NEW n,
           n = upb_Map_SetEntryValue(m, i, v)
    PROVE  /\ MapOK(n) /\ Like(n, m)
           /\ Gives(n, m, upb_MapIterator_Key(m, i), v)
           /\ Stops(n) = Stops(m)
           /\ \A j \in Stops(m) : upb_MapIterator_Key(n, j) = upb_MapIterator_Key(m, j)
<1> DEFINE a == array_size(m)
           k == upb_MapIterator_Key(m, i)
<1>1. /\ MapTyped(m) /\ DOMAIN m.array = Small(m) /\ a \in Nat
      /\ \A x \in Int : x \in Small(m) <=> 0 <= x /\ x < a
  BY ArraySize DEF MapOK
<1>2. /\ i \in Nat /\ Stops(m) \subseteq Nat
      /\ \A x \in Small(m) : x \in Stops(m) <=> m.present[x]
      /\ \A x \in Nat : x >= a => (x \in Stops(m) <=> x - a \in Used(m.t))
  BY StopsAre
<1>3. /\ i >= a => k \in Hashable(m) /\ i - a \in Used(m.t) /\ k = m.t.entries[i - a].key
      /\ ~(i >= a) => k = i /\ k \in Small(m)
  BY StopIsElement
<1>4. v # Missing
  BY Constants
\* Stops and their keys depend on the array's presence bits and the table's keys.
<1>5. ASSUME MapOK(n), Like(n, m), n.present = m.present,
             Used(n.t) = Used(m.t),
             \A y \in Used(m.t) : n.t.entries[y].key = m.t.entries[y].key
      PROVE  /\ Stops(n) = Stops(m)
             /\ \A j \in Stops(m) : upb_MapIterator_Key(n, j) = upb_MapIterator_Key(m, j)
  <2>1. Small(n) = Small(m) /\ array_size(n) = a /\ DOMAIN n.array = Small(m)
    BY <1>5, LikeSame DEF Like, Small
  <2>2. /\ Stops(n) \subseteq Nat
        /\ \A x \in Small(m) : x \in Stops(n) <=> m.present[x]
        /\ \A x \in Nat : x >= a => (x \in Stops(n) <=> x - a \in Used(m.t))
    <3>1. /\ Stops(n) \subseteq Nat
          /\ \A x \in Small(n) : x \in Stops(n) <=> n.present[x]
          /\ \A x \in Nat : x >= array_size(n) => (x \in Stops(n) <=> x - array_size(n) \in Used(n.t))
      BY <1>5, StopsAre
    <3> QED BY <1>5, <2>1, <3>1
  <2> HIDE DEF a, k
  <2>3. \A x \in Nat : x \in Stops(n) <=> x \in Stops(m)
    <3> SUFFICES ASSUME NEW x \in Nat PROVE x \in Stops(n) <=> x \in Stops(m)
      OBVIOUS
    <3>1. CASE x >= a
      BY <1>2, <2>2, <3>1
    <3>2. CASE ~(x >= a)
      <4>1. x \in Small(m)
        BY <1>1, <3>2
      <4> QED BY <1>2, <2>2, <4>1
    <3> QED BY <3>1, <3>2
  <2>4. ASSUME NEW j \in Stops(m)
        PROVE  upb_MapIterator_Key(n, j) = upb_MapIterator_Key(m, j)
    <3>1. CASE j \in Small(m)
      BY <1>1, <2>1, <3>1 DEF upb_MapIterator_Key
    <3>2. CASE j \notin Small(m)
      <4>1. j \in Nat /\ j >= a
        BY <1>1, <1>2, <3>2
      <4>2. j - a \in Used(m.t)
        BY <1>2, <4>1
      <4>3. n.t.entries[j - a].key = m.t.entries[j - a].key
        BY <1>5, <4>2
      <4>4. /\ upb_MapIterator_Key(n, j) = n.t.entries[j - a].key
            /\ upb_MapIterator_Key(m, j) = m.t.entries[j - a].key
        BY <1>1, <2>1, <3>2 DEF upb_MapIterator_Key, a
      <4> QED BY <4>3, <4>4
    <3> QED BY <3>1, <3>2
  <2> QED BY <1>2, <2>2, <2>3, <2>4
<1>6. CASE ~(i >= a)
  <2>1. i \in Small(m) /\ k = i /\ m.present[i] /\ i \in Keys(m)
    BY <1>1, <1>2, <1>3, <1>6 DEF MapTyped
  <2>2. n = [is_strtable |-> m.is_strtable, array |-> [m.array EXCEPT ![i] = v],
             present |-> m.present, t |-> m.t]
    <3>1. n = [m EXCEPT !.array[i] = v]
      BY <1>1, <2>1 DEF upb_Map_SetEntryValue
    <3> QED BY <1>1, <3>1 DEF MapTyped
  <2>3. m.present = [m.present EXCEPT ![i] = (v # Missing)]
    <3>1. m.present \in [Small(m) -> BOOLEAN]
      BY <1>1 DEF MapTyped
    <3> QED BY <1>4, <2>1, <3>1
  <2>4. n = [is_strtable |-> m.is_strtable, array |-> [m.array EXCEPT ![i] = v],
             present |-> [m.present EXCEPT ![i] = (v # Missing)], t |-> m.t]
    BY <2>2, <2>3
  <2>5. MapOK(n) /\ Like(n, m) /\ Gives(n, m, i, v)
    BY <2>1, <2>4, ArrayPut
  <2>6. n.present = m.present /\ n.t = m.t
    BY <2>2
  <2> HIDE DEF a, k
  <2>7. Gives(n, m, k, v)
    BY <2>1, <2>5
  <2> QED BY <1>5, <2>5, <2>6, <2>7 DEF k
<1>7. CASE i >= a
  <2> DEFINE x == i - a
             t2 == [entries |-> [m.t.entries EXCEPT ![x].val = v], mask |-> m.t.mask,
                    count |-> m.t.count]
  <2>1. x \in Used(m.t) /\ k = m.t.entries[x].key /\ k \in Hashable(m) /\ i \notin Small(m)
    BY <1>1, <1>2, <1>3, <1>7
  <2>2. /\ TableOK(m.t, HashOf(m), Hashable(m), Vals) /\ Hashed(HashOf(m), Hashable(m))
        /\ m.t.count <= Room(m.t) /\ upb_table_size(m.t) \in TableSizes
    BY MapHashed DEF MapOK
  <2>3. n = [m EXCEPT !.t = t2]
    <3>1. n = [m EXCEPT !.t.entries[i - a].val = v]
      BY <1>1, <2>1, Zenon DEF upb_Map_SetEntryValue
    <3>2. m.t = [entries |-> m.t.entries, mask |-> m.t.mask, count |-> m.t.count]
      BY <2>2 DEF TableOK, TableTyped
    <3>3. n = [m EXCEPT !.t = [m.t EXCEPT !.entries = [m.t.entries EXCEPT ![i - a].val = v]]]
      BY <3>1, Zenon
    <3>4. [m.t EXCEPT !.entries = [m.t.entries EXCEPT ![i - a].val = v]] = t2
      <4> DEFINE W == [m.t.entries EXCEPT ![i - a].val = v]
      <4>1. t2 = [entries |-> W, mask |-> m.t.mask, count |-> m.t.count]
        OBVIOUS
      <4> HIDE DEF W, t2
      <4>2. [m.t EXCEPT !.entries = W] = t2
        BY <3>2, <4>1
      <4> QED BY <4>2 DEF W
    <3> HIDE DEF t2
    <3> QED BY <3>3, <3>4
  <2>10. t2 = [entries |-> [m.t.entries EXCEPT ![x].val = v], mask |-> m.t.mask,
               count |-> m.t.count]
    OBVIOUS
  <2> HIDE DEF a, k, x, t2
  <2>4. /\ TableOK(t2, HashOf(m), Hashable(m), Vals) /\ Used(t2) = Used(m.t)
        /\ t2.mask = m.t.mask /\ t2.count = m.t.count /\ t2.entries[x].val = v
        /\ \A y \in Slot(m.t) : t2.entries[y].key = m.t.entries[y].key
        /\ \A j \in Hashable(m), w \in Vals :
              j # m.t.entries[x].key => (Holds(t2, j, w) <=> Holds(m.t, j, w))
    <3> DEFINE t == m.t
               h == HashOf(m)
               K == Hashable(m)
               E == [t.entries EXCEPT ![x].val = v]
    <3>1. /\ Hashed(h, K) /\ TableOK(t, h, K, Vals) /\ x \in Used(t)
          /\ t2 = [entries |-> E, mask |-> t.mask, count |-> t.count]
      BY <2>1, <2>2, <2>10
    <3>3. OneValue(t, K, Vals, x, v, E)
      <4>1. t.entries \in [Slot(t) -> Entry(t, K, Vals)] /\ x \in Slot(t)
        BY <3>1 DEF TableOK, TableTyped, Used
      <4> HIDE DEF t, K
      <4> QED BY <4>1 DEF Entry, OneValue
    <3> HIDE DEF t, h, K, E
    <3>2. ValueSet(t, h, K, Vals, x, v, t2)
      BY <3>1, <3>3, SetValueOK
    <3> QED BY <3>2 DEF t, h, K, ValueSet
  <2>5. t2.count <= Room(t2) /\ Sized(t2, m.t)
    BY <2>2, <2>4 DEF Room, upb_table_size, Sized
  <2>6. /\ MapOK(n) /\ Like(n, m)
        /\ \A j \in Small(m) : _upb_Map_Get(n, j) = _upb_Map_Get(m, j)
    BY <2>3, <2>4, <2>5, WithTableGet
  <2>7. n.t = t2 /\ Hashable(n) = Hashable(m) /\ n.present = m.present
    BY <1>1, <2>3, WithTable
  <2>8. \A y \in Used(m.t) : n.t.entries[y].key = m.t.entries[y].key
    BY <2>4, <2>7 DEF Used
  <2>9. Gives(n, m, k, v)
    <3> SUFFICES ASSUME NEW j \in Keys(m)
                 PROVE  _upb_Map_Get(n, j) = IF j = k THEN v ELSE _upb_Map_Get(m, j)
      BY DEF Gives
    <3>1. CASE j \in Small(m)
      BY <2>1, <2>6, <3>1, MapKeys
    <3>2. CASE j \in Hashable(m) /\ j # k
      <4>1. \A w \in Vals : Holds(n.t, j, w) <=> Holds(m.t, j, w)
        BY <2>1, <2>4, <2>7, <3>2
      <4> QED BY <2>6, <2>7, <3>2, <4>1, GetSame
    <3>3. CASE j = k
      <4>1. _upb_Map_Get(n, n.t.entries[x].key) = n.t.entries[x].val
        BY <2>1, <2>4, <2>6, <2>7, GetFound
      <4>2. n.t.entries[x].key = k /\ n.t.entries[x].val = v
        BY <2>1, <2>4, <2>7, <2>8
      <4> QED BY <3>3, <4>1, <4>2
    <3> QED BY <3>1, <3>2, <3>3, MapKeys
  <2> QED BY <1>5, <2>4, <2>6, <2>7, <2>8, <2>9 DEF k
<1> QED BY <1>6, <1>7

-----------------------------------------------------------------------------
(* MapField_clone_obj and upb_inttable_compact: the elements of a map,     *)
(* inserted into a new one with its own division into array and table.     *)

Present(m, S) == {i \in S : _upb_Map_Get(m, i) # Missing}

\* The size of a map is the number of its elements, and the count of its table
\* the number of those with a hashed key.
LEMMA SizeIsPresent ==
    ASSUME NEW m, MapOK(m)
    PROVE  /\ IsFiniteSet(Present(m, Keys(m)))
           /\ _upb_Map_Size(m) = Cardinality(Present(m, Keys(m)))
<1> DEFINE f == [i \in Stops(m) |-> upb_MapIterator_Key(m, i)]
           P == Present(m, Keys(m))
<1>1. f \in [Stops(m) -> P]
  <2>1. ASSUME NEW i \in Stops(m) PROVE upb_MapIterator_Key(m, i) \in P
    BY StopIsElement, Constants DEF Present
  <2> QED BY <2>1
<1>2. \A i, j \in Stops(m) : f[i] = f[j] => i = j
  BY StopKeysDiffer
<1>3. \A k \in P : \E i \in Stops(m) : f[i] = k
  <2> SUFFICES ASSUME NEW k \in P PROVE \E i \in Stops(m) : f[i] = k
    OBVIOUS
  <2>1. k \in Keys(m) /\ _upb_Map_Get(m, k) # Missing
    BY DEF Present
  <2>2. PICK i \in Stops(m) : upb_MapIterator_Key(m, i) = k
    BY <2>1, ElementHasStop
  <2> QED BY <2>2
<1>4. IsFiniteSet(Stops(m))
  <2>1. Stops(m) \subseteq 0..(array_size(m) + m.t.mask) /\ array_size(m) \in Int /\ m.t.mask \in Int
    BY ArraySize, CountNat DEF Stops, MapOK
  <2>2. IsFiniteSet(0..(array_size(m) + m.t.mask))
    BY <2>1, FS_Interval
  <2> QED BY <2>1, <2>2, FS_Subset
<1> HIDE DEF f, P
<1>5. ExistsBijection(Stops(m), P)
  <2>1. f \in Bijection(Stops(m), P)
    BY <1>1, <1>2, <1>3 DEF Bijection, Injection, Surjection, IsInjective
  <2> QED BY <2>1 DEF ExistsBijection
<1>6. IsFiniteSet(P) /\ Cardinality(P) = Cardinality(Stops(m))
  BY <1>4, <1>5, FS_Bijection
<1> QED BY <1>6, SizeCountsStops DEF P

LEMMA CountIsPresent ==
    ASSUME NEW m, MapOK(m)
    PROVE  /\ IsFiniteSet(Present(m, Hashable(m)))
           /\ m.t.count = Cardinality(Present(m, Hashable(m)))
<1> DEFINE f == [x \in Used(m.t) |-> m.t.entries[x].key]
           P == Present(m, Hashable(m))
<1>1. f \in [Used(m.t) -> P]
  <2>1. ASSUME NEW x \in Used(m.t) PROVE m.t.entries[x].key \in P
    BY GetFound, Constants DEF Present
  <2> QED BY <2>1
<1>2. \A x, y \in Used(m.t) : f[x] = f[y] => x = y
  <2> SUFFICES ASSUME NEW x \in Used(m.t), NEW y \in Used(m.t),
                      m.t.entries[x].key = m.t.entries[y].key
               PROVE  x = y
    OBVIOUS
  <2>1. Find(m, m.t.entries[x].key) = x /\ Find(m, m.t.entries[y].key) = y
    BY GetFound
  <2> QED BY <2>1
<1>3. \A k \in P : \E x \in Used(m.t) : f[x] = k
  <2> SUFFICES ASSUME NEW k \in P PROVE \E x \in Used(m.t) : f[x] = k
    OBVIOUS
  <2>1. k \in Hashable(m) /\ _upb_Map_Get(m, k) # Missing
    BY DEF Present
  <2>2. PICK x \in Used(m.t) : m.t.entries[x].key = k
    BY <2>1, GetMissing
  <2> QED BY <2>2
<1>4. IsFiniteSet(Used(m.t)) /\ m.t.count = Cardinality(Used(m.t))
  BY CountNat DEF MapOK, TableOK
<1> HIDE DEF f, P
<1>5. ExistsBijection(Used(m.t), P)
  <2>1. f \in Bijection(Used(m.t), P)
    BY <1>1, <1>2, <1>3 DEF Bijection, Injection, Surjection, IsInjective
  <2> QED BY <2>1 DEF ExistsBijection
<1>6. IsFiniteSet(P) /\ Cardinality(P) = Cardinality(Used(m.t))
  BY <1>4, <1>5, FS_Bijection
<1> QED BY <1>4, <1>6 DEF P

\* Map c has some of the elements of m.
PartOf(c, m) ==
    /\ MapOK(c) /\ c.is_strtable = m.is_strtable
    /\ \A i \in Keys(m) : _upb_Map_Get(c, i) \in {Missing, _upb_Map_Get(m, i)}

\* A part of a map that misses a key of the map's table has a table that may
\* still grow, or has room.
LEMMA PartHasRoom ==
    ASSUME NEW m, MapOK(m), Fits(m), NEW c, PartOf(c, m), NEW k \in Hashable(c),
           _upb_Map_Get(c, k) = Missing, _upb_Map_Get(m, k) # Missing
    PROVE  ~(isfull(c.t) /\ DoubledSize(c.t) > MaxSize)
<1> DEFINE A == Present(c, Hashable(c))
           B == Present(m, Hashable(m))
           s == upb_table_size(c.t)
           u == upb_table_size(m.t)
<1>1. /\ MapOK(c) /\ Hashable(c) \subseteq Hashable(m)
      /\ \A i \in Hashable(c) : _upb_Map_Get(c, i) \in {Missing, _upb_Map_Get(m, i)}
  <2>1. MapOK(c) /\ c.is_strtable = m.is_strtable /\ MapTyped(c) /\ MapTyped(m)
    BY DEF PartOf, MapOK
  <2>2. ~ m.is_strtable => Small(m) \subseteq Small(c)
    <3>1. /\ Small(m) = 0..(array_size(m) - 1) /\ Small(c) = 0..(array_size(c) - 1)
          /\ array_size(m) \in Nat /\ array_size(c) \in Nat /\ array_size(m) <= 1
          /\ (c.is_strtable <=> array_size(c) = 0)
      BY <2>1 DEF MapTyped, Fits
    <3> QED BY <2>1, <3>1
  <2>3. Hashable(c) \subseteq Hashable(m)
    BY <2>1, <2>2 DEF Hashable
  <2>4. \A i \in Hashable(m) : i \in Keys(m)
    BY MapKeys
  <2> QED BY <2>1, <2>3, <2>4 DEF PartOf
<1>2. A \subseteq B /\ k \in B /\ k \notin A
  BY <1>1 DEF Present
<1>3. /\ IsFiniteSet(A) /\ c.t.count = Cardinality(A)
      /\ IsFiniteSet(B) /\ m.t.count = Cardinality(B)
  BY <1>1, CountIsPresent
<1>4. c.t.count < m.t.count /\ c.t.count \in Nat /\ m.t.count \in Nat
  <2> HIDE DEF A, B
  <2>1. Cardinality(A) <= Cardinality(B) /\ (Cardinality(B) = Cardinality(A) => B = A)
    BY <1>2, <1>3, FS_Subset
  <2>2. Cardinality(A) \in Nat /\ Cardinality(B) \in Nat
    BY <1>3, FS_CardinalityType
  <2> QED BY <1>2, <1>3, <2>1, <2>2
<1>5. /\ m.t.count <= u - u \div 8 /\ s \in TableSizes /\ u \in TableSizes
      /\ s \in Nat /\ u \in Nat /\ MaxSize \in Nat /\ u <= MaxSize
  BY <1>1, Constants, SizesDouble DEF MapOK, Room, Fits
<1>6. SUFFICES ASSUME isfull(c.t) PROVE 2 * s <= MaxSize
  BY <1>5 DEF DoubledSize
<1>7. c.t.count = s - s \div 8
  BY <1>6 DEF isfull
<1> HIDE DEF A, B, s, u
<1>8. s < u
  BY <1>4, <1>5, <1>7
<1>9. 2 * s <= u
  BY <1>5, <1>8, SizesApart
<1> QED BY <1>5, <1>9

\* So an insertion that no allocation fails for succeeds.
LEMMA PartGrows ==
    ASSUME NEW m, MapOK(m), Fits(m), NEW c, PartOf(c, m), NEW k \in Keys(m),
           _upb_Map_Get(c, k) = Missing, NEW v \in Vals, v = _upb_Map_Get(m, k),
           NEW n, n = _upb_Map_Insert(c, k, v, {}).map
    PROVE  PartOf(n, m) /\ Gives(n, c, k, v)
<1> DEFINE gone == Remove(c, k).map
           ins == Insert(gone, k, v, {})
<1>1. MapOK(c) /\ c.is_strtable = m.is_strtable /\ Keys(c) = Keys(m) /\ k \in Keys(c)
  BY DEF PartOf, Keys
<1>2. MapOK(gone) /\ Like(gone, c) /\ Gives(gone, c, k, Missing)
  BY <1>1, RemoveOK
<1>3. n = ins.map
  BY DEF _upb_Map_Insert
<1> HIDE DEF gone
<1>4. PartOf(gone, m) /\ _upb_Map_Get(gone, k) = Missing /\ k \in Keys(gone)
      /\ DOMAIN gone.array = Small(gone)
  BY <1>1, <1>2, LikeSame DEF PartOf, Gives, Keys, Like, Small
<1>5. ins.ok
  <2>1. CASE k \in Small(gone)
    BY <1>4, <2>1 DEF Insert
  <2>2. CASE k \notin Small(gone)
    <3>1. k \in Hashable(gone)
      BY <1>2, <1>4, <2>2, MapKeys
    <3>2. ~(isfull(gone.t) /\ DoubledSize(gone.t) > MaxSize)
      BY <1>4, <3>1, PartHasRoom, Constants
    <3>3. ~(isfull(gone.t) /\ ("table" \in {} \/ DoubledSize(gone.t) > MaxSize))
      BY <3>2
    <3>4. ~(gone.is_strtable /\ "key" \in {})
      OBVIOUS
    <3> QED BY <1>4, <2>2, <3>3, <3>4 DEF Insert
  <2> QED BY <2>1, <2>2
<1>6. /\ MapOK(ins.map) /\ Like(ins.map, gone)
      /\ Gives(ins.map, gone, k, v)
  BY <1>2, <1>4, <1>5, MapInsertNew
<1> HIDE DEF ins
<1>7. Gives(n, c, k, v)
  BY <1>1, <1>2, <1>3, <1>6, LikeSame DEF Gives
<1>8. PartOf(n, m)
  BY <1>1, <1>2, <1>3, <1>6, <1>7 DEF PartOf, Gives, Like
<1> QED BY <1>7, <1>8

InsertTo(f, m0, m, k) ==
    f = [n \in 0..k |-> IF n = 0 THEN m0
                        ELSE IF n - 1 \notin Stops(m) THEN f[n - 1]
                        ELSE _upb_Map_Insert(f[n - 1], upb_MapIterator_Key(m, n - 1),
                                             upb_MapIterator_Value(m, n - 1), {}).map]

LEMMA InsertionsExist ==
    ASSUME NEW m0, NEW m
    PROVE  \A k \in Nat : \E f : InsertTo(f, m0, m, k)
<1> DEFINE Q == {k \in Nat : \E f : InsertTo(f, m0, m, k)}
           Step(b, n) == IF n - 1 \notin Stops(m) THEN b
                         ELSE _upb_Map_Insert(b, upb_MapIterator_Key(m, n - 1),
                                              upb_MapIterator_Value(m, n - 1), {}).map
<1>0. \A f, k : InsertTo(f, m0, m, k) <=>
                f = [n \in 0..k |-> IF n = 0 THEN m0 ELSE Step(f[n - 1], n)]
  BY DEF InsertTo
<1> HIDE DEF Step
<1>1. 0 \in Q
  <2> DEFINE f == [n \in 0..0 |-> m0]
  <2>1. \A n \in 0..0 : n = 0
    OBVIOUS
  <2>2. f = [n \in 0..0 |-> IF n = 0 THEN m0 ELSE Step(f[n - 1], n)]
    BY <2>1
  <2> HIDE DEF f
  <2>3. InsertTo(f, m0, m, 0)
    BY <1>0, <2>2
  <2> QED BY <2>3
<1>2. ASSUME NEW k \in Nat, k \in Q PROVE k + 1 \in Q
  <2>1. PICK f : f = [n \in 0..k |-> IF n = 0 THEN m0 ELSE Step(f[n - 1], n)]
    BY <1>0, <1>2
  <2> DEFINE g == [n \in 0..(k + 1) |-> IF n = 0 THEN m0 ELSE Step(f[n - 1], n)]
  <2>2. \A n \in 0..k : n \in 0..(k + 1) /\ g[n] = f[n]
    <3> SUFFICES ASSUME NEW n \in 0..k PROVE n \in 0..(k + 1) /\ g[n] = f[n]
      OBVIOUS
    <3>1. n \in 0..(k + 1)
      OBVIOUS
    <3>2. f[n] = IF n = 0 THEN m0 ELSE Step(f[n - 1], n)
      BY <2>1, Zenon
    <3>3. g[n] = IF n = 0 THEN m0 ELSE Step(f[n - 1], n)
      BY <3>1, Zenon
    <3> QED BY <3>1, <3>2, <3>3, Zenon
  <2>3. \A n \in 0..(k + 1) : n # 0 => g[n - 1] = f[n - 1]
    <3> SUFFICES ASSUME NEW n \in 0..(k + 1), n # 0 PROVE g[n - 1] = f[n - 1]
      OBVIOUS
    <3>1. n - 1 \in 0..k
      OBVIOUS
    <3> QED BY <2>2, <3>1
  <2>4. g = [n \in 0..(k + 1) |-> IF n = 0 THEN m0 ELSE Step(g[n - 1], n)]
    BY <2>3
  <2> HIDE DEF g
  <2>5. InsertTo(g, m0, m, k + 1)
    BY <1>0, <2>4
  <2> QED BY <2>5
<1> HIDE DEF Q
<1>3. \A k \in Nat : k \in Q
  BY <1>1, <1>2, NumberInduction
<1> QED BY <1>3 DEF Q

\* After n positions the copy has the elements at the stops before n.
LEMMA CopyOK ==
    ASSUME NEW m, MapOK(m), Fits(m), NEW m0, MapOK(m0), m0.is_strtable = m.is_strtable,
           Blanks(m0), NEW c, c = InsertAll(m0, m)
    PROVE  MapOK(c) /\ c.is_strtable = m.is_strtable /\ GivesSame(c, m)
<1> DEFINE k == array_size(m) + upb_table_size(m.t)
           f == CHOOSE g : g = [n \in 0..k |-> IF n = 0 THEN m0
                   ELSE IF n - 1 \notin Stops(m) THEN g[n - 1]
                   ELSE _upb_Map_Insert(g[n - 1], upb_MapIterator_Key(m, n - 1),
                                        upb_MapIterator_Value(m, n - 1), {}).map]
           Passed(n, i) == \E x \in Stops(m) : x < n /\ upb_MapIterator_Key(m, x) = i
           P(n) == /\ PartOf(f[n], m)
                   /\ \A i \in Keys(m) : _upb_Map_Get(f[n], i) =
                                           IF Passed(n, i) THEN _upb_Map_Get(m, i) ELSE Missing
           Q == {n \in Nat : n <= k => P(n)}
<1>1. c = f[k]
  BY DEF InsertAll
<1>2. k \in Nat /\ Stops(m) \subseteq Nat /\ \A x \in Stops(m) : x < k
  <2>1. array_size(m) \in Nat /\ m.t.mask \in Nat
    BY ArraySize, CountNat DEF MapOK
  <2> QED BY <2>1, StopsAre DEF Stops, upb_table_size
<1>3. InsertTo(f, m0, m, k)
  <2>1. PICK g : InsertTo(g, m0, m, k)
    <3> HIDE DEF k
    <3> QED BY <1>2, InsertionsExist
  <2> QED BY <2>1, Zenon DEF InsertTo
<1> HIDE DEF f, k
<1>4. f[0] = m0
  <2>1. 0 \in 0..k
    BY <1>2
  <2> QED BY <1>3, <2>1 DEF InsertTo
<1>5. ASSUME NEW n \in Nat, n + 1 <= k
      PROVE  f[n + 1] = IF n \notin Stops(m) THEN f[n]
                        ELSE _upb_Map_Insert(f[n], upb_MapIterator_Key(m, n),
                                             upb_MapIterator_Value(m, n), {}).map
  <2>1. n + 1 \in 0..k /\ n + 1 # 0 /\ (n + 1) - 1 = n
    BY <1>2, <1>5
  <2>2. f[n + 1] = IF n + 1 = 0 THEN m0
                   ELSE IF (n + 1) - 1 \notin Stops(m) THEN f[(n + 1) - 1]
                   ELSE _upb_Map_Insert(f[(n + 1) - 1], upb_MapIterator_Key(m, (n + 1) - 1),
                                        upb_MapIterator_Value(m, (n + 1) - 1), {}).map
    BY <1>3, <2>1, Zenon DEF InsertTo
  <2> QED BY <2>1, <2>2
<1>6. 0 \in Q
  <2>2. /\ Used(m0.t) = {} /\ \A i \in Small(m0) : m0.array[i] = Missing
    BY DEF Blanks
  <2>3. Keys(m0) = Keys(m)
    BY DEF Keys
  <2>4. ASSUME NEW i \in Keys(m) PROVE _upb_Map_Get(m0, i) = Missing
    <3>1. CASE i \in Small(m0)
      BY <2>2, <3>1, GetSmall DEF MapOK
    <3>2. CASE i \in Hashable(m0)
      BY <2>2, <3>2, GetMissing
    <3> QED BY <2>3, <3>1, <3>2, MapKeys
  <2>5. \A i : ~ Passed(0, i)
    BY <1>2
  <2> HIDE DEF Passed
  <2> QED BY <1>4, <2>2, <2>4, <2>5 DEF PartOf
<1>7. ASSUME NEW n \in Nat, n \in Q PROVE n + 1 \in Q
  <2> SUFFICES ASSUME n + 1 <= k PROVE P(n + 1)
    OBVIOUS
  <2>1. P(n)
    BY <1>2, <1>7
  <2>2. CASE n \notin Stops(m)
    <3>1. f[n + 1] = f[n]
      BY <1>5, <2>2
    <3>2. \A i : Passed(n + 1, i) <=> Passed(n, i)
      BY <1>2, <2>2
    <3> HIDE DEF Passed
    <3> QED BY <2>1, <3>1, <3>2
  <2>3. CASE n \in Stops(m)
    <3> DEFINE j == upb_MapIterator_Key(m, n)
               v == upb_MapIterator_Value(m, n)
    <3>1. f[n + 1] = _upb_Map_Insert(f[n], j, v, {}).map
      BY <1>5, <2>3
    <3>2. j \in Keys(m) /\ v \in Vals /\ v = _upb_Map_Get(m, j)
      BY <2>3, StopIsElement
    <3>3. ~ Passed(n, j)
      BY <1>2, <2>3, StopKeysDiffer
    <3>4. \A i : Passed(n + 1, i) <=> Passed(n, i) \/ i = j
      BY <1>2, <2>3
    <3> HIDE DEF Passed, j, v
    <3>5. PartOf(f[n], m) /\ _upb_Map_Get(f[n], j) = Missing
      BY <2>1, <3>2, <3>3
    <3>6. PartOf(f[n + 1], m) /\ Gives(f[n + 1], f[n], j, v)
      BY <3>1, <3>2, <3>5, PartGrows
    <3>7. Keys(f[n]) = Keys(m)
      BY <3>5 DEF PartOf, Keys
    <3> QED BY <2>1, <3>2, <3>4, <3>6, <3>7 DEF Gives
  <2> QED BY <2>2, <2>3
<1> HIDE DEF Q
<1>8. \A n \in Nat : n \in Q
  BY <1>6, <1>7, NumberInduction
<1>9. P(k)
  BY <1>2, <1>8 DEF Q
<1>10. ASSUME NEW i \in Keys(m) PROVE _upb_Map_Get(c, i) = _upb_Map_Get(m, i)
  <2>1. CASE _upb_Map_Get(m, i) = Missing
    BY <1>1, <1>9, <2>1
  <2>2. CASE _upb_Map_Get(m, i) # Missing
    <3>1. Passed(k, i)
      BY <1>2, <2>2, ElementHasStop
    <3> QED BY <1>1, <1>9, <3>1
  <2> QED BY <2>1, <2>2
<1> QED BY <1>1, <1>9, <1>10 DEF PartOf, GivesSame

LEMMA CloneOK ==
    ASSUME NEW m, MapOK(m), Fits(m), NEW c, c = MapField_clone_obj(m)
    PROVE  MapOK(c) /\ c.is_strtable = m.is_strtable /\ GivesSame(c, m)
<1> DEFINE m0 == _upb_Map_New(m.is_strtable)
<1>1. m.is_strtable \in BOOLEAN
  BY DEF MapOK, MapTyped
<1>2. MapOK(m0) /\ m0.is_strtable = m.is_strtable /\ Blanks(m0)
  BY <1>1, NewMapOK
<1>3. c = InsertAll(m0, m)
  BY DEF MapField_clone_obj
<1> HIDE DEF m0
<1> QED BY <1>2, <1>3, CopyOK

\* Numbers at finitely many positions have a largest one.
LEMMA ImageBounded ==
    ASSUME NEW I, I \subseteq Nat, NEW f \in [I -> Nat], NEW k \in Nat, \A i \in I : i < k
    PROVE  \E b \in Nat : \A i \in I : f[i] <= b
<1> DEFINE Q == {n \in Nat : \E b \in Nat : \A i \in I : i < n => f[i] <= b}
<1>1. 0 \in Q
  OBVIOUS
<1>2. ASSUME NEW n \in Nat, n \in Q PROVE n + 1 \in Q
  <2>1. PICK b \in Nat : \A i \in I : i < n => f[i] <= b
    BY <1>2
  <2>2. CASE n \notin I
    <3>1. \A i \in I : i < n + 1 => f[i] <= b
      BY <2>1, <2>2
    <3> QED BY <3>1
  <2>3. CASE n \in I
    <3>1. f[n] \in Nat /\ b + f[n] \in Nat
      BY <2>3
    <3>2. \A i \in I : i < n + 1 => f[i] <= b + f[n]
      BY <2>1, <3>1
    <3> QED BY <3>1, <3>2
  <2> QED BY <2>2, <2>3
<1> HIDE DEF Q
<1>3. k \in Q
  BY <1>1, <1>2, NumberInduction
<1> QED BY <1>3 DEF Q

LEMMA MaxIsGreatest ==
    ASSUME NEW S, S \subseteq Nat, S # {}, NEW b \in Nat, \A x \in S : x <= b
    PROVE  Max(S) \in S /\ \A x \in S : x <= Max(S)
<1> DEFINE U == {n \in Nat : \A x \in S : x <= n}
<1>1. PICK u \in U : \A n \in U : u <= n
  <2>1. U \subseteq Nat /\ b \in U
    OBVIOUS
  <2> HIDE DEF U
  <2> QED BY <2>1, LeastNumber
<1>2. u \in S
  <2> SUFFICES ASSUME u \notin S PROVE FALSE
    OBVIOUS
  <2>1. PICK x \in S : TRUE
    OBVIOUS
  <2>2. u \in Nat /\ u - 1 \in Nat
    BY <2>1
  <2>3. \A y \in S : y <= u - 1
    BY <2>2
  <2> QED BY <1>1, <2>2, <2>3
<1>3. \A x \in S : u >= x
  OBVIOUS
<1>4. \E x \in S : \A y \in S : x >= y
  BY <1>2, <1>3
<1>5. Max(S) \in S /\ \A y \in S : Max(S) >= y
  BY <1>4 DEF Max
<1> QED BY <1>5

\* Whatever the keys are, the array of a compaction has a size, and its table a
\* power of two.
LEMMA CompactSizes ==
    ASSUME NEW m, MapOK(m)
    PROVE  \E asize \in Nat, size \in TableSizes :
               upb_inttable_compact(m) = InsertAll(upb_inttable_sizedinit(asize, size), m)
<1> DEFINE keys       == {upb_MapIterator_Key(m, i) : i \in Stops(m)}
           upto(l)    == {k \in keys : log2ceil(k) <= l}
           dense      == {l \in 1..16 : /\ \E k \in keys : log2ceil(k) = l
                                        /\ 10 * Cardinality(upto(l)) >= 2 ^ l}
           size_lg2   == IF dense = {} THEN 0 ELSE Max(dense)
           largest    == {0} \cup {k \in keys : log2ceil(k) = size_lg2}
           hash_count == Cardinality(keys) - Cardinality(upto(size_lg2))
           hash_size  == IF hash_count = 0 THEN 0
                         ELSE hash_count + 1 + hash_count \div 7
<1>1. upb_inttable_compact(m) =
        InsertAll(upb_inttable_sizedinit(Max(largest) + 1, 2 ^ log2ceil(hash_size)), m)
  BY Zenon DEF upb_inttable_compact
<1>2. largest \subseteq keys \cup {0}
  OBVIOUS
<1>3. largest # {}
  OBVIOUS
<1> HIDE DEF upto, dense, size_lg2, largest, hash_count, hash_size
<1>4. Max(largest) \in Nat
  <2> DEFINE f == [i \in Stops(m) |-> upb_MapIterator_Key(m, i)]
             k == array_size(m) + upb_table_size(m.t)
  <2>1. ASSUME NEW i \in Stops(m) PROVE upb_MapIterator_Key(m, i) \in Nat
    BY StopIsElement, MapKeys
  <2>2. k \in Nat /\ Stops(m) \subseteq Nat /\ \A x \in Stops(m) : x < k
    <3>1. array_size(m) \in Nat /\ m.t.mask \in Nat
      BY ArraySize, CountNat DEF MapOK
    <3> QED BY <3>1, StopsAre DEF Stops, upb_table_size
  <2>3. f \in [Stops(m) -> Nat]
    BY <2>1
  <2>4. keys = {f[i] : i \in Stops(m)}
    OBVIOUS
  <2> HIDE DEF f, k, keys
  <2>5. PICK b \in Nat : \A i \in Stops(m) : f[i] <= b
    BY <2>2, <2>3, ImageBounded
  <2>6. largest \subseteq Nat /\ \A x \in largest : x <= b
    BY <1>2, <2>3, <2>4, <2>5
  <2> QED BY <1>3, <2>5, <2>6, MaxIsGreatest
<1>5. 2 ^ log2ceil(hash_size) \in TableSizes
  <2> DEFINE L == {16} \cup {l \in 0..16 : 2 ^ l >= hash_size}
  <2>1. L \subseteq 0..16 /\ L \subseteq Nat /\ L # {}
    OBVIOUS
  <2>2. log2ceil(hash_size) = IF hash_size = 0 THEN 0 ELSE Min(L)
    BY DEF log2ceil
  <2> HIDE DEF L
  <2>3. Min(L) \in 0..16
    BY <2>1, MinIsLeast
  <2>4. log2ceil(hash_size) \in 0..30
    BY <2>2, <2>3
  <2> QED BY <2>4, PowersAreSizes
<1>6. Max(largest) + 1 \in Nat
  BY <1>4
<1> QED BY <1>1, <1>5, <1>6

LEMMA CompactOK ==
    ASSUME NEW m, MapOK(m), Fits(m), ~ m.is_strtable, NEW c, c = upb_inttable_compact(m)
    PROVE  MapOK(c) /\ c.is_strtable = m.is_strtable /\ GivesSame(c, m)
<1>1. PICK asize \in Nat, size \in TableSizes :
           c = InsertAll(upb_inttable_sizedinit(asize, size), m)
  BY CompactSizes
<1>2. PICK m0 : m0 = upb_inttable_sizedinit(asize, size)
  OBVIOUS
<1>3. MapOK(m0) /\ Blanks(m0) /\ ~ m0.is_strtable
  BY <1>2, SizedInitOK
<1>4. m0.is_strtable \in BOOLEAN /\ m.is_strtable \in BOOLEAN
  BY <1>3 DEF MapOK, MapTyped
<1>5. m0.is_strtable = m.is_strtable
  BY <1>3, <1>4
<1> QED BY <1>1, <1>2, <1>3, <1>5, CopyOK

\* Maps that give the same are equal for upb_Map_IsEqual.
LEMMA SameIsEqual ==
    ASSUME NEW m, MapOK(m), NEW c, MapOK(c), c.is_strtable = m.is_strtable, GivesSame(c, m)
    PROVE  MapEq(m, c) /\ MapEq(c, m)
<1>1. Keys(c) = Keys(m) /\ \A i \in Keys(m) : _upb_Map_Get(c, i) = _upb_Map_Get(m, i)
  BY DEF Keys, GivesSame
<1>2. Present(c, Keys(c)) = Present(m, Keys(m))
  BY <1>1 DEF Present
<1>3. _upb_Map_Size(c) = _upb_Map_Size(m)
  BY <1>2, SizeIsPresent
<1>4. ASSUME NEW i \in Stops(m)
      PROVE  _upb_Map_Get(c, upb_MapIterator_Key(m, i)) = upb_MapIterator_Value(m, i)
  BY <1>1, StopIsElement
<1>5. ASSUME NEW i \in Stops(c)
      PROVE  _upb_Map_Get(m, upb_MapIterator_Key(c, i)) = upb_MapIterator_Value(c, i)
  <2>1. upb_MapIterator_Key(c, i) \in Keys(c)
        /\ _upb_Map_Get(c, upb_MapIterator_Key(c, i)) = upb_MapIterator_Value(c, i)
    BY StopIsElement
  <2> QED BY <1>1, <2>1
<1> QED BY <1>3, <1>4, <1>5 DEF MapEq

-----------------------------------------------------------------------------
(* The state: the map is well formed, the dictionary is what lookups give, *)
(* and an undisturbed iterator has seen the keys up to its position.       *)

SeenUpTo(m, i) == {upb_MapIterator_Key(m, j) : j \in {x \in Stops(m) : x <= i}}

MapInv ==
    /\ MapOK(map) /\ Fits(map) /\ LookupsAgree
    /\ dict \in [AllKeys -> Vals \cup {Missing}]
    /\ pos \in Nat
    /\ since = "nothing" => ~ twice /\ seen = SeenUpTo(map, pos)

LEMMA KeysInAll == Keys(map) \subseteq AllKeys
BY DEF Keys, AllKeys

\* What is found after a change of one key is what the changed dictionary has.
LEMMA DictAssign ==
    ASSUME MapInv, NEW k \in Keys(map), NEW v \in Vals \cup {Missing},
           Like(map', map), Gives(map', map, k, v),
           dict' = [dict EXCEPT ![k] = v]
    PROVE  LookupsAgree' /\ dict' \in [AllKeys -> Vals \cup {Missing}]
<1>1. Keys(map') = Keys(map)
  BY LikeSame
<1>2. dict \in [AllKeys -> Vals \cup {Missing}] /\ \A i \in Keys(map) : _upb_Map_Get(map, i) = dict[i]
  BY DEF MapInv, LookupsAgree
<1>3. dict' \in [AllKeys -> Vals \cup {Missing}]
  BY <1>2
<1>4. ASSUME NEW i \in Keys(map) PROVE _upb_Map_Get(map', i) = dict'[i]
  <2>1. _upb_Map_Get(map', i) = IF i = k THEN v ELSE dict[i]
    BY <1>2 DEF Gives
  <2>2. i \in AllKeys
    BY KeysInAll
  <2> QED BY <1>2, <2>1, <2>2
<1> QED BY <1>1, <1>3, <1>4 DEF LookupsAgree

\* A change of the map is not an undisturbed iteration.
LEMMA ChangedEnds ==
    ASSUME NEW how, MapInv, Changed(how), how \in {"replaced", "changed"}
    PROVE  pos' \in Nat /\ since' # "nothing"
BY DEF Changed, MapInv

LEMMA SeenSame ==
    ASSUME MapInv, UNCHANGED iter, Stops(map') = Stops(map),
           \A j \in Stops(map) : upb_MapIterator_Key(map', j) = upb_MapIterator_Key(map, j)
    PROVE  pos' \in Nat /\ (since' = "nothing" => ~ twice' /\ seen' = SeenUpTo(map', pos'))
<1>1. pos' = pos /\ seen' = seen /\ twice' = twice /\ since' = since
  BY DEF iter
<1>2. SeenUpTo(map', pos) = SeenUpTo(map, pos)
  BY DEF SeenUpTo
<1> QED BY <1>1, <1>2 DEF MapInv

LEMMA InitInv == Init => MapInv
<1> SUFFICES ASSUME Init PROVE MapInv
  OBVIOUS
<1>1. PICK s \in BOOLEAN : map = _upb_Map_New(s)
  BY DEF Init
<1>2. /\ MapOK(map) /\ Fits(map)
      /\ Used(map.t) = {} /\ \A i \in Small(map) : map.array[i] = Missing
  BY <1>1, NewMapOK DEF Blanks
<1>3. dict = [k \in AllKeys |-> Missing]
  BY DEF Init, D!DictInit
<1>4. LookupsAgree
  <2> SUFFICES ASSUME NEW k \in Keys(map) PROVE _upb_Map_Get(map, k) = dict[k]
    BY DEF LookupsAgree
  <2>1. dict[k] = Missing
    BY <1>3, KeysInAll
  <2>2. CASE k \in Small(map)
    BY <1>2, <2>1, <2>2, GetSmall DEF MapOK
  <2>3. CASE k \in Hashable(map)
    <3>1. _upb_Map_Get(map, k) = Missing
      BY <1>2, <2>3, GetMissing
    <3> QED BY <2>1, <3>1
  <2> QED BY <1>2, <2>2, <2>3, MapKeys
<1>5. dict \in [AllKeys -> Vals \cup {Missing}]
  BY <1>3
<1>6. pos \in Nat /\ since # "nothing"
  BY DEF Init
<1> QED BY <1>2, <1>4, <1>5, <1>6 DEF MapInv

LEMMA OffsetSetInv ==
    ASSUME MapInv, NEW k \in Keys(map), NEW v \in Vals, NEW f, offsetSet(k, v, f)
    PROVE  MapInv'
<1> DEFINE done == _upb_Map_Insert(map, k, v, f)
<1>1. /\ MapOK(done.map) /\ Like(done.map, map)
      /\ done.status # "OutOfMemory" => Gives(done.map, map, k, v)
      /\ done.status = "OutOfMemory" /\ "value" \notin f => Gives(done.map, map, k, Missing)
      /\ "value" \in f => done.status = "OutOfMemory" /\ done.map = map
  BY MapInsertOK DEF MapInv
<1>2. /\ map' = done.map
      /\ \/ done.status # "OutOfMemory" /\ dict' = [dict EXCEPT ![k] = v]
         \/ done.status = "OutOfMemory" /\ "value" \notin f /\ dict' = [dict EXCEPT ![k] = Missing]
         \/ "value" \in f /\ dict' = dict
      /\ IF done.map = map THEN UNCHANGED iter
         ELSE Changed(IF done.status = "Replaced" THEN "replaced" ELSE "changed")
  BY Zenon DEF offsetSet, D!Assign, D!Drop
<1> HIDE DEF done
<1>3. LookupsAgree' /\ dict' \in [AllKeys -> Vals \cup {Missing}]
  <2>1. CASE done.status # "OutOfMemory" /\ dict' = [dict EXCEPT ![k] = v]
    BY <1>1, <1>2, <2>1, DictAssign
  <2>2. CASE done.status = "OutOfMemory" /\ "value" \notin f /\ dict' = [dict EXCEPT ![k] = Missing]
    <3>1. Gives(map', map, k, Missing) /\ Like(map', map)
      BY <1>1, <1>2, <2>2
    <3> QED BY <2>2, <3>1, DictAssign
  <2>3. CASE "value" \in f /\ dict' = dict
    <3>1. map' = map /\ dict' = dict
      BY <1>1, <1>2, <2>3
    <3> QED BY <3>1 DEF MapInv, LookupsAgree
  <2> QED BY <1>2, <2>1, <2>2, <2>3
<1>4. pos' \in Nat /\ (since' = "nothing" => ~ twice' /\ seen' = SeenUpTo(map', pos'))
  <2>1. CASE done.map = map
    BY <1>2, <2>1, SeenSame
  <2>2. CASE done.map # map
    <3> DEFINE how == IF done.status = "Replaced" THEN "replaced" ELSE "changed"
    <3>1. how \in {"replaced", "changed"} /\ Changed(how)
      BY <1>2, <2>2
    <3> HIDE DEF how
    <3> QED BY <3>1, ChangedEnds
  <2> QED BY <2>1, <2>2
<1>5. MapOK(map') /\ Fits(map')
  BY <1>1, <1>2, LikeSame DEF MapInv
<1> QED BY <1>3, <1>4, <1>5 DEF MapInv

LEMMA OffsetUnsetInv ==
    ASSUME MapInv, NEW k \in Keys(map), offsetUnset(k)
    PROVE  MapInv'
<1> DEFINE gone == Remove(map, k)
<1>1. /\ MapOK(gone.map) /\ Like(gone.map, map)
      /\ Gives(gone.map, map, k, Missing) /\ gone.removed \in BOOLEAN
      /\ ~ gone.removed => gone.map = map
  BY RemoveOK DEF MapInv
<1>2. /\ map' = gone.map /\ dict' = [dict EXCEPT ![k] = Missing]
      /\ IF gone.removed THEN Changed("changed") ELSE UNCHANGED iter
  BY Zenon DEF offsetUnset, D!Drop
<1> HIDE DEF gone
<1>3. LookupsAgree' /\ dict' \in [AllKeys -> Vals \cup {Missing}]
  BY <1>1, <1>2, DictAssign
<1>4. pos' \in Nat /\ (since' = "nothing" => ~ twice' /\ seen' = SeenUpTo(map', pos'))
  <2>1. CASE gone.removed
    BY <1>2, <2>1, ChangedEnds
  <2>2. CASE ~ gone.removed
    <3>1. map' = map /\ UNCHANGED iter
      BY <1>1, <1>2, <2>2
    <3> QED BY <3>1, SeenSame
  <2> QED BY <1>1, <2>1, <2>2
<1>5. MapOK(map') /\ Fits(map')
  BY <1>1, <1>2, LikeSame DEF MapInv
<1> QED BY <1>3, <1>4, <1>5 DEF MapInv

LEMMA ClearInv ==
    ASSUME MapInv, Clear
    PROVE  MapInv'
<1>1. /\ MapOK(map') /\ Like(map', map)
      /\ \A i \in Keys(map) : _upb_Map_Get(map', i) = Missing
  BY MapClearOK DEF MapInv, Clear
<1>2. dict' = [i \in AllKeys |-> Missing] /\ Changed("changed")
  BY DEF Clear, D!DropAll
<1>3. Keys(map') = Keys(map) /\ Fits(map')
  BY <1>1, LikeSame DEF MapInv
<1>4. LookupsAgree' /\ dict' \in [AllKeys -> Vals \cup {Missing}]
  BY <1>1, <1>2, <1>3, KeysInAll DEF LookupsAgree
<1>5. pos' \in Nat /\ since' # "nothing"
  BY <1>2, ChangedEnds
<1> QED BY <1>1, <1>3, <1>4, <1>5 DEF MapInv

LEMMA SetEntryInv ==
    ASSUME MapInv, NEW v \in Vals, SetEntryValue(v)
    PROVE  MapInv'
<1> DEFINE k == upb_MapIterator_Key(map, pos)
<1>1. /\ ~ upb_MapIterator_Done(map, pos) /\ map' = upb_Map_SetEntryValue(map, pos, v)
      /\ dict' = [dict EXCEPT ![k] = v] /\ UNCHANGED iter
  BY DEF SetEntryValue, D!Assign
<1>2. pos \in Stops(map)
  <2>1. pos \in Nat /\ array_size(map) \in Nat /\ map.t.mask \in Nat
    BY CountNat, ArraySize DEF MapInv, MapOK
  <2>2. ~(pos >= array_size(map) + (map.t.mask + 1))
    BY <1>1 DEF upb_MapIterator_Done, upb_table_size
  <2>3. pos \in 0..(array_size(map) + map.t.mask)
    BY <2>1, <2>2
  <2> QED BY <1>1, <2>3 DEF Stops
<1>3. k \in Keys(map)
  BY <1>2, StopIsElement DEF MapInv
<1> HIDE DEF k
<1>4. /\ MapOK(map') /\ Like(map', map) /\ Gives(map', map, k, v)
      /\ Stops(map') = Stops(map)
      /\ \A j \in Stops(map) : upb_MapIterator_Key(map', j) = upb_MapIterator_Key(map, j)
  BY <1>1, <1>2, SetEntryOK DEF MapInv, k
<1>5. LookupsAgree' /\ dict' \in [AllKeys -> Vals \cup {Missing}]
  BY <1>1, <1>3, <1>4, DictAssign
<1>6. pos' \in Nat /\ (since' = "nothing" => ~ twice' /\ seen' = SeenUpTo(map', pos'))
  BY <1>1, <1>4, SeenSame
<1>7. Fits(map')
  BY <1>4, LikeSame DEF MapInv
<1> QED BY <1>4, <1>5, <1>6, <1>7 DEF MapInv

\* A step of an iterator from i, with the keys up to i behind it.
LEMMA StopAtInv ==
    ASSUME MapInv, NEW i \in Int, i >= Begin, NEW before, before = SeenUpTo(map, i),
           since' = "nothing", StopAt(_upb_map_next(map, i), before),
           ~ twice \/ before = {}
    PROVE  pos' \in Nat /\ ~ twice' /\ seen' = SeenUpTo(map, pos')
<1> DEFINE j == _upb_map_next(map, i)
           k == upb_MapIterator_Key(map, j)
<1>1. MapOK(map) /\ Fits(map) /\ Stops(map) \subseteq Nat /\ \A x \in Stops(map) : x < End
  BY StopsAre DEF MapInv
<1>2. /\ pos' = j /\ seen' = (IF j # End THEN before \cup {k} ELSE before)
      /\ twice' = ((j # End /\ k \in before) \/ (twice /\ before # {}))
  BY DEF StopAt
<1>3. \/ j \in Stops(map) /\ j > i /\ \A x \in Stops(map) : x > i => x >= j
      \/ j = End /\ \A x \in Stops(map) : ~(x > i)
  BY <1>1, NextStop
<1> HIDE DEF j
<1>4. End \in Nat
  BY DEF End
<1>5. CASE j \in Stops(map) /\ j > i /\ \A x \in Stops(map) : x > i => x >= j
  <2>1. j \in Nat /\ j # End
    BY <1>1, <1>4, <1>5
  <2>2. \A x \in Stops(map) : x <= j <=> x <= i \/ x = j
    BY <1>1, <1>5, <2>1
  <2>3. SeenUpTo(map, j) = SeenUpTo(map, i) \cup {k}
    BY <1>5, <2>1, <2>2 DEF SeenUpTo
  <2>4. k \notin before
    <3> SUFFICES ASSUME k \in before PROVE FALSE
      OBVIOUS
    <3>1. PICK x \in Stops(map) : x <= i /\ upb_MapIterator_Key(map, x) = k
      BY DEF SeenUpTo
    <3>2. x = j
      BY <1>1, <1>5, <3>1, StopKeysDiffer
    <3> QED BY <1>5, <2>1, <3>1, <3>2
  <2> HIDE DEF k
  <2> QED BY <1>2, <2>1, <2>3, <2>4
<1>6. CASE j = End /\ \A x \in Stops(map) : ~(x > i)
  <2>1. \A x \in Stops(map) : x <= j <=> x <= i
    BY <1>1, <1>4, <1>6
  <2>2. SeenUpTo(map, j) = SeenUpTo(map, i)
    BY <2>1 DEF SeenUpTo
  <2> QED BY <1>2, <1>4, <1>6, <2>2
<1> QED BY <1>3, <1>5, <1>6

LEMMA RewindInv ==
    ASSUME MapInv, rewind
    PROVE  MapInv'
<1>1. since' = "nothing" /\ StopAt(_upb_map_next(map, Begin), {}) /\ map' = map /\ dict' = dict
  BY DEF rewind
<1>2. {} = SeenUpTo(map, Begin) /\ Begin \in Int /\ Begin >= Begin
  BY StopsAre DEF SeenUpTo, Begin, MapInv
<1>3. pos' \in Nat /\ ~ twice' /\ seen' = SeenUpTo(map, pos')
  BY <1>1, <1>2, StopAtInv
<1> QED BY <1>1, <1>3 DEF MapInv, LookupsAgree

LEMMA AdvanceInv ==
    ASSUME MapInv, Advance
    PROVE  MapInv'
<1>1. since' = since /\ StopAt(_upb_map_next(map, pos), seen) /\ map' = map /\ dict' = dict
  BY DEF Advance
<1>2. pos \in Int /\ pos >= Begin /\ MapOK(map) /\ Fits(map)
  BY DEF MapInv, Begin
<1>3. pos' \in Nat
  <2>1. pos' = _upb_map_next(map, pos)
    BY <1>1 DEF StopAt
  <2>2. _upb_map_next(map, pos) \in Stops(map) \/ _upb_map_next(map, pos) = End
    BY <1>2, NextStop
  <2> QED BY <1>2, <2>1, <2>2, StopsAre DEF End
<1>4. since' = "nothing" => ~ twice' /\ seen' = SeenUpTo(map, pos')
  <2> SUFFICES ASSUME since' = "nothing" PROVE ~ twice' /\ seen' = SeenUpTo(map, pos')
    OBVIOUS
  <2>1. ~ twice /\ seen = SeenUpTo(map, pos)
    BY <1>1 DEF MapInv
  <2> QED BY <1>1, <1>2, <2>1, StopAtInv
<1> QED BY <1>1, <1>3, <1>4 DEF MapInv, LookupsAgree

LEMMA NextInv == MapInv /\ [Next]_vars => MapInv'
<1> SUFFICES ASSUME MapInv, [Next]_vars PROVE MapInv'
  OBVIOUS
<1>1. CASE UNCHANGED vars
  BY <1>1 DEF vars, iter, MapInv, LookupsAgree
<1>2. CASE Next
  BY <1>2, OffsetSetInv, OffsetUnsetInv, ClearInv, SetEntryInv, RewindInv, AdvanceInv DEF Next
<1> QED BY <1>1, <1>2

\* The invariant holds in every reachable state of every map, of any keys,
\* any hash function and any table size.
THEOREM MapInvariant == Spec => []MapInv
<1> QED BY InitInv, NextInv, PTL DEF Spec

\* upb_Map_Get finds exactly what the dictionary holds, whatever was inserted,
\* replaced, removed, resized or failed (upb/hash/common.c insert, rm, resize).
THEOREM LookupsAreRight == Spec => []LookupsAgree
<1>1. MapInv => LookupsAgree
  BY DEF MapInv
<1> QED BY <1>1, MapInvariant, PTL

\* Every position an iteration stops at holds an element that a lookup finds
\* there, and upb_Map_Size counts them.
THEOREM StopsAreReal == Spec => []StopsAreElements
<1>1. MapInv => StopsAreElements
  <2> SUFFICES ASSUME MapInv PROVE StopsAreElements
    OBVIOUS
  <2>1. MapOK(map)
    BY DEF MapInv
  <2>2. _upb_Map_Size(map) = Cardinality(Stops(map))
    BY <2>1, SizeCountsStops
  <2>3. ASSUME NEW i \in Stops(map)
        PROVE  LET k == upb_MapIterator_Key(map, i)
               IN  /\ _upb_Map_Get(map, k) = upb_MapIterator_Value(map, i)
                   /\ i >= array_size(map) => Find(map, k) = i - array_size(map)
    BY <2>1, StopIsElement
  <2> QED BY <2>2, <2>3 DEF StopsAreElements
<1> QED BY <1>1, MapInvariant, PTL

\* A foreach that nothing disturbed stops at every key exactly once.
THEOREM IterationsAreExact == Spec => []IterationExact
<1>1. MapInv => IterationExact
  <2> SUFFICES ASSUME MapInv, since = "nothing", pos = End
               PROVE  seen = {k \in Keys(map) : dict[k] # Missing}
    BY DEF MapInv, IterationExact
  <2>1. MapOK(map) /\ Fits(map) /\ seen = SeenUpTo(map, End) /\ LookupsAgree
    BY DEF MapInv
  <2>2. \A j \in Stops(map) : j <= End
    BY <2>1, StopsAre DEF End
  <2>3. ASSUME NEW k \in seen PROVE k \in Keys(map) /\ dict[k] # Missing
    <3>1. PICK j \in Stops(map) : upb_MapIterator_Key(map, j) = k
      BY <2>1, <2>3 DEF SeenUpTo
    <3>2. k \in Keys(map) /\ _upb_Map_Get(map, k) \in Vals
      BY <2>1, <3>1, StopIsElement
    <3> QED BY <2>1, <3>2, Constants DEF LookupsAgree
  <2>4. ASSUME NEW k \in Keys(map), dict[k] # Missing PROVE k \in seen
    <3>1. _upb_Map_Get(map, k) # Missing
      BY <2>1, <2>4 DEF LookupsAgree
    <3>2. PICK j \in Stops(map) : upb_MapIterator_Key(map, j) = k
      BY <2>1, <3>1, ElementHasStop
    <3> QED BY <2>1, <2>2, <3>2 DEF SeenUpTo
  <2> QED BY <2>3, <2>4
<1> QED BY <1>1, MapInvariant, PTL

\* A clone has the elements of the map, in a table of its own size: no
\* insertion into it needs a larger table than the map has.
LEMMA ClonesAreEqual == MapInv => CloneAgrees
<1> SUFFICES ASSUME MapInv PROVE CloneAgrees
  OBVIOUS
<1> DEFINE c == MapField_clone_obj(map)
<1>1. MapOK(map) /\ Fits(map)
  BY DEF MapInv
<1>2. MapOK(c) /\ c.is_strtable = map.is_strtable /\ GivesSame(c, map)
  BY <1>1, CloneOK
<1>3. MapEq(map, c) /\ MapEq(c, map)
  <2> HIDE DEF c
  <2> QED BY <1>1, <1>2, SameIsEqual
<1> QED BY <1>3 DEF CloneAgrees

\* So does a compaction, however it divides the keys between array and table.
LEMMA CompactionsAreEqual == MapInv => CompactAgrees
<1> SUFFICES ASSUME MapInv, ~ map.is_strtable
             PROVE  LET c == upb_inttable_compact(map) IN MapEq(map, c) /\ MapEq(c, map)
  BY DEF CompactAgrees
<1> DEFINE c == upb_inttable_compact(map)
<1>1. MapOK(map) /\ Fits(map)
  BY DEF MapInv
<1>2. MapOK(c) /\ c.is_strtable = map.is_strtable /\ GivesSame(c, map)
  BY <1>1, CompactOK
<1>3. MapEq(map, c) /\ MapEq(c, map)
  <2> HIDE DEF c
  <2> QED BY <1>1, <1>2, SameIsEqual
<1> QED BY <1>3

\* A copy that MapField_clone_obj or upb_inttable_compact builds from an
\* iteration has exactly the elements of the map.
THEOREM CopiesAreEqual == Spec => []CopiesAgree
<1>1. MapInv => CopiesAgree
  BY ClonesAreEqual, CompactionsAreEqual DEF CopiesAgree
<1> QED BY <1>1, MapInvariant, PTL
=============================================================================
