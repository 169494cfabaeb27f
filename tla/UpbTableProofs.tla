--------------------------- MODULE UpbTableProofs ---------------------------
(***************************************************************************)
(* Proofs about the hash tables of UpbTable, for every set of keys and     *)
(* values, every hash and every table size.  Two kinds of table: those     *)
(* entries leave one by one, by rm, whose every key is found (TableOK);    *)
(* and those that entries were taken out of during an iteration, by        *)
(* removeiter, of which less remains true (LooseTable).                    *)
(***************************************************************************)
EXTENDS UpbTable, FiniteSetTheorems, WellFoundedInduction, TLAPS

-----------------------------------------------------------------------------
(* Induction, stated with sets.                                            *)

\* A set of numbers with an element has a least one.
LEMMA LeastNumber ==
    ASSUME NEW S, S \subseteq Nat, S # {}
    PROVE  \E x \in S : \A y \in S : x <= y
<1>1. \E R : IsWellFoundedOn(R, Nat) /\ \A x, y \in Nat : x < y => <<x, y>> \in R
  <2>1. \A x, y \in Nat : x < y => <<x, y>> \in OpToRel(<, Nat)
    BY DEF OpToRel
  <2> QED BY <2>1, NatLessThanWellFounded, Zenon
<1>2. PICK R : IsWellFoundedOn(R, Nat) /\ \A x, y \in Nat : x < y => <<x, y>> \in R
  BY <1>1
<1>3. PICK x \in S : \A y \in S : ~(<<y, x>> \in R)
  <2>1. IsWellFoundedOn(R, Nat)
    BY <1>2
  <2> QED BY <2>1, WFMin
<1>4. ASSUME NEW y \in S PROVE x <= y
  <2>1. x \in Nat /\ y \in Nat /\ ~(y < x)
    BY <1>2, <1>3
  <2> QED BY <2>1
<1> QED BY <1>4

\* A set that holds 0 and, with each number, the next, holds all.
LEMMA NumberInduction ==
    ASSUME NEW S, 0 \in S, \A n \in Nat : n \in S => n + 1 \in S
    PROVE  \A n \in Nat : n \in S
<1> SUFFICES ASSUME Nat \ S # {} PROVE FALSE
  OBVIOUS
<1>1. PICK x \in Nat \ S : \A y \in Nat \ S : x <= y
  BY LeastNumber
<1>2. x # 0 /\ x - 1 \in Nat /\ ~(x <= x - 1)
  BY <1>1
<1>3. x - 1 \in S
  BY <1>1, <1>2
<1> QED BY <1>1, <1>2, <1>3

\* Min of the community modules is a least element.
LEMMA MinIsLeast ==
    ASSUME NEW S, S \subseteq Nat, S # {}
    PROVE  Min(S) \in S /\ \A y \in S : Min(S) <= y
BY LeastNumber DEF Min

-----------------------------------------------------------------------------
(* Chains, as a function of the entries E: Chain is what following `next'  *)
(* from e reaches.                                                         *)

Follow(E, m) == (m \cup {E[x].next : x \in m}) \ {Null}

ChainTo(f, E, e, k) == f = [n \in 0..k |-> IF n = 0 THEN {e} ELSE Follow(E, f[n - 1])]

NextClosed(E, S) == \A x \in S : E[x].next # Null => E[x].next \in S

LEMMA ChainsExist ==
    ASSUME NEW E, NEW e
    PROVE  \A k \in Nat : \E f : ChainTo(f, E, e, k)
<1> DEFINE Q == {k \in Nat : \E f : ChainTo(f, E, e, k)}
<1>1. 0 \in Q
  <2> DEFINE f == [n \in 0..0 |-> {e}]
  <2>1. \A n \in 0..0 : n = 0
    OBVIOUS
  <2>2. ChainTo(f, E, e, 0)
    BY <2>1 DEF ChainTo
  <2> QED BY <2>2
<1>2. ASSUME NEW k \in Nat, k \in Q PROVE k + 1 \in Q
  <2>1. PICK f : ChainTo(f, E, e, k)
    BY <1>2
  <2> DEFINE g == [n \in 0..(k + 1) |-> IF n = 0 THEN {e} ELSE Follow(E, f[n - 1])]
  <2>2. \A n \in 0..k : n \in 0..(k + 1) /\ g[n] = f[n]
    <3> SUFFICES ASSUME NEW n \in 0..k PROVE n \in 0..(k + 1) /\ g[n] = f[n]
      OBVIOUS
    <3>1. n \in 0..(k + 1)
      OBVIOUS
    <3>2. f[n] = IF n = 0 THEN {e} ELSE Follow(E, f[n - 1])
      BY <2>1, Zenon DEF ChainTo
    <3>3. g[n] = IF n = 0 THEN {e} ELSE Follow(E, f[n - 1])
      BY <3>1, Zenon
    <3> QED BY <3>1, <3>2, <3>3, Zenon
  <2>3. \A n \in 0..(k + 1) : n # 0 => g[n - 1] = f[n - 1]
    <3> SUFFICES ASSUME NEW n \in 0..(k + 1), n # 0 PROVE g[n - 1] = f[n - 1]
      OBVIOUS
    <3>1. n - 1 \in 0..k
      OBVIOUS
    <3> QED BY <2>2, <3>1
  <2>4. g = [n \in 0..(k + 1) |-> IF n = 0 THEN {e} ELSE Follow(E, g[n - 1])]
    BY <2>3
  <2> HIDE DEF g
  <2>5. ChainTo(g, E, e, k + 1)
    BY <2>4 DEF ChainTo
  <2> QED BY <2>5
<1> HIDE DEF Q
<1>3. \A k \in Nat : k \in Q
  BY <1>1, <1>2, NumberInduction
<1> QED BY <1>3 DEF Q

LEMMA ChainEquation ==
    ASSUME NEW f, NEW E, NEW e, NEW k \in Nat, ChainTo(f, E, e, k)
    PROVE  /\ f[0] = {e}
           /\ \A n \in Nat : n + 1 <= k => f[n + 1] = Follow(E, f[n])
<1>1. f = [n \in 0..k |-> IF n = 0 THEN {e} ELSE Follow(E, f[n - 1])]
  BY DEF ChainTo
<1>2. 0 \in 0..k
  OBVIOUS
<1>3. ASSUME NEW n \in Nat, n + 1 <= k PROVE f[n + 1] = Follow(E, f[n])
  <2>1. n + 1 \in 0..k /\ n + 1 # 0 /\ (n + 1) - 1 = n
    BY <1>3
  <2> QED BY <1>1, <2>1
<1> QED BY <1>1, <1>2, <1>3

\* A chain stays in every set that e is in and `next' does not leave.
LEMMA ChainInside ==
    ASSUME NEW f, NEW E, NEW e, NEW k \in Nat, ChainTo(f, E, e, k),
           NEW S, e \in S, NextClosed(E, S)
    PROVE  \A n \in Nat : n <= k => f[n] \subseteq S
<1> DEFINE Q == {n \in Nat : n <= k => f[n] \subseteq S}
<1>1. 0 \in Q
  BY ChainEquation
<1>2. ASSUME NEW n \in Nat, n \in Q PROVE n + 1 \in Q
  <2> SUFFICES ASSUME n + 1 <= k PROVE f[n + 1] \subseteq S
    OBVIOUS
  <2>1. f[n] \subseteq S
    BY <1>2
  <2>2. f[n + 1] = Follow(E, f[n])
    BY ChainEquation
  <2> QED BY <2>1, <2>2 DEF NextClosed, Follow
<1> HIDE DEF Q
<1>3. \A n \in Nat : n \in Q
  BY <1>1, <1>2, NumberInduction
<1> QED BY <1>3 DEF Q

\* After n steps a chain is complete or has met more than n entries.
LEMMA ChainGrows ==
    ASSUME NEW f, NEW E, NEW M, IsFiniteSet(M), Null \notin M, NEW e \in M,
           NextClosed(E, M), NEW k \in Nat, ChainTo(f, E, e, k)
    PROVE  \A n \in Nat : n <= k =>
               /\ f[n] \subseteq M /\ e \in f[n]
               /\ NextClosed(E, f[n]) \/ n + 1 <= Cardinality(f[n])
<1>0. \A n \in Nat : n <= k => f[n] \subseteq M
  BY ChainInside
<1> DEFINE P(n) == e \in f[n] /\ (NextClosed(E, f[n]) \/ n + 1 <= Cardinality(f[n]))
           Q == {n \in Nat : n <= k => P(n)}
<1>1. 0 \in Q
  <2>1. f[0] = {e} /\ Cardinality({e}) = 1
    BY ChainEquation, FS_Singleton
  <2> QED BY <2>1
<1>2. ASSUME NEW n \in Nat, n \in Q PROVE n + 1 \in Q
  <2> SUFFICES ASSUME n + 1 <= k PROVE P(n + 1)
    OBVIOUS
  <2>1. P(n) /\ f[n] \subseteq M /\ f[n + 1] \subseteq M
    BY <1>0, <1>2
  <2>2. f[n + 1] = Follow(E, f[n])
    BY ChainEquation
  <2>3. f[n] \subseteq f[n + 1]
    BY <2>1, <2>2 DEF Follow
  <2>4. CASE NextClosed(E, f[n])
    <3>1. f[n + 1] = f[n]
      BY <2>1, <2>2, <2>4 DEF NextClosed, Follow
    <3> QED BY <2>1, <2>4, <3>1
  <2>5. CASE ~NextClosed(E, f[n])
    <3>1. PICK y : y \in f[n + 1] /\ y \notin f[n]
      BY <2>2, <2>5 DEF NextClosed, Follow
    <3>2. IsFiniteSet(f[n]) /\ IsFiniteSet(f[n + 1])
      BY <2>1, FS_Subset
    <3>3. Cardinality(f[n] \cup {y}) = Cardinality(f[n]) + 1 /\ Cardinality(f[n]) \in Nat
      BY <3>1, <3>2, FS_AddElement, FS_CardinalityType
    <3>4. Cardinality(f[n] \cup {y}) <= Cardinality(f[n + 1]) /\ Cardinality(f[n + 1]) \in Nat
      <4>1. f[n] \cup {y} \subseteq f[n + 1]
        BY <2>3, <3>1
      <4> QED BY <3>2, <4>1, FS_Subset, FS_CardinalityType
    <3>5. n + 1 <= Cardinality(f[n])
      BY <2>1, <2>5
    <3>6. n + 1 + 1 <= Cardinality(f[n + 1])
      BY <3>3, <3>4, <3>5
    <3> QED BY <2>1, <2>3, <3>6
  <2> QED BY <2>4, <2>5
<1> HIDE DEF P, Q
<1>3. \A n \in Nat : n \in Q
  BY <1>1, <1>2, NumberInduction
<1>4. \A n \in Nat : n <= k => P(n)
  BY <1>3 DEF Q
<1> QED BY <1>0, <1>4 DEF P

\* The entries of a table: 0..mask.
Slot(t) == 0..t.mask

LEMMA Slots ==
    ASSUME NEW t, t.mask \in Nat
    PROVE  /\ IsFiniteSet(Slot(t)) /\ Cardinality(Slot(t)) = upb_table_size(t)
           /\ Slot(t) \subseteq Nat /\ Null \notin Slot(t) /\ upb_table_size(t) \in Nat
<1>1. IsFiniteSet(0..t.mask) /\ Cardinality(0..t.mask) = t.mask - 0 + 1
  BY FS_Interval
<1> QED BY <1>1 DEF Slot, upb_table_size, Null

\* Chain(t, e) is the least set with e that `next' does not leave.
LEMMA ChainIs ==
    ASSUME NEW t, t.mask \in Nat, NextClosed(t.entries, Slot(t)), NEW e \in Slot(t)
    PROVE  /\ Chain(t, e) \subseteq Slot(t) /\ e \in Chain(t, e)
           /\ NextClosed(t.entries, Chain(t, e))
           /\ \A S : e \in S /\ NextClosed(t.entries, S) => Chain(t, e) \subseteq S
<1> DEFINE k == upb_table_size(t)
           f == CHOOSE g : g = [n \in 0..k |-> IF n = 0 THEN {e}
                     ELSE (g[n - 1] \cup {t.entries[x].next : x \in g[n - 1]}) \ {Null}]
<1>0. k \in Nat
  BY Slots
<1>1. Chain(t, e) = f[k]
  BY DEF Chain
<1>2. ChainTo(f, t.entries, e, k)
  <2>1. PICK h : ChainTo(h, t.entries, e, k)
    <3> HIDE DEF k
    <3> QED BY <1>0, ChainsExist
  <2>2. h = [n \in 0..k |-> IF n = 0 THEN {e}
                ELSE (h[n - 1] \cup {t.entries[x].next : x \in h[n - 1]}) \ {Null}]
    BY <2>1, Zenon DEF ChainTo, Follow
  <2>3. f = [n \in 0..k |-> IF n = 0 THEN {e}
                ELSE (f[n - 1] \cup {t.entries[x].next : x \in f[n - 1]}) \ {Null}]
    BY <2>2, Zenon
  <2> QED BY <2>3, Zenon DEF ChainTo, Follow
<1> HIDE DEF f
<1>3. /\ f[k] \subseteq Slot(t) /\ e \in f[k]
      /\ NextClosed(t.entries, f[k]) \/ k + 1 <= Cardinality(f[k])
  <2> HIDE DEF k
  <2> QED BY <1>0, <1>2, Slots, ChainGrows
<1>4. Cardinality(f[k]) <= k /\ Cardinality(f[k]) \in Nat
  BY <1>3, Slots, FS_Subset, FS_CardinalityType
<1>5. NextClosed(t.entries, f[k])
  BY <1>0, <1>3, <1>4
<1>6. \A S : e \in S /\ NextClosed(t.entries, S) => f[k] \subseteq S
  <2> HIDE DEF k
  <2> QED BY <1>0, <1>2, ChainInside
<1> QED BY <1>1, <1>3, <1>5, <1>6

-----------------------------------------------------------------------------
(* The shape of a table with the slots M, the key k[x] and the link n[x]   *)
(* of slot x, and the main position h[j] of key j.  An entry in its main   *)
(* position heads the chain of its hash, every other entry has exactly one *)
(* predecessor, in the chain of its own hash, and no chain is a cycle.     *)

Setting(M, K, h) == M \subseteq Nat /\ Empty \notin K /\ h \in [K -> M]

Typed(M, K, k, n) == k \in [M -> K \cup {Empty}] /\ n \in [M -> M \cup {Null}]

EmptyUnlinked(M, k, n) == \A x \in M : k[x] = Empty => n[x] = Null

KeysDiffer(M, k) == \A x, y \in M : k[x] # Empty /\ k[x] = k[y] => x = y

LinksInChain(M, k, n, h) ==
    \A x \in M : n[x] # Null =>
        k[n[x]] # Empty /\ h[k[n[x]]] = h[k[x]] /\ n[x] # h[k[x]]

LinksDiffer(M, n) == \A x, y \in M : n[x] # Null /\ n[x] = n[y] => x = y

NodesLinked(M, k, n, h) ==
    \A y \in M : k[y] # Empty /\ y # h[k[y]] => \E x \in M : n[x] = y

Rises(r, M, n) == r \in [M -> Nat] /\ \A x \in M : n[x] # Null => r[x] < r[n[x]]

Sound(M, K, k, n, h) ==
    /\ Typed(M, K, k, n)
    /\ EmptyUnlinked(M, k, n)
    /\ KeysDiffer(M, k)
    /\ LinksInChain(M, k, n, h)
    /\ LinksDiffer(M, n)
    /\ NodesLinked(M, k, n, h)
    /\ \E r : Rises(r, M, n)

\* A table without entries is sound.
LEMMA BlankSound ==
    ASSUME NEW M, NEW K, NEW h, Setting(M, K, h)
    PROVE  Sound(M, K, [x \in M |-> Empty], [x \in M |-> Null], h)
<1> DEFINE n == [x \in M |-> Null]
<1>1. Rises([x \in M |-> 0], M, n)
  BY DEF Rises
<1>2. \E r : Rises(r, M, n)
  BY <1>1
<1> QED BY <1>2 DEF Sound, Typed, EmptyUnlinked, KeysDiffer, LinksInChain, LinksDiffer,
               NodesLinked

\* What a chain that starts at the main position of a key must contain.
LEMMA ChainComplete ==
    ASSUME NEW M, NEW K, NEW k, NEW n, NEW h, Setting(M, K, h), Sound(M, K, k, n, h),
           NEW C, NEW e \in C, \A x \in C \cap M : n[x] # Null => n[x] \in C
    PROVE  \A x \in M : k[x] # Empty /\ h[k[x]] = e => x \in C
<1>1. PICK r : Rises(r, M, n)
  BY DEF Sound
<1> DEFINE Missed == {x \in M : k[x] # Empty /\ h[k[x]] = e /\ x \notin C}
           R == {r[x] : x \in Missed}
<1> SUFFICES ASSUME Missed # {} PROVE FALSE
  OBVIOUS
<1>2. R \subseteq Nat /\ R # {}
  BY <1>1 DEF Rises
<1> HIDE DEF R
<1>3. PICK i \in R : \A j \in R : i <= j
  BY <1>2, LeastNumber
<1> USE DEF R
<1>4. PICK x \in Missed : r[x] = i
  BY <1>3
<1>5. x \in M /\ k[x] # Empty /\ x # h[k[x]] /\ h[k[x]] = e /\ x \notin C
  BY <1>4
<1>6. PICK p \in M : n[p] = x
  BY <1>5 DEF Sound, NodesLinked
<1>7. n[p] # Null
  BY <1>5, <1>6 DEF Setting, Null
<1>8. k[p] # Empty /\ h[k[p]] = e
  BY <1>5, <1>6, <1>7 DEF Sound, EmptyUnlinked, LinksInChain
<1>9. p \notin C
  BY <1>5, <1>6, <1>7
<1>10. p \in Missed
  BY <1>8, <1>9
<1>11. i <= r[p] /\ r[p] < r[x]
  BY <1>1, <1>3, <1>6, <1>7, <1>10 DEF Rises
<1>12. r[p] \in Nat /\ r[x] \in Nat
  BY <1>1, <1>5 DEF Rises
<1> QED BY <1>4, <1>11, <1>12

\* What a chain meets has the main position of its first entry.
LEMMA ChainOfOneHash ==
    ASSUME NEW M, NEW K, NEW k, NEW n, NEW h, Setting(M, K, h), Sound(M, K, k, n, h),
           NEW e \in M, k[e] # Empty, NEW x \in M, n[x] # Null,
           k[x] # Empty, h[k[x]] = h[k[e]]
    PROVE  n[x] \in M /\ k[n[x]] # Empty /\ h[k[n[x]]] = h[k[e]]
BY DEF Sound, Typed, LinksInChain

----------------------------------------------------------------------------
(* The changes insert() and rm() make.                                     *)

\* The main position of the new key is empty.
LEMMA SoundFresh ==
    ASSUME NEW M, NEW K, NEW k, NEW n, NEW h, Setting(M, K, h), Sound(M, K, k, n, h),
           NEW j \in K, \A x \in M : k[x] # j,
           NEW e \in M, e = h[j], k[e] = Empty
    PROVE  Sound(M, K, [k EXCEPT ![e] = j], n, h)
<1> DEFINE k2 == [k EXCEPT ![e] = j]
<1>0. n[e] = Null /\ \A x \in M : n[x] # e
  BY DEF Sound, EmptyUnlinked, LinksInChain, Setting, Null
<1>1. \A x \in M : k2[x] = IF x = e THEN j ELSE k[x]
  BY DEF Sound, Typed
<1>2. Typed(M, K, k2, n)
  BY DEF Sound, Typed
<1> HIDE DEF k2
<1>3. EmptyUnlinked(M, k2, n)
  BY <1>0, <1>1 DEF Sound, EmptyUnlinked
<1>4. KeysDiffer(M, k2)
  BY <1>1 DEF Sound, KeysDiffer
<1>5. LinksInChain(M, k2, n, h)
  <2> SUFFICES ASSUME NEW x \in M, n[x] # Null
               PROVE  k2[n[x]] # Empty /\ h[k2[n[x]]] = h[k2[x]] /\ n[x] # h[k2[x]]
    BY DEF LinksInChain
  <2>1. x # e /\ n[x] # e /\ n[x] \in M
    BY <1>0 DEF Sound, Typed
  <2>2. k2[x] = k[x] /\ k2[n[x]] = k[n[x]]
    BY <1>1, <2>1
  <2> QED BY <2>2 DEF Sound, LinksInChain
<1>6. NodesLinked(M, k2, n, h)
  BY <1>1 DEF Sound, NodesLinked
<1> QED BY <1>2, <1>3, <1>4, <1>5, <1>6 DEF Sound, k2

\* The main position holds an entry of its own chain: the new one comes second.
LEMMA SoundAppend ==
    ASSUME NEW M, NEW K, NEW k, NEW n, NEW h, Setting(M, K, h), Sound(M, K, k, n, h),
           NEW j \in K, \A x \in M : k[x] # j,
           NEW e \in M, e = h[j], k[e] # Empty, h[k[e]] = e,
           NEW f \in M, k[f] = Empty,
           NEW k2, NEW n2, Typed(M, K, k2, n2),
           \A x \in M : k2[x] = IF x = f THEN j ELSE k[x],
           \A x \in M : n2[x] = IF x = e THEN f ELSE IF x = f THEN n[e] ELSE n[x]
    PROVE  Sound(M, K, k2, n2, h)
<1>0. e # f /\ n[f] = Null /\ (\A x \in M : n[x] # f /\ n[x] # e) /\ f # Null
  <2>1. \A x \in M : n[x] # Null => n[x] # e
    BY DEF Sound, Typed, LinksInChain
  <2> QED BY <2>1 DEF Sound, EmptyUnlinked, LinksInChain, Setting, Null
<1>1. EmptyUnlinked(M, k2, n2)
  BY <1>0 DEF Sound, EmptyUnlinked
<1>2. KeysDiffer(M, k2)
  BY DEF Sound, KeysDiffer
<1>3. LinksInChain(M, k2, n2, h)
  <2> SUFFICES ASSUME NEW x \in M, n2[x] # Null
               PROVE  k2[n2[x]] # Empty /\ h[k2[n2[x]]] = h[k2[x]] /\ n2[x] # h[k2[x]]
    BY DEF LinksInChain
  <2>1. CASE x = e
    <3>1. k2[f] = j /\ k2[e] = k[e] /\ n2[e] = f
      BY <1>0
    <3> QED BY <1>0, <2>1, <3>1 DEF Setting
  <2>2. CASE x = f
    <3>1. k2[f] = j /\ n2[f] = n[e] /\ n[e] # Null /\ n[e] \in M
      BY <1>0, <2>2 DEF Sound, Typed
    <3>2. k2[n[e]] = k[n[e]]
      BY <1>0, <3>1
    <3> QED BY <1>0, <2>2, <3>1, <3>2 DEF Sound, LinksInChain
  <2>3. CASE x # e /\ x # f
    <3>1. k2[x] = k[x] /\ n2[x] = n[x] /\ n[x] # Null /\ n[x] \in M
      BY <2>3 DEF Sound, Typed
    <3>2. k2[n[x]] = k[n[x]]
      BY <1>0, <3>1
    <3> QED BY <3>1, <3>2 DEF Sound, LinksInChain
  <2> QED BY <2>1, <2>2, <2>3
<1>4. LinksDiffer(M, n2)
  BY <1>0 DEF Sound, LinksDiffer
<1>5. NodesLinked(M, k2, n2, h)
  <2> SUFFICES ASSUME NEW y \in M, k2[y] # Empty, y # h[k2[y]]
               PROVE  \E x \in M : n2[x] = y
    BY DEF NodesLinked
  <2>1. CASE y = f
    BY <2>1
  <2>2. CASE y # f
    <3>1. PICK p \in M : n[p] = y
      BY <2>2 DEF Sound, NodesLinked
    <3>2. CASE p = e
      BY <1>0, <3>1, <3>2
    <3>3. CASE p # e
      <4>1. p # f
        BY <1>0, <3>1 DEF Setting, Null
      <4> QED BY <3>1, <3>3, <4>1
    <3> QED BY <3>2, <3>3
  <2> QED BY <2>1, <2>2
<1>6. \E r : Rises(r, M, n2)
  <2>1. PICK r : Rises(r, M, n)
    BY DEF Sound
  <2> DEFINE q == [x \in M |-> IF x = e THEN 0 ELSE IF x = f THEN 1 ELSE r[x] + 2]
  <2>2. q \in [M -> Nat]
    BY <2>1 DEF Rises
  <2>3. ASSUME NEW x \in M, n2[x] # Null PROVE q[x] < q[n2[x]]
    <3>1. CASE x = e
      BY <1>0, <3>1
    <3>2. CASE x = f
      <4>1. n2[x] = n[e] /\ n[e] \in M /\ n[e] # e /\ n[e] # f
        BY <1>0, <2>3, <3>2 DEF Sound, Typed
      <4> QED BY <1>0, <2>1, <3>2, <4>1 DEF Rises
    <3>3. CASE x # e /\ x # f
      <4>1. n2[x] = n[x] /\ n[x] \in M /\ n[x] # e /\ n[x] # f
        BY <1>0, <2>3, <3>3 DEF Sound, Typed
      <4>2. r[x] < r[n[x]] /\ r[x] \in Nat /\ r[n[x]] \in Nat
        BY <2>1, <2>3, <4>1 DEF Rises
      <4> QED BY <3>3, <4>1, <4>2
    <3> QED BY <3>1, <3>2, <3>3
  <2>4. Rises(q, M, n2)
    BY <2>2, <2>3 DEF Rises
  <2> QED BY <2>4
<1> QED BY <1>1, <1>2, <1>3, <1>4, <1>5, <1>6 DEF Sound

\* The main position holds a node of another chain: it moves to an empty slot.
LEMMA SoundEvict ==
    ASSUME NEW M, NEW K, NEW k, NEW n, NEW h, Setting(M, K, h), Sound(M, K, k, n, h),
           NEW j \in K, \A x \in M : k[x] # j,
           NEW e \in M, e = h[j], k[e] # Empty, h[k[e]] # e,
           NEW f \in M, k[f] = Empty,
           NEW p \in M, n[p] = e,
           NEW k2, NEW n2, Typed(M, K, k2, n2),
           \A x \in M : k2[x] = IF x = e THEN j ELSE IF x = f THEN k[e] ELSE k[x],
           \A x \in M : n2[x] = IF x = e THEN Null ELSE IF x = p THEN f
                                ELSE IF x = f THEN n[e] ELSE n[x]
    PROVE  Sound(M, K, k2, n2, h)
<1>1. PICK r : Rises(r, M, n)
  BY DEF Sound
<1>0. /\ e # f /\ p # e /\ p # f /\ f # Null /\ e # Null
      /\ n[f] = Null /\ n[e] # e
      /\ \A x \in M : n[x] # f /\ (n[x] = e => x = p)
  <2>1. e # f /\ f # Null /\ e # Null /\ n[f] = Null
    BY DEF Sound, EmptyUnlinked, Setting, Null
  <2>2. p # f /\ \A x \in M : n[x] # f /\ (n[x] = e => x = p)
    BY <2>1 DEF Sound, LinksInChain, LinksDiffer
  <2>3. n[e] # e
    BY <1>1, <2>1 DEF Rises
  <2> QED BY <2>1, <2>2, <2>3
<1>2. EmptyUnlinked(M, k2, n2)
  <2>1. k[p] # Empty
    BY <1>0 DEF Sound, EmptyUnlinked
  <2> QED BY <1>0, <2>1 DEF Sound, EmptyUnlinked
<1>3. KeysDiffer(M, k2)
  BY <1>0 DEF Sound, KeysDiffer
<1>4. LinksInChain(M, k2, n2, h)
  <2> SUFFICES ASSUME NEW x \in M, n2[x] # Null
               PROVE  k2[n2[x]] # Empty /\ h[k2[n2[x]]] = h[k2[x]] /\ n2[x] # h[k2[x]]
    BY DEF LinksInChain
  <2>1. x # e
    BY <1>0
  <2>2. CASE x = p
    <3>1. n2[x] = f /\ k2[f] = k[e] /\ k2[x] = k[p]
      BY <1>0, <2>2
    <3>2. h[k[e]] = h[k[p]]
      BY <1>0 DEF Sound, LinksInChain
    <3>3. f # h[k[e]]
      <4> SUFFICES ASSUME f = h[k[e]] PROVE FALSE
        OBVIOUS
      <4> DEFINE C == {f}
      <4>1. f \in C /\ \A x2 \in C \cap M : n[x2] # Null => n[x2] \in C
        BY <1>0
      <4>2. e \notin C
        BY <1>0
      <4> HIDE DEF C
      <4>3. \A x2 \in M : k[x2] # Empty /\ h[k[x2]] = f => x2 \in C
        BY <4>1, ChainComplete
      <4> QED BY <4>2, <4>3
    <3> QED BY <3>1, <3>2, <3>3
  <2>3. CASE x = f
    <3>1. n2[x] = n[e] /\ k2[x] = k[e] /\ n[e] # Null /\ n[e] \in M /\ n[e] # f /\ n[e] # e
      BY <1>0, <2>3 DEF Sound, Typed
    <3>2. k2[n[e]] = k[n[e]]
      BY <3>1
    <3> QED BY <3>1, <3>2 DEF Sound, LinksInChain
  <2>4. CASE x # p /\ x # f
    <3>1. n2[x] = n[x] /\ k2[x] = k[x] /\ n[x] # Null /\ n[x] \in M /\ n[x] # f /\ n[x] # e
      BY <1>0, <2>1, <2>4 DEF Sound, Typed
    <3>2. k2[n[x]] = k[n[x]]
      BY <3>1
    <3> QED BY <3>1, <3>2 DEF Sound, LinksInChain
  <2> QED BY <2>2, <2>3, <2>4
<1>5. LinksDiffer(M, n2)
  BY <1>0 DEF Sound, LinksDiffer
<1>6. NodesLinked(M, k2, n2, h)
  <2> SUFFICES ASSUME NEW y \in M, k2[y] # Empty, y # h[k2[y]]
               PROVE  \E x \in M : n2[x] = y
    BY DEF NodesLinked
  <2>1. CASE y = f
    BY <1>0, <2>1
  <2>2. CASE y # f
    <3>1. y # e
      BY <1>0
    <3>2. PICK x \in M : n[x] = y
      BY <2>2, <3>1 DEF Sound, NodesLinked
    <3>3. CASE x = e
      BY <1>0, <3>2, <3>3
    <3>4. CASE x # e
      <4>1. x # f /\ x # p
        BY <1>0, <3>1, <3>2 DEF Setting, Null
      <4> QED BY <3>2, <3>4, <4>1
    <3> QED BY <3>3, <3>4
  <2> QED BY <2>1, <2>2
<1>7. \E q : Rises(q, M, n2)
  <2> DEFINE q == [x \in M |-> IF x = f THEN r[e] ELSE r[x]]
  <2>1. q \in [M -> Nat]
    BY <1>1 DEF Rises
  <2>2. ASSUME NEW x \in M, n2[x] # Null PROVE q[x] < q[n2[x]]
    <3>1. CASE x = p
      BY <1>0, <1>1, <3>1 DEF Rises
    <3>2. CASE x = f
      <4>1. n2[x] = n[e] /\ n[e] \in M /\ n[e] # f /\ n[e] # Null
        BY <1>0, <2>2, <3>2 DEF Sound, Typed
      <4> QED BY <1>0, <1>1, <3>2, <4>1 DEF Rises
    <3>3. CASE x # p /\ x # f
      <4>1. n2[x] = n[x] /\ n[x] \in M /\ n[x] # f /\ n[x] # Null
        BY <1>0, <2>2, <3>3 DEF Sound, Typed
      <4> QED BY <1>1, <3>3, <4>1 DEF Rises
    <3> QED BY <3>1, <3>2, <3>3
  <2>3. Rises(q, M, n2)
    BY <2>1, <2>2 DEF Rises
  <2> QED BY <2>3
<1> QED BY <1>2, <1>3, <1>4, <1>5, <1>6, <1>7 DEF Sound

\* An entry that is not the head of its chain is unlinked.
LEMMA SoundUnlink ==
    ASSUME NEW M, NEW K, NEW k, NEW n, NEW h, Setting(M, K, h), Sound(M, K, k, n, h),
           NEW d \in M, NEW p \in M, n[p] = d,
           NEW k2, NEW n2, Typed(M, K, k2, n2),
           \A x \in M : k2[x] = IF x = d THEN Empty ELSE k[x],
           \A x \in M : n2[x] = IF x = p THEN n[d] ELSE IF x = d THEN Null ELSE n[x]
    PROVE  Sound(M, K, k2, n2, h) /\ p # d
<1>1. PICK r : Rises(r, M, n)
  BY DEF Sound
<1>0. /\ p # d /\ d # Null /\ n[d] # d /\ k[p] # Empty /\ k[d] # Empty
      /\ \A x \in M : n[x] = d => x = p
  <2>1. d # Null
    BY DEF Setting, Null
  <2>2. n[d] # d
    BY <1>1, <2>1 DEF Rises
  <2>3. k[p] # Empty /\ k[d] # Empty /\ \A x \in M : n[x] = d => x = p
    BY <2>1 DEF Sound, EmptyUnlinked, LinksInChain, LinksDiffer
  <2> QED BY <2>1, <2>2, <2>3
<1>2. EmptyUnlinked(M, k2, n2)
  BY <1>0 DEF Sound, EmptyUnlinked
<1>3. KeysDiffer(M, k2)
  BY <1>0 DEF Sound, KeysDiffer
<1>4. LinksInChain(M, k2, n2, h)
  <2> SUFFICES ASSUME NEW x \in M, n2[x] # Null
               PROVE  k2[n2[x]] # Empty /\ h[k2[n2[x]]] = h[k2[x]] /\ n2[x] # h[k2[x]]
    BY DEF LinksInChain
  <2>1. CASE x = p
    <3>1. n2[x] = n[d] /\ n[d] # Null /\ n[d] \in M /\ n[d] # d /\ k2[x] = k[p]
      BY <1>0, <2>1 DEF Sound, Typed
    <3>2. k2[n[d]] = k[n[d]]
      BY <3>1
    <3>3. h[k[d]] = h[k[p]] /\ k[n[d]] # Empty /\ h[k[n[d]]] = h[k[d]] /\ n[d] # h[k[d]]
      BY <1>0, <3>1 DEF Sound, LinksInChain
    <3> QED BY <3>1, <3>2, <3>3
  <2>2. CASE x # p
    <3>1. n2[x] = n[x] /\ n[x] # Null /\ n[x] \in M /\ n[x] # d /\ k2[x] = k[x]
      BY <1>0, <2>2 DEF Sound, Typed
    <3>2. k2[n[x]] = k[n[x]]
      BY <3>1
    <3> QED BY <3>1, <3>2 DEF Sound, LinksInChain
  <2> QED BY <2>1, <2>2
<1>5. LinksDiffer(M, n2)
  BY <1>0 DEF Sound, LinksDiffer
<1>6. NodesLinked(M, k2, n2, h)
  <2> SUFFICES ASSUME NEW y \in M, k2[y] # Empty, y # h[k2[y]]
               PROVE  \E x \in M : n2[x] = y
    BY DEF NodesLinked
  <2>1. y # d /\ k2[y] = k[y] /\ y # Null
    BY DEF Setting, Null
  <2>2. PICK x \in M : n[x] = y
    BY <2>1 DEF Sound, NodesLinked
  <2>3. CASE x = d
    BY <1>0, <2>2, <2>3
  <2>4. CASE x # d
    BY <1>0, <2>1, <2>2, <2>4
  <2> QED BY <2>3, <2>4
<1>7. Rises(r, M, n2)
  <2> SUFFICES ASSUME NEW x \in M, n2[x] # Null PROVE r[x] < r[n2[x]]
    BY <1>1 DEF Rises
  <2>1. CASE x = p
    <3>1. n2[x] = n[d] /\ n[d] # Null /\ n[d] \in M
      BY <2>1 DEF Sound, Typed
    <3>2. r[p] < r[d] /\ r[d] < r[n[d]] /\ r[p] \in Nat /\ r[d] \in Nat /\ r[n[d]] \in Nat
      BY <1>0, <1>1, <3>1 DEF Rises
    <3> QED BY <2>1, <3>1, <3>2
  <2>2. CASE x # p
    BY <1>0, <1>1, <2>2 DEF Rises
  <2> QED BY <2>1, <2>2
<1> QED BY <1>0, <1>2, <1>3, <1>4, <1>5, <1>6, <1>7 DEF Sound

\* The head of a chain is removed and leaves the chain empty.
LEMMA SoundRemoveLast ==
    ASSUME NEW M, NEW K, NEW k, NEW n, NEW h, Setting(M, K, h), Sound(M, K, k, n, h),
           NEW e \in M, k[e] # Empty, h[k[e]] = e, n[e] = Null,
           NEW k2, Typed(M, K, k2, n),
           \A x \in M : k2[x] = IF x = e THEN Empty ELSE k[x]
    PROVE  Sound(M, K, k2, n, h)
<1>0. \A x \in M : n[x] # e
  BY DEF Sound, LinksInChain, Setting, Null
<1>1. EmptyUnlinked(M, k2, n)
  BY DEF Sound, EmptyUnlinked
<1>2. KeysDiffer(M, k2)
  BY DEF Sound, KeysDiffer
<1>3. LinksInChain(M, k2, n, h)
  <2> SUFFICES ASSUME NEW x \in M, n[x] # Null
               PROVE  k2[n[x]] # Empty /\ h[k2[n[x]]] = h[k2[x]] /\ n[x] # h[k2[x]]
    BY DEF LinksInChain
  <2>1. n[x] \in M /\ n[x] # e /\ x # e
    BY <1>0 DEF Sound, Typed
  <2>2. k2[n[x]] = k[n[x]] /\ k2[x] = k[x]
    BY <2>1
  <2> QED BY <2>2 DEF Sound, LinksInChain
<1>4. NodesLinked(M, k2, n, h)
  BY DEF Sound, NodesLinked
<1> QED BY <1>1, <1>2, <1>3, <1>4 DEF Sound

\* The head of a chain is removed: its successor moves into its slot.
LEMMA SoundRemoveHead ==
    ASSUME NEW M, NEW K, NEW k, NEW n, NEW h, Setting(M, K, h), Sound(M, K, k, n, h),
           NEW e \in M, k[e] # Empty, h[k[e]] = e, NEW m \in M, n[e] = m,
           NEW k2, NEW n2, Typed(M, K, k2, n2),
           \A x \in M : k2[x] = IF x = e THEN k[m] ELSE IF x = m THEN Empty ELSE k[x],
           \A x \in M : n2[x] = IF x = e THEN n[m] ELSE IF x = m THEN Null ELSE n[x]
    PROVE  Sound(M, K, k2, n2, h) /\ m # e
<1>1. PICK r : Rises(r, M, n)
  BY DEF Sound
<1>0. /\ m # e /\ m # Null /\ k[m] # Empty /\ h[k[m]] = e /\ n[m] # m
      /\ \A x \in M : n[x] # e /\ (n[x] = m => x = e)
  <2>1. m # Null /\ e # Null
    BY DEF Setting, Null
  <2>2. \A x \in M : n[x] # e
    BY <2>1 DEF Sound, LinksInChain
  <2>3. k[m] # Empty /\ h[k[m]] = e /\ (\A x \in M : n[x] = m => x = e)
    BY <2>1 DEF Sound, LinksInChain, LinksDiffer
  <2>4. n[m] # m
    BY <1>1, <2>1 DEF Rises
  <2> QED BY <2>1, <2>2, <2>3, <2>4
<1>2. EmptyUnlinked(M, k2, n2)
  BY <1>0 DEF Sound, EmptyUnlinked
<1>3. KeysDiffer(M, k2)
  BY <1>0 DEF Sound, KeysDiffer
<1>4. LinksInChain(M, k2, n2, h)
  <2> SUFFICES ASSUME NEW x \in M, n2[x] # Null
               PROVE  k2[n2[x]] # Empty /\ h[k2[n2[x]]] = h[k2[x]] /\ n2[x] # h[k2[x]]
    BY DEF LinksInChain
  <2>1. x # m
    BY <1>0
  <2>2. CASE x = e
    <3>1. n2[x] = n[m] /\ n[m] # Null /\ n[m] \in M /\ n[m] # m /\ n[m] # e /\ k2[x] = k[m]
      BY <1>0, <2>2 DEF Sound, Typed
    <3>2. k2[n[m]] = k[n[m]]
      BY <3>1
    <3> QED BY <3>1, <3>2 DEF Sound, LinksInChain
  <2>3. CASE x # e
    <3>1. n2[x] = n[x] /\ n[x] # Null /\ n[x] \in M /\ n[x] # m /\ n[x] # e /\ k2[x] = k[x]
      BY <1>0, <2>1, <2>3 DEF Sound, Typed
    <3>2. k2[n[x]] = k[n[x]]
      BY <3>1
    <3> QED BY <3>1, <3>2 DEF Sound, LinksInChain
  <2> QED BY <2>2, <2>3
<1>5. LinksDiffer(M, n2)
  BY <1>0 DEF Sound, LinksDiffer
<1>6. NodesLinked(M, k2, n2, h)
  <2> SUFFICES ASSUME NEW y \in M, k2[y] # Empty, y # h[k2[y]]
               PROVE  \E x \in M : n2[x] = y
    BY DEF NodesLinked
  <2>1. y # m /\ y # e /\ y # Null
    BY <1>0 DEF Setting, Null
  <2>2. PICK x \in M : n[x] = y
    BY <2>1 DEF Sound, NodesLinked
  <2>3. CASE x = m
    BY <1>0, <2>2, <2>3
  <2>4. CASE x # m
    BY <1>0, <2>1, <2>2, <2>4
  <2> QED BY <2>3, <2>4
<1>7. Rises(r, M, n2)
  <2> SUFFICES ASSUME NEW x \in M, n2[x] # Null PROVE r[x] < r[n2[x]]
    BY <1>1 DEF Rises
  <2>1. CASE x = e
    <3>1. n2[x] = n[m] /\ n[m] # Null /\ n[m] \in M
      BY <2>1 DEF Sound, Typed
    <3>2. r[e] < r[m] /\ r[m] < r[n[m]] /\ r[e] \in Nat /\ r[m] \in Nat /\ r[n[m]] \in Nat
      BY <1>0, <1>1, <3>1 DEF Rises
    <3> QED BY <2>1, <3>1, <3>2
  <2>2. CASE x # e
    BY <1>0, <1>1, <2>2 DEF Rises
  <2> QED BY <2>1, <2>2
<1> QED BY <1>0, <1>2, <1>3, <1>4, <1>5, <1>6, <1>7 DEF Sound

-----------------------------------------------------------------------------
(* A table that holds keys of K and values of V under a hash function.     *)

Hashed(hash, K) == K \subseteq Nat \ {Empty} /\ \A j \in K : hash[j] \in Nat

KeyAt(t) == [x \in Slot(t) |-> t.entries[x].key]
LinkAt(t) == [x \in Slot(t) |-> t.entries[x].next]
Mains(t, K, hash) == [j \in K |-> MainPos(t, j, hash)]
Used(t) == {x \in Slot(t) : ~ IsEmpty(t, x)}

\* The entries a table takes before isfull() has it doubled.
Room(t) == upb_table_size(t) - upb_table_size(t) \div 8

Entry(t, K, V) == [key : K \cup {Empty}, val : V \cup {0}, next : Slot(t) \cup {Null}]

TableTyped(t, K, V) ==
    /\ t = [entries |-> t.entries, mask |-> t.mask, count |-> t.count]
    /\ t.mask \in Nat
    /\ t.entries \in [Slot(t) -> Entry(t, K, V)]
    /\ \A x \in Used(t) : t.entries[x].val \in V

TableOK(t, hash, K, V) ==
    /\ TableTyped(t, K, V)
    /\ Sound(Slot(t), K, KeyAt(t), LinkAt(t), Mains(t, K, hash))
    /\ t.count = Cardinality(Used(t))

\* The table maps j to v.
Holds(t, j, v) == \E x \in Slot(t) : t.entries[x].key = j /\ t.entries[x].val = v

LEMMA MainPosTyped ==
    ASSUME NEW t, t.mask \in Nat, NEW hash, NEW j, hash[j] \in Nat
    PROVE  MainPos(t, j, hash) \in Slot(t)
BY DEF MainPos, upb_table_size, Slot

LEMMA TableSetting ==
    ASSUME NEW t, t.mask \in Nat, NEW hash, NEW K, Hashed(hash, K)
    PROVE  Setting(Slot(t), K, Mains(t, K, hash))
<1>1. \A j \in K : MainPos(t, j, hash) \in Slot(t)
  BY MainPosTyped DEF Hashed
<1>2. Slot(t) \subseteq Nat
  BY Slots
<1> QED BY <1>1, <1>2 DEF Setting, Mains, Hashed

LEMMA TableFields ==
    ASSUME NEW t, NEW K, NEW V, TableTyped(t, K, V), NEW x \in Slot(t)
    PROVE  /\ t.entries[x].key \in K \cup {Empty}
           /\ t.entries[x].val \in V \cup {0}
           /\ t.entries[x].next \in Slot(t) \cup {Null}
           /\ t.entries[x] = [key |-> t.entries[x].key, val |-> t.entries[x].val,
                              next |-> t.entries[x].next]
           /\ KeyAt(t)[x] = t.entries[x].key
           /\ LinkAt(t)[x] = t.entries[x].next
           /\ IsEmpty(t, x) <=> KeyAt(t)[x] = Empty
BY DEF TableTyped, Entry, KeyAt, LinkAt, IsEmpty

LEMMA TableClosed ==
    ASSUME NEW t, NEW K, NEW V, TableTyped(t, K, V)
    PROVE  NextClosed(t.entries, Slot(t))
BY TableFields DEF NextClosed

\* A chain from the main position of a key meets every entry of its hash.
LEMMA ChainHasHash ==
    ASSUME NEW t, NEW hash, NEW K, NEW V, Hashed(hash, K), TableOK(t, hash, K, V),
           NEW e \in Slot(t), NEW x \in Used(t), MainPos(t, t.entries[x].key, hash) = e
    PROVE  x \in Chain(t, e)
<1> DEFINE C == Chain(t, e)
<1>0. TableTyped(t, K, V) /\ t.mask \in Nat
  BY DEF TableOK, TableTyped
<1>1. C \subseteq Slot(t) /\ e \in C /\ NextClosed(t.entries, C)
  BY <1>0, TableClosed, ChainIs
<1>2. \A y \in C \cap Slot(t) : LinkAt(t)[y] # Null => LinkAt(t)[y] \in C
  BY <1>1 DEF NextClosed, LinkAt
<1>3. x \in Slot(t) /\ KeyAt(t)[x] # Empty /\ KeyAt(t)[x] \in K
      /\ KeyAt(t)[x] = t.entries[x].key
  BY <1>0, TableFields DEF Used
<1>4. Mains(t, K, hash)[KeyAt(t)[x]] = e
  BY <1>3 DEF Mains
<1>5. Sound(Slot(t), K, KeyAt(t), LinkAt(t), Mains(t, K, hash))
      /\ Setting(Slot(t), K, Mains(t, K, hash))
  BY <1>0, TableSetting DEF TableOK
<1> HIDE DEF C
<1>6. x \in C
  BY <1>1, <1>2, <1>3, <1>4, <1>5, ChainComplete
<1> QED BY <1>6 DEF C

\* A chain meets used entries of one hash only.
LEMMA ChainUsed ==
    ASSUME NEW t, NEW hash, NEW K, NEW V, Hashed(hash, K), TableOK(t, hash, K, V),
           NEW e \in Used(t), NEW x \in Chain(t, e)
    PROVE  /\ x \in Used(t)
           /\ MainPos(t, t.entries[x].key, hash) = MainPos(t, t.entries[e].key, hash)
<1> DEFINE h == Mains(t, K, hash)
           S == {y \in Slot(t) : KeyAt(t)[y] # Empty /\ h[KeyAt(t)[y]] = h[KeyAt(t)[e]]}
<1>0. TableTyped(t, K, V) /\ t.mask \in Nat /\ e \in Slot(t) /\ KeyAt(t)[e] # Empty
  BY TableFields DEF TableOK, TableTyped, Used
<1>1. Sound(Slot(t), K, KeyAt(t), LinkAt(t), h) /\ Setting(Slot(t), K, h)
  BY <1>0, TableSetting DEF TableOK
<1>2. NextClosed(t.entries, S)
  <2> SUFFICES ASSUME NEW y \in S, t.entries[y].next # Null PROVE t.entries[y].next \in S
    BY DEF NextClosed
  <2>1. y \in Slot(t) /\ LinkAt(t)[y] = t.entries[y].next
    BY <1>0, TableFields
  <2> HIDE DEF h
  <2>2. LinkAt(t)[y] \in Slot(t) /\ KeyAt(t)[LinkAt(t)[y]] # Empty
        /\ h[KeyAt(t)[LinkAt(t)[y]]] = h[KeyAt(t)[e]]
    BY <1>0, <1>1, <2>1, ChainOfOneHash
  <2> QED BY <2>1, <2>2
<1>3. e \in S
  BY <1>0
<1>4. x \in S
  <2> HIDE DEF S
  <2> QED BY <1>0, <1>2, <1>3, TableClosed, ChainIs
<1>5. x \in Slot(t) /\ KeyAt(t)[x] # Empty /\ h[KeyAt(t)[x]] = h[KeyAt(t)[e]]
  BY <1>4
<1>6. /\ KeyAt(t)[x] = t.entries[x].key /\ KeyAt(t)[e] = t.entries[e].key
      /\ t.entries[x].key \in K /\ t.entries[e].key \in K /\ x \in Used(t)
  <2>1. ASSUME NEW y \in Slot(t), KeyAt(t)[y] # Empty
        PROVE  KeyAt(t)[y] = t.entries[y].key /\ t.entries[y].key \in K /\ y \in Used(t)
    <3>1. /\ t.entries[y].key \in K \cup {Empty} /\ KeyAt(t)[y] = t.entries[y].key
          /\ IsEmpty(t, y) <=> KeyAt(t)[y] = Empty
      BY <1>0, TableFields
    <3> QED BY <2>1, <3>1 DEF Used
  <2> QED BY <1>0, <1>5, <2>1
<1>7. \A j \in K : h[j] = MainPos(t, j, hash)
  BY DEF Mains
<1> HIDE DEF h
<1> QED BY <1>5, <1>6, <1>7

\* The main position of a used entry is used: it heads the entry's chain.
LEMMA MainPosUsed ==
    ASSUME NEW t, NEW hash, NEW K, NEW V, Hashed(hash, K), TableOK(t, hash, K, V),
           NEW x \in Used(t)
    PROVE  MainPos(t, t.entries[x].key, hash) \in Used(t)
<1> DEFINE e == MainPos(t, t.entries[x].key, hash)
<1>0. TableTyped(t, K, V) /\ t.mask \in Nat /\ x \in Slot(t)
  BY DEF TableOK, TableTyped, Used
<1>1. t.entries[x].key \in K
  BY <1>0, TableFields DEF Used, IsEmpty
<1>2. e \in Slot(t)
  BY <1>0, <1>1, MainPosTyped DEF Hashed
<1> HIDE DEF e
<1> SUFFICES ASSUME IsEmpty(t, e) PROVE FALSE
  BY <1>2 DEF Used, e
<1>3. KeyAt(t)[e] = Empty /\ t.entries[e].next = LinkAt(t)[e]
  BY <1>0, <1>2, TableFields
<1>4. LinkAt(t)[e] = Null
  BY <1>2, <1>3 DEF TableOK, Sound, EmptyUnlinked
<1>5. e \in {e} /\ NextClosed(t.entries, {e})
  BY <1>3, <1>4 DEF NextClosed
<1>6. Chain(t, e) \subseteq {e}
  BY <1>0, <1>2, <1>5, TableClosed, ChainIs
<1>7. x \in Chain(t, e)
  BY <1>2, ChainHasHash DEF e
<1>8. x = e
  BY <1>6, <1>7
<1> QED BY <1>8 DEF Used

\* findentry() finds the entry of a key that is in the table, and no other.
LEMMA FindEntry ==
    ASSUME NEW t, NEW hash, NEW K, NEW V, Hashed(hash, K), TableOK(t, hash, K, V),
           NEW j \in K
    PROVE  /\ \A x \in Used(t) : t.entries[x].key = j =>
                 /\ findentry(t, j, hash) = x
                 /\ {y \in Chain(t, MainPos(t, j, hash)) : t.entries[y].key = j} = {x}
                 /\ ~ IsEmpty(t, MainPos(t, j, hash))
           /\ (\A x \in Used(t) : t.entries[x].key # j) =>
                 /\ findentry(t, j, hash) = Null
                 /\ {y \in Chain(t, MainPos(t, j, hash)) : t.entries[y].key = j} = {}
<1> DEFINE e == MainPos(t, j, hash)
           hits == {y \in Chain(t, e) : t.entries[y].key = j}
<1>0. /\ TableTyped(t, K, V) /\ t.mask \in Nat /\ j # Empty
      /\ IsFiniteSet(Used(t)) /\ t.count = Cardinality(Used(t)) 
  <2>1. t.mask \in Nat
    BY DEF TableOK, TableTyped
  <2>2. IsFiniteSet(Used(t))
    BY <2>1, Slots, FS_Subset DEF Used
  <2> QED BY <2>1, <2>2 DEF TableOK, Hashed
<1>1. e \in Slot(t)
  BY <1>0, MainPosTyped DEF Hashed
<1>2. \A y \in Chain(t, e) : y \in Slot(t)
  BY <1>0, <1>1, TableClosed, ChainIs
<1>3. \A y \in hits : y \in Used(t)
  BY <1>0, <1>2 DEF Used, IsEmpty
<1>4. ASSUME NEW x \in Used(t), t.entries[x].key = j
      PROVE  findentry(t, j, hash) = x /\ hits = {x} /\ ~ IsEmpty(t, e)
  <2>1. x \in hits
    BY <1>1, <1>4, ChainHasHash
  <2>2. \A y \in hits : y = x
    <3> SUFFICES ASSUME NEW y \in hits PROVE y = x
      OBVIOUS
    <3>1. x \in Slot(t) /\ y \in Slot(t) /\ KeyAt(t)[x] = j /\ KeyAt(t)[y] = j
      BY <1>2, <1>4 DEF Used, KeyAt
    <3> QED BY <1>0, <3>1 DEF TableOK, Sound, KeysDiffer
  <2>3. hits = {x}
    BY <2>1, <2>2
  <2>4. ~ IsEmpty(t, e)
    BY <1>4, MainPosUsed DEF Used
  <2>5. t.count # 0
    BY <1>0, <1>4, FS_EmptySet
  <2>6. findentry(t, j, hash) = CHOOSE y \in hits : TRUE
    BY <2>3, <2>4, <2>5 DEF findentry
  <2> QED BY <2>3, <2>4, <2>6
<1>5. ASSUME \A x \in Used(t) : t.entries[x].key # j
      PROVE  findentry(t, j, hash) = Null /\ hits = {}
  <2>1. hits = {}
    BY <1>3, <1>5
  <2> QED BY <2>1 DEF findentry
<1> QED BY <1>4, <1>5

-----------------------------------------------------------------------------
(* The operations on a table.                                              *)

\* A table value built from entries.
LEMMA TableBuilt ==
    ASSUME NEW t, NEW K, NEW V, t.mask \in Nat,
           NEW E, E \in [Slot(t) -> Entry(t, K, V)], NEW c, NEW t2,
           t2 = [entries |-> E, mask |-> t.mask, count |-> c]
    PROVE  /\ t2.entries = E /\ t2.mask = t.mask /\ t2.count = c
           /\ Slot(t2) = Slot(t) /\ upb_table_size(t2) = upb_table_size(t)
           /\ \A hash : Mains(t2, K, hash) = Mains(t, K, hash)
           /\ Typed(Slot(t), K, KeyAt(t2), LinkAt(t2))
           /\ \A x \in Slot(t) : KeyAt(t2)[x] = E[x].key /\ LinkAt(t2)[x] = E[x].next
           /\ Used(t2) = {x \in Slot(t) : E[x].key # Empty}
           /\ (\A x \in Slot(t) : E[x].key # Empty => E[x].val \in V) => TableTyped(t2, K, V)
<1>1. t2.entries = E /\ t2.mask = t.mask /\ t2.count = c
  OBVIOUS
<1>2. Slot(t2) = Slot(t) /\ upb_table_size(t2) = upb_table_size(t)
  BY <1>1 DEF Slot, upb_table_size
<1>3. \A hash : Mains(t2, K, hash) = Mains(t, K, hash)
  BY <1>2 DEF Mains, MainPos
<1>4. \A x \in Slot(t) : KeyAt(t2)[x] = E[x].key /\ LinkAt(t2)[x] = E[x].next
  BY <1>1, <1>2 DEF KeyAt, LinkAt
<1>5. Typed(Slot(t), K, KeyAt(t2), LinkAt(t2))
  <2>1. \A x \in Slot(t) : E[x].key \in K \cup {Empty} /\ E[x].next \in Slot(t) \cup {Null}
    BY DEF Entry
  <2> QED BY <1>1, <1>2, <2>1 DEF Typed, KeyAt, LinkAt
<1>6. Used(t2) = {x \in Slot(t) : E[x].key # Empty}
  BY <1>1, <1>2 DEF Used, IsEmpty
<1>7. Entry(t2, K, V) = Entry(t, K, V)
  BY <1>2 DEF Entry
<1>8. ASSUME \A x \in Slot(t) : E[x].key # Empty => E[x].val \in V
      PROVE  TableTyped(t2, K, V)
  BY <1>1, <1>2, <1>6, <1>7, <1>8 DEF TableTyped
<1> QED BY <1>1, <1>2, <1>3, <1>4, <1>5, <1>6, <1>8

\* init() gives an empty table.
LEMMA InitOK ==
    ASSUME NEW size \in Nat \ {0}, NEW hash, NEW K, NEW V, Hashed(hash, K)
    PROVE  /\ TableOK(init(size), hash, K, V)
           /\ init(size).mask = size - 1 /\ init(size).count = 0
           /\ Used(init(size)) = {}
<1> DEFINE t == init(size)
           E == [e \in 0..(size - 1) |-> Blank]
<1>1. t = [entries |-> E, mask |-> size - 1, count |-> 0]
  BY DEF init
<1>2. t.mask = size - 1 /\ t.mask \in Nat /\ t.count = 0 /\ Slot(t) = 0..(size - 1)
  BY <1>1 DEF Slot
<1>3. E \in [Slot(t) -> Entry(t, K, V)]
  BY <1>2 DEF Entry, Blank
<1>4. \A x \in Slot(t) : E[x].key = Empty /\ E[x].next = Null
  BY <1>2 DEF Blank
<1>5. t = [entries |-> E, mask |-> t.mask, count |-> 0]
  BY <1>1, <1>2
<1> HIDE DEF t, E
<1>6. /\ Typed(Slot(t), K, KeyAt(t), LinkAt(t))
      /\ \A x \in Slot(t) : KeyAt(t)[x] = E[x].key /\ LinkAt(t)[x] = E[x].next
      /\ Used(t) = {x \in Slot(t) : E[x].key # Empty}
      /\ (\A x \in Slot(t) : E[x].key # Empty => E[x].val \in V) => TableTyped(t, K, V)
  BY <1>2, <1>3, <1>5, TableBuilt
<1>7. TableTyped(t, K, V) /\ Used(t) = {}
  BY <1>4, <1>6
<1>8. KeyAt(t) = [x \in Slot(t) |-> Empty] /\ LinkAt(t) = [x \in Slot(t) |-> Null]
  BY <1>4, <1>6 DEF Typed
<1>9. Sound(Slot(t), K, KeyAt(t), LinkAt(t), Mains(t, K, hash))
  <2>1. Setting(Slot(t), K, Mains(t, K, hash))
    BY <1>2, TableSetting
  <2> QED BY <1>8, <2>1, BlankSound
<1>10. t.count = Cardinality(Used(t))
  BY <1>2, <1>7, FS_EmptySet
<1> QED BY <1>2, <1>7, <1>9, <1>10 DEF TableOK, t

\* clear() empties a table.
LEMMA ClearOK ==
    ASSUME NEW t, NEW hash, NEW K, NEW V, Hashed(hash, K), TableOK(t, hash, K, V)
    PROVE  /\ TableOK(clear(t), hash, K, V)
           /\ clear(t).mask = t.mask /\ clear(t).count = 0 /\ Used(clear(t)) = {}
<1>1. /\ t = [entries |-> t.entries, mask |-> t.mask, count |-> t.count]
      /\ t.mask \in Nat /\ DOMAIN t.entries = 0..t.mask
  BY DEF TableOK, TableTyped, Slot
<1>2. clear(t) = [entries |-> [e \in 0..t.mask |-> Blank], mask |-> t.mask, count |-> 0]
  <2> DEFINE F == [e \in 0..t.mask |-> Blank]
  <2>1. clear(t) = [t EXCEPT !.count = 0, !.entries = [e \in DOMAIN t.entries |-> Blank]]
    BY <1>1, Zenon DEF clear
  <2>2. clear(t) = [t EXCEPT !.count = 0, !.entries = F]
    BY <1>1, <2>1, Zenon
  <2> HIDE DEF F
  <2>3. clear(t) = [entries |-> F, mask |-> t.mask, count |-> 0]
    BY <1>1, <2>2
  <2> QED BY <2>3 DEF F
<1>3. t.mask + 1 \in Nat \ {0} /\ (t.mask + 1) - 1 = t.mask
  BY <1>1
<1>4. clear(t) = init(t.mask + 1)
  BY <1>2, <1>3 DEF init
<1> QED BY <1>3, <1>4, InitOK

LEMMA EmptyEnt ==
    ASSUME NEW t, NEW e, t.mask \in Nat, \E x \in Slot(t) : IsEmpty(t, x)
    PROVE  emptyent(t, e) \in Slot(t) /\ IsEmpty(t, emptyent(t, e))
<1> DEFINE free  == {x \in 0..t.mask : IsEmpty(t, x)}
           after == {x \in free : x > e}
<1>1. free \subseteq Nat /\ free # {} /\ after \subseteq Nat
  BY DEF Slot
<1>2. emptyent(t, e) = IF after # {} THEN Min(after) ELSE Min(free)
  BY DEF emptyent
<1>3. Min(free) \in free
  <2> HIDE DEF free
  <2> QED BY <1>1, MinIsLeast
<1>4. after # {} => Min(after) \in after
  <2> HIDE DEF after
  <2> QED BY <1>1, MinIsLeast
<1> QED BY <1>2, <1>3, <1>4 DEF Slot

\* A table with fewer entries than slots has an empty one.
LEMMA SomeSlotEmpty ==
    ASSUME NEW t, NEW hash, NEW K, NEW V, TableOK(t, hash, K, V), t.count < upb_table_size(t)
    PROVE  \E x \in Slot(t) : IsEmpty(t, x)
<1> SUFFICES ASSUME \A x \in Slot(t) : ~ IsEmpty(t, x) PROVE FALSE
  OBVIOUS
<1>1. Used(t) = Slot(t)
  BY DEF Used
<1>2. t.mask \in Nat /\ t.count = Cardinality(Used(t))
  BY DEF TableOK, TableTyped
<1>3. t.count = upb_table_size(t) /\ upb_table_size(t) \in Nat
  BY <1>1, <1>2, Slots
<1> QED BY <1>3

\* What remains to be shown of a table built from entries.
LEMMA TableFromParts ==
    ASSUME NEW t, NEW hash, NEW K, NEW V, TableOK(t, hash, K, V),
           NEW E, E \in [Slot(t) -> Entry(t, K, V)], NEW t2, NEW c,
           t2 = [entries |-> E, mask |-> t.mask, count |-> c],
           Sound(Slot(t), K, KeyAt(t2), LinkAt(t2), Mains(t, K, hash)),
           \A x \in Slot(t) : E[x].key # Empty => E[x].val \in V,
           c = Cardinality(Used(t2))
    PROVE  TableOK(t2, hash, K, V)
<1>1. t.mask \in Nat
  BY DEF TableOK, TableTyped
<1>2. t2.count = c /\ Slot(t2) = Slot(t) /\ Mains(t2, K, hash) = Mains(t, K, hash)
      /\ TableTyped(t2, K, V)
  BY <1>1, TableBuilt
<1> QED BY <1>2 DEF TableOK

\* insert() adds a key that is not in the table, if a slot is left.
LEMMA InsertOK ==
    ASSUME NEW t, NEW hash, NEW K, NEW V, Hashed(hash, K), TableOK(t, hash, K, V),
           NEW j \in K, NEW v \in V, \A x \in Slot(t) : t.entries[x].key # j,
           t.count < upb_table_size(t)
    PROVE  /\ TableOK(insert(t, j, v, hash), hash, K, V)
           /\ insert(t, j, v, hash).mask = t.mask
           /\ insert(t, j, v, hash).count = t.count + 1
           /\ \A i \in K, w \in V : Holds(insert(t, j, v, hash), i, w) <=>
                                       Holds(t, i, w) \/ (i = j /\ w = v)
<1> DEFINE M == Slot(t)
           h == Mains(t, K, hash)
           e == MainPos(t, j, hash)
           main == t.entries[e]
           f == emptyent(t, e)
           head == MainPos(t, main.key, hash)
           p == CHOOSE q \in Before(t, head, e) : TRUE
           ours == [key |-> j, val |-> v, next |-> Null]
           t2 == insert(t, j, v, hash)
           E == t.entries
           New == IF main.key = Empty THEN [E EXCEPT ![e] = ours]
                  ELSE IF head = e
                  THEN [E EXCEPT ![f] = [ours EXCEPT !.next = main.next], ![e].next = f]
                  ELSE [[E EXCEPT ![f] = main] EXCEPT ![p].next = f, ![e] = ours]
<1>1. /\ t = [entries |-> t.entries, mask |-> t.mask, count |-> t.count]
      /\ t.mask \in Nat /\ TableTyped(t, K, V) /\ j # Empty /\ Empty \notin K
      /\ E \in [M -> Entry(t, K, V)] /\ Null \notin M
      /\ Sound(M, K, KeyAt(t), LinkAt(t), h) /\ t.count = Cardinality(Used(t))
  BY Slots DEF TableOK, TableTyped, Hashed
<1>2. Setting(M, K, h) /\ \A i \in K : h[i] = MainPos(t, i, hash)
  BY <1>1, TableSetting DEF Mains
<1>3. e \in M /\ e = h[j]
  BY <1>1, <1>2, MainPosTyped DEF Hashed
<1>4. f \in M /\ E[f].key = Empty
  BY <1>1, SomeSlotEmpty, EmptyEnt DEF IsEmpty
<1>5. \A x \in M : /\ E[x].key \in K \cup {Empty} /\ E[x].val \in V \cup {0}
                   /\ E[x].next \in M \cup {Null}
                   /\ KeyAt(t)[x] = E[x].key /\ LinkAt(t)[x] = E[x].next
                   /\ KeyAt(t)[x] # j
                   /\ E[x].key # Empty => E[x].val \in V
  <2>1. \A x \in M : x \in Used(t) => E[x].val \in V
    BY <1>1 DEF TableTyped
  <2> QED BY <1>1, <2>1, TableFields DEF Used, IsEmpty
<1>6. t2 = [entries |-> New, mask |-> t.mask, count |-> t.count + 1]
  <2>1. t2 = [t EXCEPT !.count = t.count + 1, !.entries = New]
    BY <1>1, Zenon DEF insert
  <2> HIDE DEF New, t2
  <2> QED BY <1>1, <2>1
\* What has to be shown of the new entries F, which use one more slot z.
<1> DEFINE Same(F, i, w) ==
              (\E x \in M : F[x].key = i /\ F[x].val = w) <=>
              (\E x \in M : E[x].key = i /\ E[x].val = w) \/ (i = j /\ w = v)
           Good(F, z) ==
              /\ F \in [M -> Entry(t, K, V)] /\ z \in M
              /\ t2 = [entries |-> F, mask |-> t.mask, count |-> t.count + 1]
              /\ Sound(M, K, KeyAt(t2), LinkAt(t2), h)
              /\ \A x \in M : F[x].key # Empty => F[x].val \in V
              /\ E[z].key = Empty
              /\ \A x \in M : F[x].key # Empty <=> E[x].key # Empty \/ x = z
              /\ \A i \in K, w \in V : Same(F, i, w)
           Goal == /\ TableOK(t2, hash, K, V) /\ t2.mask = t.mask /\ t2.count = t.count + 1
                   /\ \A i \in K, w \in V : Holds(t2, i, w) <=> Holds(t, i, w) \/ (i = j /\ w = v)
<1>10. ASSUME NEW F, NEW z, Good(F, z) PROVE Goal
  <2>0. /\ F \in [M -> Entry(t, K, V)]
        /\ t2 = [entries |-> F, mask |-> t.mask, count |-> t.count + 1]
    BY <1>10
  <2> HIDE DEF t2
  <2>1. /\ t2.entries = F /\ t2.mask = t.mask /\ t2.count = t.count + 1 /\ Slot(t2) = M
        /\ Used(t2) = {x \in M : F[x].key # Empty}
    BY <1>1, <2>0, TableBuilt
  <2>2. Used(t2) = Used(t) \cup {z} /\ z \notin Used(t)
    BY <1>10, <2>1 DEF Used, IsEmpty
  <2>3. IsFiniteSet(Used(t))
    BY <1>1, Slots, FS_Subset DEF Used
  <2>4. t.count + 1 = Cardinality(Used(t2))
    BY <1>1, <2>2, <2>3, FS_AddElement
  <2>5. TableOK(t2, hash, K, V)
    <3>1. Sound(Slot(t), K, KeyAt(t2), LinkAt(t2), Mains(t, K, hash))
      BY <1>10
    <3>2. \A x \in Slot(t) : F[x].key # Empty => F[x].val \in V
      BY <1>10
    <3> QED BY <2>0, <2>4, <3>1, <3>2, TableFromParts
  <2>6. \A i \in K, w \in V : Holds(t2, i, w) <=> Holds(t, i, w) \/ (i = j /\ w = v)
    BY <1>10, <2>1 DEF Holds
  <2> QED BY <2>1, <2>5, <2>6
<1> SUFFICES Goal
  OBVIOUS
<1> HIDE DEF Good, Goal, New, t2
<1>7. CASE main.key = Empty
  <2> DEFINE F == [E EXCEPT ![e] = ours]
  <2>1. t2 = [entries |-> F, mask |-> t.mask, count |-> t.count + 1]
    BY <1>6, <1>7 DEF New
  <2>2. F \in [M -> Entry(t, K, V)] /\ \A x \in M : F[x] = IF x = e THEN ours ELSE E[x]
    BY <1>1, <1>3 DEF Entry
  <2> HIDE DEF F
  <2>3. /\ Typed(M, K, KeyAt(t2), LinkAt(t2))
        /\ \A x \in M : KeyAt(t2)[x] = F[x].key /\ LinkAt(t2)[x] = F[x].next
    BY <1>1, <2>1, <2>2, TableBuilt
  <2>4. KeyAt(t)[e] = Empty /\ LinkAt(t)[e] = Null
    BY <1>1, <1>3, <1>5, <1>7 DEF Sound, EmptyUnlinked
  <2>5. KeyAt(t2) = [KeyAt(t) EXCEPT ![e] = j] /\ LinkAt(t2) = LinkAt(t)
    <3>1. \A x \in M : /\ KeyAt(t2)[x] = IF x = e THEN j ELSE KeyAt(t)[x]
                       /\ LinkAt(t2)[x] = LinkAt(t)[x]
      BY <1>3, <1>5, <2>2, <2>3, <2>4
    <3>2. Typed(M, K, KeyAt(t), LinkAt(t))
      BY <1>1 DEF Sound
    <3> HIDE DEF M, e
    <3> QED BY <1>3, <2>3, <3>1, <3>2 DEF Typed
  <2>6. Sound(M, K, KeyAt(t2), LinkAt(t2), h)
    <3> HIDE DEF M, h, e
    <3>1. Sound(M, K, [KeyAt(t) EXCEPT ![e] = j], LinkAt(t), h)
      BY <1>1, <1>2, <1>3, <1>5, <2>4, SoundFresh
    <3> QED BY <2>5, <3>1
  <2>7. \A x \in M : F[x].key # Empty => F[x].val \in V
    BY <1>5, <2>2
  <2>8. \A x \in M : F[x].key # Empty <=> E[x].key # Empty \/ x = e
    BY <1>1, <1>3, <1>7, <2>2
  <2>9. \A i \in K, w \in V : Same(F, i, w)
    BY <1>1, <1>3, <1>7, <2>2
  <2>10. Good(F, e)
    BY <1>3, <1>7, <2>1, <2>2, <2>6, <2>7, <2>8, <2>9 DEF Good
  <2> QED BY <1>10, <2>10
<1>8. CASE main.key # Empty /\ head = e
  <2> DEFINE F == [E EXCEPT ![f] = [ours EXCEPT !.next = main.next], ![e].next = f]
  <2>1. t2 = [entries |-> F, mask |-> t.mask, count |-> t.count + 1]
    BY <1>6, <1>8 DEF New
  <2>2. e # f
    BY <1>4, <1>8
  <2>3. /\ F \in [M -> Entry(t, K, V)]
        /\ \A x \in M : F[x] = IF x = f THEN [key |-> j, val |-> v, next |-> E[e].next]
                               ELSE IF x = e
                               THEN [key |-> E[e].key, val |-> E[e].val, next |-> f]
                               ELSE E[x]
    BY <1>1, <1>3, <1>4, <1>5, <2>2 DEF Entry
  <2> HIDE DEF F
  <2>4. /\ Typed(M, K, KeyAt(t2), LinkAt(t2))
        /\ \A x \in M : KeyAt(t2)[x] = F[x].key /\ LinkAt(t2)[x] = F[x].next
    BY <1>1, <2>1, <2>3, TableBuilt
  <2>5. /\ KeyAt(t)[e] # Empty /\ KeyAt(t)[f] = Empty
        /\ h[KeyAt(t)[e]] = e
    BY <1>2, <1>3, <1>4, <1>5, <1>8
  <2>6. \A x \in M : KeyAt(t2)[x] = IF x = f THEN j ELSE KeyAt(t)[x]
    BY <1>3, <1>5, <2>3, <2>4
  <2>7. \A x \in M : LinkAt(t2)[x] = IF x = e THEN f ELSE IF x = f THEN LinkAt(t)[e]
                                      ELSE LinkAt(t)[x]
    BY <1>3, <1>5, <2>2, <2>3, <2>4
  <2>8. Sound(M, K, KeyAt(t2), LinkAt(t2), h)
    <3> HIDE DEF M, h, e, f
    <3> QED BY <1>1, <1>2, <1>3, <1>4, <1>5, <2>4, <2>5, <2>6, <2>7, SoundAppend
  <2>9. \A x \in M : F[x].key # Empty => F[x].val \in V
    BY <1>3, <1>5, <1>8, <2>3
  <2>10. \A x \in M : F[x].key # Empty <=> E[x].key # Empty \/ x = f
    BY <1>1, <1>3, <1>8, <2>3
  <2>11. \A i \in K, w \in V : Same(F, i, w)
    BY <1>1, <1>3, <1>4, <2>2, <2>3
  <2>12. Good(F, f)
    BY <1>4, <2>1, <2>3, <2>8, <2>9, <2>10, <2>11 DEF Good
  <2> QED BY <1>10, <2>12
<1>9. CASE main.key # Empty /\ head # e
  <2> DEFINE F == [[E EXCEPT ![f] = main] EXCEPT ![p].next = f, ![e] = ours]
  <2>1. t2 = [entries |-> F, mask |-> t.mask, count |-> t.count + 1]
    BY <1>6, <1>9 DEF New
  <2>2. KeyAt(t)[e] # Empty /\ KeyAt(t)[f] = Empty /\ h[KeyAt(t)[e]] = head /\ e \in Used(t)
    BY <1>2, <1>3, <1>4, <1>5, <1>9 DEF Used, IsEmpty
  <2>3. p \in M /\ E[p].next = e
    <3>1. PICK q \in M : LinkAt(t)[q] = e
      BY <1>1, <1>3, <1>9, <2>2 DEF Sound, NodesLinked
    <3>2. q \in Used(t) /\ MainPos(t, E[q].key, hash) = head
      <4>1. LinkAt(t)[q] # Null
        BY <1>1, <1>3, <3>1
      <4>2. KeyAt(t)[q] # Empty /\ h[KeyAt(t)[q]] = head
        BY <1>1, <2>2, <3>1, <4>1 DEF Sound, EmptyUnlinked, LinksInChain
      <4> QED BY <1>2, <1>5, <4>2 DEF Used, IsEmpty
    <3>3. head \in M
      BY <1>1, <2>2, MainPosUsed DEF Used
    <3>4. q \in Chain(t, head) /\ Chain(t, head) \subseteq M
      <4> HIDE DEF head
      <4> QED BY <1>1, <3>2, <3>3, ChainHasHash, ChainIs, TableClosed
    <3>5. q \in Before(t, head, e)
      BY <1>5, <3>1, <3>4 DEF Before
    <3>6. p \in Before(t, head, e)
      <4> HIDE DEF head, e
      <4> QED BY <3>5
    <3> QED BY <3>4, <3>6 DEF Before
  <2>4. e # f /\ p # f /\ p # e
    <3>1. e # f
      BY <1>4, <1>9
    <3>2. KeyAt(t)[p] # Empty
      BY <1>1, <1>3, <1>5, <2>3 DEF Sound, EmptyUnlinked
    <3>3. p # e
      <4>1. PICK r : Rises(r, M, LinkAt(t))
        BY <1>1 DEF Sound
      <4> HIDE DEF p, e
      <4>2. LinkAt(t)[p] = e /\ LinkAt(t)[p] # Null
        BY <1>1, <1>3, <1>5, <2>3
      <4>3. r[p] < r[e] /\ r[p] \in Nat
        BY <2>3, <4>1, <4>2 DEF Rises
      <4> QED BY <4>3
    <3> QED BY <2>2, <3>1, <3>2, <3>3
  <2> HIDE DEF p
  <2>5. /\ F \in [M -> Entry(t, K, V)]
        /\ \A x \in M : F[x] = IF x = e THEN ours
                               ELSE IF x = p
                               THEN [key |-> E[p].key, val |-> E[p].val, next |-> f]
                               ELSE IF x = f THEN E[e] ELSE E[x]
    <3> DEFINE G == [E EXCEPT ![f] = main]
               q == [key |-> E[p].key, val |-> E[p].val, next |-> f]
    <3>1. G \in [M -> Entry(t, K, V)] /\ \A x \in M : G[x] = IF x = f THEN E[e] ELSE E[x]
      BY <1>1, <1>3, <1>4
    <3>2. G[p] = E[p] /\ E[p] \in Entry(t, K, V) /\ ours \in Entry(t, K, V)
      BY <1>1, <2>3, <2>4, <3>1 DEF Entry
    <3>3. [G[p] EXCEPT !.next = f] = q /\ q \in Entry(t, K, V)
      BY <1>4, <3>2 DEF Entry
    <3>4. F = [[G EXCEPT ![p] = [G[p] EXCEPT !.next = f]] EXCEPT ![e] = ours]
      OBVIOUS
    <3>5. F = [[G EXCEPT ![p] = q] EXCEPT ![e] = ours]
      BY <3>3, <3>4, Zenon
    <3> HIDE DEF G, F, M, q, ours
    <3>6. F \in [M -> Entry(t, K, V)] /\ \A x \in M : F[x] = IF x = e THEN ours
                                                 ELSE IF x = p THEN q ELSE G[x]
      BY <1>3, <2>3, <2>4, <3>1, <3>2, <3>3, <3>5
    <3> QED BY <2>4, <3>1, <3>6 DEF q
  <2> HIDE DEF F
  <2>6. /\ Typed(M, K, KeyAt(t2), LinkAt(t2))
        /\ \A x \in M : KeyAt(t2)[x] = F[x].key /\ LinkAt(t2)[x] = F[x].next
    BY <1>1, <2>1, <2>5, TableBuilt
  <2>7. \A x \in M : KeyAt(t2)[x] = IF x = e THEN j ELSE IF x = f THEN KeyAt(t)[e]
                                     ELSE KeyAt(t)[x]
    BY <1>3, <1>5, <2>3, <2>4, <2>5, <2>6
  <2>8. \A x \in M : LinkAt(t2)[x] = IF x = e THEN Null ELSE IF x = p THEN f
                                      ELSE IF x = f THEN LinkAt(t)[e] ELSE LinkAt(t)[x]
    BY <1>3, <1>5, <2>3, <2>4, <2>5, <2>6
  <2>9. LinkAt(t)[p] = e /\ h[KeyAt(t)[e]] # e
    BY <1>5, <1>9, <2>2, <2>3
  <2>10. Sound(M, K, KeyAt(t2), LinkAt(t2), h)
    <3> HIDE DEF M, h, e, f
    <3> QED BY <1>1, <1>2, <1>3, <1>4, <1>5, <2>2, <2>3, <2>6, <2>7, <2>8, <2>9, SoundEvict
  <2>11. \A x \in M : F[x].key # Empty => F[x].val \in V
    BY <1>3, <1>5, <1>9, <2>3, <2>5
  <2>12. \A x \in M : F[x].key # Empty <=> E[x].key # Empty \/ x = f
    BY <1>1, <1>3, <1>9, <2>3, <2>4, <2>5
  <2>13. \A i \in K, w \in V : Same(F, i, w)
    <3> SUFFICES ASSUME NEW i \in K, NEW w \in V PROVE Same(F, i, w)
      OBVIOUS
    <3>1. F[e] = ours /\ F[f] = E[e]
      BY <1>3, <1>4, <2>4, <2>5
    <3>2. \A x \in M \ {e, f} : F[x].key = E[x].key /\ F[x].val = E[x].val
      BY <2>5
    <3>3. E[f].key # i
      BY <1>1, <1>4
    <3> HIDE DEF F, M, E, e, f
    <3> QED BY <1>3, <1>4, <3>1, <3>2, <3>3
  <2>14. Good(F, f)
    BY <1>4, <2>1, <2>5, <2>10, <2>11, <2>12, <2>13 DEF Good
  <2> QED BY <1>10, <2>14
<1> QED BY <1>7, <1>8, <1>9

\* rm() removes a key that is in the table, and nothing else.
LEMMA RmOK ==
    ASSUME NEW t, NEW hash, NEW K, NEW V, Hashed(hash, K), TableOK(t, hash, K, V),
           NEW j \in K, NEW x \in Slot(t), t.entries[x].key = j
    PROVE  /\ rm(t, j, hash).removed
           /\ TableOK(rm(t, j, hash).table, hash, K, V)
           /\ rm(t, j, hash).table.mask = t.mask
           /\ rm(t, j, hash).table.count = t.count - 1
           /\ \A i \in K, w \in V : Holds(rm(t, j, hash).table, i, w) <=>
                                       Holds(t, i, w) /\ i # j
<1> DEFINE M == Slot(t)
           h == Mains(t, K, hash)
           e == MainPos(t, j, hash)
           hits == {y \in Chain(t, e) : t.entries[y].key = j}
           p == CHOOSE y \in Before(t, e, x) : TRUE
           move == t.entries[e].next
           E == t.entries
           t2 == rm(t, j, hash).table
           New == IF x # e THEN [E EXCEPT ![x] = Blank, ![p].next = E[x].next]
                  ELSE IF move = Null THEN [E EXCEPT ![e] = Blank]
                  ELSE [E EXCEPT ![e] = E[move], ![move] = Blank]
<1>1. /\ t = [entries |-> t.entries, mask |-> t.mask, count |-> t.count]
      /\ t.mask \in Nat /\ TableTyped(t, K, V) /\ j # Empty /\ Empty \notin K
      /\ E \in [M -> Entry(t, K, V)] /\ Null \notin M /\ Blank \in Entry(t, K, V)
      /\ Sound(M, K, KeyAt(t), LinkAt(t), h) /\ t.count = Cardinality(Used(t))
  BY Slots DEF TableOK, TableTyped, Hashed, Entry, Blank
<1>2. Setting(M, K, h) /\ \A i \in K : h[i] = MainPos(t, i, hash)
  BY <1>1, TableSetting DEF Mains
<1>3. e \in M /\ e = h[j]
  BY <1>1, <1>2, MainPosTyped DEF Hashed
<1>4. x \in Used(t)
  BY <1>1 DEF Used, IsEmpty
<1>5. \A y \in M : /\ E[y].key \in K \cup {Empty} /\ E[y].val \in V \cup {0}
                   /\ E[y].next \in M \cup {Null}
                   /\ KeyAt(t)[y] = E[y].key /\ LinkAt(t)[y] = E[y].next
                   /\ E[y].key # Empty => E[y].val \in V
                   /\ E[y].key = j => y = x
  <2>1. \A y \in M : y \in Used(t) => E[y].val \in V
    BY <1>1 DEF TableTyped
  <2>2. KeyAt(t)[x] = j /\ x \in M
    BY <1>1, TableFields
  <2>3. \A y \in M : KeyAt(t)[y] = j => y = x
    BY <1>1, <2>2 DEF Sound, KeysDiffer
  <2> QED BY <1>1, <2>1, <2>3, TableFields DEF Used, IsEmpty
<1>6. hits = {x} /\ ~ IsEmpty(t, e)
  BY <1>4, FindEntry
<1>7. /\ rm(t, j, hash).removed
      /\ t2 = [entries |-> New, mask |-> t.mask, count |-> t.count - 1]
  <2> DEFINE y == CHOOSE z \in hits : TRUE
             q == CHOOSE z \in Before(t, e, y) : TRUE
             NewY == IF y # e THEN [E EXCEPT ![y] = Blank, ![q].next = E[y].next]
                     ELSE IF move = Null THEN [E EXCEPT ![e] = Blank]
                     ELSE [E EXCEPT ![e] = E[move], ![move] = Blank]
  <2>1. y = x
    <3> HIDE DEF hits
    <3> QED BY <1>6
  <2>2. ~(IsEmpty(t, e) \/ hits = {})
    BY <1>6
  <2>3. rm(t, j, hash) =
          IF IsEmpty(t, e) \/ hits = {} THEN [table |-> t, removed |-> FALSE]
          ELSE [removed |-> TRUE,
                table |-> [t EXCEPT !.count = t.count - 1, !.entries = NewY]]
    BY <1>1, Zenon DEF rm
  <2>4. NewY = New
    <3> HIDE DEF y
    <3>1. Before(t, e, y) = Before(t, e, x)
      BY <2>1
    <3>2. q = p
      BY <3>1
    <3> HIDE DEF p, q
    <3> QED BY <2>1, <3>2
  <2> HIDE DEF NewY, New, hits
  <2>5. rm(t, j, hash) = [removed |-> TRUE,
                          table |-> [t EXCEPT !.count = t.count - 1, !.entries = New]]
    BY <2>2, <2>3, <2>4, Zenon
  <2>6. t2 = [t EXCEPT !.count = t.count - 1, !.entries = New] /\ rm(t, j, hash).removed
    BY <2>5
  <2> HIDE DEF t2
  <2> QED BY <1>1, <2>6
\* What has to be shown of the new entries F, which use one slot, z, less.
<1> DEFINE Same(F, i, w) ==
              (\E y \in M : F[y].key = i /\ F[y].val = w) <=>
              (\E y \in M : E[y].key = i /\ E[y].val = w) /\ i # j
           Good(F, z) ==
              /\ F \in [M -> Entry(t, K, V)] /\ z \in M
              /\ t2 = [entries |-> F, mask |-> t.mask, count |-> t.count - 1]
              /\ Sound(M, K, KeyAt(t2), LinkAt(t2), h)
              /\ \A y \in M : F[y].key # Empty => F[y].val \in V
              /\ E[z].key # Empty
              /\ \A y \in M : F[y].key # Empty <=> E[y].key # Empty /\ y # z
              /\ \A i \in K, w \in V : Same(F, i, w)
           Goal == /\ TableOK(t2, hash, K, V) /\ t2.mask = t.mask /\ t2.count = t.count - 1
                   /\ \A i \in K, w \in V : Holds(t2, i, w) <=> Holds(t, i, w) /\ i # j
<1>8. ASSUME NEW F, NEW z, Good(F, z) PROVE Goal
  <2>0. /\ F \in [M -> Entry(t, K, V)]
        /\ t2 = [entries |-> F, mask |-> t.mask, count |-> t.count - 1]
    BY <1>8
  <2> HIDE DEF t2
  <2>1. /\ t2.entries = F /\ t2.mask = t.mask /\ t2.count = t.count - 1 /\ Slot(t2) = M
        /\ Used(t2) = {y \in M : F[y].key # Empty}
    BY <1>1, <2>0, TableBuilt
  <2>2. Used(t2) = Used(t) \ {z} /\ z \in Used(t)
    BY <1>8, <2>1 DEF Used, IsEmpty
  <2>3. IsFiniteSet(Used(t))
    BY <1>1, Slots, FS_Subset DEF Used
  <2>4. t.count - 1 = Cardinality(Used(t2))
    BY <1>1, <2>2, <2>3, FS_RemoveElement
  <2>5. TableOK(t2, hash, K, V)
    <3>1. Sound(Slot(t), K, KeyAt(t2), LinkAt(t2), Mains(t, K, hash))
      BY <1>8
    <3>2. \A y \in Slot(t) : F[y].key # Empty => F[y].val \in V
      BY <1>8
    <3> QED BY <2>0, <2>4, <3>1, <3>2, TableFromParts
  <2>6. \A i \in K, w \in V : Holds(t2, i, w) <=> Holds(t, i, w) /\ i # j
    BY <1>8, <2>1 DEF Holds
  <2> QED BY <2>1, <2>5, <2>6
<1> SUFFICES Goal
  BY <1>7
<1> HIDE DEF Good, Goal, New, t2, hits
<1>9. CASE x # e
  <2> DEFINE F == [E EXCEPT ![x] = Blank, ![p].next = E[x].next]
  <2>1. t2 = [entries |-> F, mask |-> t.mask, count |-> t.count - 1]
    BY <1>7, <1>9 DEF New
  <2>2. p \in M /\ E[p].next = x
    <3>1. KeyAt(t)[x] = j /\ x # h[KeyAt(t)[x]]
      BY <1>3, <1>5, <1>9
    <3>2. PICK q \in M : LinkAt(t)[q] = x
      BY <1>1, <3>1 DEF Sound, NodesLinked
    <3>3. q \in Used(t) /\ MainPos(t, E[q].key, hash) = e
      <4>1. LinkAt(t)[q] # Null
        BY <1>1, <3>2
      <4>2. KeyAt(t)[q] # Empty /\ h[KeyAt(t)[q]] = e
        BY <1>1, <1>3, <3>1, <3>2, <4>1 DEF Sound, EmptyUnlinked, LinksInChain
      <4> QED BY <1>2, <1>5, <4>2 DEF Used, IsEmpty
    <3> HIDE DEF e
    <3>4. q \in Chain(t, e) /\ Chain(t, e) \subseteq M
      BY <1>1, <1>3, <3>3, ChainHasHash, ChainIs, TableClosed
    <3>5. q \in Before(t, e, x)
      BY <1>5, <3>2, <3>4 DEF Before
    <3>6. p \in Before(t, e, x)
      BY <3>5
    <3> QED BY <3>4, <3>6 DEF Before
  <2> HIDE DEF p
  <2>3. p # x
    <3>1. PICK r : Rises(r, M, LinkAt(t))
      BY <1>1 DEF Sound
    <3>2. LinkAt(t)[p] = x /\ LinkAt(t)[p] # Null
      BY <1>1, <1>5, <2>2
    <3>3. r[p] < r[x] /\ r[p] \in Nat
      BY <2>2, <3>1, <3>2 DEF Rises
    <3> QED BY <3>3
  <2>4. /\ F \in [M -> Entry(t, K, V)]
        /\ \A y \in M : F[y] = IF y = p
                               THEN [key |-> E[p].key, val |-> E[p].val, next |-> E[x].next]
                               ELSE IF y = x THEN Blank ELSE E[y]
    <3> DEFINE G == [E EXCEPT ![x] = Blank]
               q == [key |-> E[p].key, val |-> E[p].val, next |-> E[x].next]
    <3>1. G \in [M -> Entry(t, K, V)] /\ \A y \in M : G[y] = IF y = x THEN Blank ELSE E[y]
      BY <1>1
    <3>2. G[p] = E[p] /\ E[p] \in Entry(t, K, V) /\ E[x].next \in M \cup {Null}
      BY <1>1, <1>5, <2>2, <2>3, <3>1
    <3>3. [G[p] EXCEPT !.next = E[x].next] = q /\ q \in Entry(t, K, V)
      BY <3>2 DEF Entry
    <3>4. F = [G EXCEPT ![p] = [G[p] EXCEPT !.next = E[x].next]]
      OBVIOUS
    <3>5. F = [G EXCEPT ![p] = q]
      BY <3>3, <3>4, Zenon
    <3> HIDE DEF G, F, M, q
    <3>6. F \in [M -> Entry(t, K, V)] /\ \A y \in M : F[y] = IF y = p THEN q ELSE G[y]
      BY <2>2, <3>1, <3>3, <3>5
    <3> QED BY <2>3, <3>1, <3>6 DEF q
  <2> HIDE DEF F
  <2>5. /\ Typed(M, K, KeyAt(t2), LinkAt(t2))
        /\ \A y \in M : KeyAt(t2)[y] = F[y].key /\ LinkAt(t2)[y] = F[y].next
    BY <1>1, <2>1, <2>4, TableBuilt
  <2>6. \A y \in M : KeyAt(t2)[y] = IF y = x THEN Empty ELSE KeyAt(t)[y]
    BY <1>5, <2>2, <2>3, <2>4, <2>5 DEF Blank
  <2>7. \A y \in M : LinkAt(t2)[y] = IF y = p THEN LinkAt(t)[x]
                                      ELSE IF y = x THEN Null ELSE LinkAt(t)[y]
    BY <1>5, <2>2, <2>3, <2>4, <2>5 DEF Blank
  <2>8. Sound(M, K, KeyAt(t2), LinkAt(t2), h)
    <3>1. LinkAt(t)[p] = x /\ x \in M
      BY <1>5, <2>2
    <3> HIDE DEF M, h, e
    <3> QED BY <1>1, <1>2, <2>2, <2>5, <2>6, <2>7, <3>1, SoundUnlink
  <2>9. \A y \in M : F[y].key # Empty => F[y].val \in V
    BY <1>5, <2>2, <2>4 DEF Blank
  <2>10. \A y \in M : F[y].key # Empty <=> E[y].key # Empty /\ y # x
    BY <2>3, <2>4 DEF Blank
  <2>11. \A i \in K, w \in V : Same(F, i, w)
    <3>1. \A y \in M : y # x => F[y].key = E[y].key /\ F[y].val = E[y].val
      BY <2>4
    <3>2. F[x].key \notin K
      BY <1>1, <2>3, <2>4 DEF Blank
    <3>3. x \in M /\ E[x].key = j
      OBVIOUS
    <3> HIDE DEF M, E
    <3> QED BY <1>5, <3>1, <3>2, <3>3
  <2>12. Good(F, x)
    BY <1>1, <2>1, <2>4, <2>8, <2>9, <2>10, <2>11 DEF Good
  <2> QED BY <1>8, <2>12
<1>10. CASE x = e /\ move = Null
  <2> DEFINE F == [E EXCEPT ![e] = Blank]
  <2>1. t2 = [entries |-> F, mask |-> t.mask, count |-> t.count - 1]
    BY <1>7, <1>10 DEF New
  <2>2. F \in [M -> Entry(t, K, V)] /\ \A y \in M : F[y] = IF y = x THEN Blank ELSE E[y]
    BY <1>1, <1>3, <1>10
  <2> HIDE DEF F
  <2>3. /\ Typed(M, K, KeyAt(t2), LinkAt(t2))
        /\ \A y \in M : KeyAt(t2)[y] = F[y].key /\ LinkAt(t2)[y] = F[y].next
    BY <1>1, <2>1, <2>2, TableBuilt
  <2>4. KeyAt(t)[x] = j /\ h[j] = x /\ LinkAt(t)[x] = Null
    BY <1>3, <1>5, <1>10
  <2>5. \A y \in M : /\ KeyAt(t2)[y] = IF y = x THEN Empty ELSE KeyAt(t)[y]
                     /\ LinkAt(t2)[y] = LinkAt(t)[y]
    BY <1>5, <2>2, <2>3, <2>4 DEF Blank
  <2>6. LinkAt(t2) = LinkAt(t)
    <3>1. Typed(M, K, KeyAt(t), LinkAt(t))
      BY <1>1 DEF Sound
    <3> HIDE DEF M
    <3> QED BY <2>3, <2>5, <3>1 DEF Typed
  <2>7. Sound(M, K, KeyAt(t2), LinkAt(t2), h)
    <3> HIDE DEF M, h
    <3>1. Sound(M, K, KeyAt(t2), LinkAt(t), h)
      BY <1>1, <1>2, <2>3, <2>4, <2>5, <2>6, SoundRemoveLast DEF M
    <3> QED BY <2>6, <3>1
  <2>8. \A y \in M : F[y].key # Empty => F[y].val \in V
    BY <1>5, <2>2 DEF Blank
  <2>9. \A y \in M : F[y].key # Empty <=> E[y].key # Empty /\ y # x
    BY <2>2 DEF Blank
  <2>10. \A i \in K, w \in V : Same(F, i, w)
    <3>1. \A y \in M : y # x => F[y] = E[y]
      BY <2>2
    <3>2. F[x].key \notin K
      BY <1>1, <2>2 DEF Blank
    <3>3. x \in M /\ E[x].key = j
      OBVIOUS
    <3> HIDE DEF M, E
    <3> QED BY <1>5, <3>1, <3>2, <3>3
  <2>11. Good(F, x)
    BY <1>1, <2>1, <2>2, <2>7, <2>8, <2>9, <2>10 DEF Good
  <2> QED BY <1>8, <2>11
<1>11. CASE x = e /\ move # Null
  <2> DEFINE F == [E EXCEPT ![e] = E[move], ![move] = Blank]
  <2>1. t2 = [entries |-> F, mask |-> t.mask, count |-> t.count - 1]
    BY <1>7, <1>11 DEF New
  <2>2. /\ KeyAt(t)[x] = j /\ h[j] = x /\ LinkAt(t)[x] = move /\ move \in M /\ move # x
        /\ E[move].key # Empty
    <3>1. KeyAt(t)[x] = j /\ h[j] = x /\ LinkAt(t)[x] = move /\ move \in M
      BY <1>3, <1>5, <1>11
    <3>2. move # x /\ KeyAt(t)[move] # Empty
      BY <1>1, <1>11, <3>1 DEF Sound, LinksInChain
    <3> QED BY <1>5, <3>1, <3>2
  <2>3. /\ F \in [M -> Entry(t, K, V)]
        /\ \A y \in M : F[y] = IF y = x THEN E[move] ELSE IF y = move THEN Blank ELSE E[y]
    BY <1>1, <1>3, <1>11, <2>2
  <2> HIDE DEF F, move
  <2>4. /\ Typed(M, K, KeyAt(t2), LinkAt(t2))
        /\ \A y \in M : KeyAt(t2)[y] = F[y].key /\ LinkAt(t2)[y] = F[y].next
    BY <1>1, <2>1, <2>3, TableBuilt
  <2>5. \A y \in M : /\ KeyAt(t2)[y] = IF y = x THEN KeyAt(t)[move]
                                        ELSE IF y = move THEN Empty ELSE KeyAt(t)[y]
                     /\ LinkAt(t2)[y] = IF y = x THEN LinkAt(t)[move]
                                         ELSE IF y = move THEN Null ELSE LinkAt(t)[y]
    BY <1>5, <2>2, <2>3, <2>4 DEF Blank
  <2>6. Sound(M, K, KeyAt(t2), LinkAt(t2), h)
    <3>1. KeyAt(t)[x] # Empty /\ h[KeyAt(t)[x]] = x
      BY <1>1, <2>2
    <3>2. x \in M
      OBVIOUS
    <3> HIDE DEF M, h
    <3> QED BY <1>1, <1>2, <2>2, <2>4, <2>5, <3>1, <3>2, SoundRemoveHead
  <2>7. \A y \in M : F[y].key # Empty => F[y].val \in V
    BY <1>5, <2>2, <2>3 DEF Blank
  <2>8. \A y \in M : F[y].key # Empty <=> E[y].key # Empty /\ y # move
    BY <1>1, <2>2, <2>3 DEF Blank
  <2>9. \A i \in K, w \in V : Same(F, i, w)
    <3>1. \A y \in M : y # x /\ y # move => F[y] = E[y]
      BY <2>3
    <3>2. F[x] = E[move] /\ F[move].key \notin K /\ E[move].key # j
      BY <1>1, <1>5, <2>2, <2>3 DEF Blank
    <3> HIDE DEF E
    <3> QED BY <1>5, <2>2, <3>1, <3>2
  <2>10. Good(F, move)
    BY <2>1, <2>2, <2>3, <2>6, <2>7, <2>8, <2>9 DEF Good
  <2> QED BY <1>8, <2>10
<1> QED BY <1>9, <1>10, <1>11

\* rm() of a key that is not in the table does nothing.
LEMMA RmNothing ==
    ASSUME NEW t, NEW hash, NEW K, NEW V, Hashed(hash, K), TableOK(t, hash, K, V),
           NEW j \in K, \A x \in Slot(t) : t.entries[x].key # j
    PROVE  rm(t, j, hash) = [table |-> t, removed |-> FALSE]
<1>1. {y \in Chain(t, MainPos(t, j, hash)) : t.entries[y].key = j} = {}
  BY FindEntry DEF Used
<1> QED BY <1>1, Zenon DEF rm

-----------------------------------------------------------------------------
(* resize(): the entries of a table, inserted one after the other.         *)

ResizeTo(f, t, size, hash, k) ==
    f = [n \in 0..k |-> IF n = 0 THEN init(size)
                        ELSE IF IsEmpty(t, n - 1) THEN f[n - 1]
                        ELSE insert(f[n - 1], t.entries[n - 1].key, t.entries[n - 1].val, hash)]

LEMMA ResizesExist ==
    ASSUME NEW t, NEW size, NEW hash
    PROVE  \A k \in Nat : \E f : ResizeTo(f, t, size, hash, k)
<1> DEFINE Q == {k \in Nat : \E f : ResizeTo(f, t, size, hash, k)}
           Step(b, n) == IF IsEmpty(t, n - 1) THEN b
                         ELSE insert(b, t.entries[n - 1].key, t.entries[n - 1].val, hash)
<1>0. \A f, k : ResizeTo(f, t, size, hash, k) <=>
                f = [n \in 0..k |-> IF n = 0 THEN init(size) ELSE Step(f[n - 1], n)]
  BY DEF ResizeTo
<1> HIDE DEF Step
<1>1. 0 \in Q
  <2> DEFINE f == [n \in 0..0 |-> init(size)]
  <2>1. \A n \in 0..0 : n = 0
    OBVIOUS
  <2>2. f = [n \in 0..0 |-> IF n = 0 THEN init(size) ELSE Step(f[n - 1], n)]
    BY <2>1
  <2> HIDE DEF f
  <2>3. ResizeTo(f, t, size, hash, 0)
    BY <1>0, <2>2
  <2> QED BY <2>3
<1>2. ASSUME NEW k \in Nat, k \in Q PROVE k + 1 \in Q
  <2>1. PICK f : f = [n \in 0..k |-> IF n = 0 THEN init(size) ELSE Step(f[n - 1], n)]
    BY <1>0, <1>2
  <2> DEFINE g == [n \in 0..(k + 1) |-> IF n = 0 THEN init(size) ELSE Step(f[n - 1], n)]
  <2>2. \A n \in 0..k : n \in 0..(k + 1) /\ g[n] = f[n]
    <3> SUFFICES ASSUME NEW n \in 0..k PROVE n \in 0..(k + 1) /\ g[n] = f[n]
      OBVIOUS
    <3>1. n \in 0..(k + 1)
      OBVIOUS
    <3>2. f[n] = IF n = 0 THEN init(size) ELSE Step(f[n - 1], n)
      BY <2>1, Zenon
    <3>3. g[n] = IF n = 0 THEN init(size) ELSE Step(f[n - 1], n)
      BY <3>1, Zenon
    <3> QED BY <3>1, <3>2, <3>3, Zenon
  <2>3. \A n \in 0..(k + 1) : n # 0 => g[n - 1] = f[n - 1]
    <3> SUFFICES ASSUME NEW n \in 0..(k + 1), n # 0 PROVE g[n - 1] = f[n - 1]
      OBVIOUS
    <3>1. n - 1 \in 0..k
      OBVIOUS
    <3> QED BY <2>2, <3>1
  <2>4. g = [n \in 0..(k + 1) |-> IF n = 0 THEN init(size) ELSE Step(g[n - 1], n)]
    BY <2>3
  <2> HIDE DEF g
  <2>5. ResizeTo(g, t, size, hash, k + 1)
    BY <1>0, <2>4
  <2> QED BY <2>5
<1> HIDE DEF Q
<1>3. \A k \in Nat : k \in Q
  BY <1>1, <1>2, NumberInduction
<1> QED BY <1>3 DEF Q

\* resize() keeps what a table holds.
LEMMA ResizeOK ==
    ASSUME NEW t, NEW hash, NEW K, NEW V, Hashed(hash, K), TableOK(t, hash, K, V),
           NEW size \in Nat \ {0}, t.count < size
    PROVE  /\ TableOK(resize(t, size, hash), hash, K, V)
           /\ resize(t, size, hash).mask = size - 1
           /\ resize(t, size, hash).count = t.count
           /\ \A i \in K, w \in V : Holds(resize(t, size, hash), i, w) <=> Holds(t, i, w)
<1> DEFINE k == upb_table_size(t)
           f == CHOOSE g : g = [n \in 0..k |->
                   IF n = 0 THEN init(size) ELSE IF IsEmpty(t, n - 1) THEN g[n - 1]
                   ELSE insert(g[n - 1], t.entries[n - 1].key, t.entries[n - 1].val, hash)]
<1>0. /\ t.mask \in Nat /\ k = t.mask + 1 /\ k \in Nat /\ TableTyped(t, K, V)
      /\ IsFiniteSet(Used(t)) /\ t.count = Cardinality(Used(t)) /\ t.count \in Nat
  <2>1. t.mask \in Nat /\ TableTyped(t, K, V) /\ t.count = Cardinality(Used(t))
    BY DEF TableOK, TableTyped
  <2>2. IsFiniteSet(Used(t))
    BY <2>1, Slots, FS_Subset DEF Used
  <2> QED BY <2>1, <2>2, FS_CardinalityType DEF upb_table_size
<1>1. resize(t, size, hash) = f[k]
  BY DEF resize
<1>2. ResizeTo(f, t, size, hash, k)
  <2>1. PICK g : ResizeTo(g, t, size, hash, k)
    <3> HIDE DEF k
    <3> QED BY <1>0, ResizesExist
  <2> QED BY <2>1, Zenon DEF ResizeTo
<1> HIDE DEF f, k
<1>3. f[0] = init(size)
  <2>1. 0 \in 0..k
    BY <1>0
  <2> QED BY <1>2, <2>1 DEF ResizeTo
<1>4. ASSUME NEW n \in Nat, n + 1 <= k
      PROVE  f[n + 1] = IF IsEmpty(t, n) THEN f[n]
                        ELSE insert(f[n], t.entries[n].key, t.entries[n].val, hash)
  <2>1. n + 1 \in 0..k /\ n + 1 # 0 /\ (n + 1) - 1 = n
    BY <1>0, <1>4
  <2>2. f[n + 1] = IF n + 1 = 0 THEN init(size) ELSE IF IsEmpty(t, (n + 1) - 1) THEN f[(n + 1) - 1]
                   ELSE insert(f[(n + 1) - 1], t.entries[(n + 1) - 1].key,
                               t.entries[(n + 1) - 1].val, hash)
    BY <1>2, <2>1, Zenon DEF ResizeTo
  <2> QED BY <2>1, <2>2
<1> DEFINE U(n) == {x \in Used(t) : x < n}
           From(n, i, w) == \E x \in Slot(t) : x < n /\ t.entries[x].key = i /\ t.entries[x].val = w
           P(n) == /\ TableOK(f[n], hash, K, V) /\ f[n].mask = size - 1
                   /\ f[n].count = Cardinality(U(n))
                   /\ \A i \in K, w \in V : Holds(f[n], i, w) <=> From(n, i, w)
           Q == {n \in Nat : n <= k => P(n)}
<1>5. \A n \in Nat : IsFiniteSet(U(n)) /\ Cardinality(U(n)) <= t.count /\ Cardinality(U(n)) \in Nat
  BY <1>0, FS_Subset, FS_CardinalityType
<1>6. 0 \in Q
  <2>1. TableOK(f[0], hash, K, V) /\ f[0].mask = size - 1 /\ f[0].count = 0 /\ Used(f[0]) = {}
    BY <1>3, InitOK
  <2>2. U(0) = {}
    BY <1>0 DEF Used, Slot
  <2>3. f[0].count = Cardinality(U(0))
    BY <2>1, <2>2, FS_EmptySet
  <2>4. ASSUME NEW i \in K, NEW w \in V PROVE Holds(f[0], i, w) <=> From(0, i, w)
    <3>1. ~ Holds(f[0], i, w)
      <4>1. i # Empty
        BY DEF Hashed
      <4> QED BY <2>1, <4>1 DEF Holds, Used, IsEmpty
    <3>2. ~ From(0, i, w)
      BY <1>0 DEF Slot
    <3> QED BY <3>1, <3>2
  <2> QED BY <2>1, <2>3, <2>4
<1>7. ASSUME NEW n \in Nat, n \in Q PROVE n + 1 \in Q
  <2> SUFFICES ASSUME n + 1 <= k PROVE P(n + 1)
    OBVIOUS
  <2>1. P(n) /\ n \in Slot(t)
    BY <1>0, <1>7 DEF Slot
  <2>2. \A x \in Slot(t) : x < n + 1 <=> x < n \/ x = n
    BY <1>0 DEF Slot
  <2>3. CASE IsEmpty(t, n)
    <3>1. f[n + 1] = f[n]
      BY <1>4, <2>3
    <3>2. U(n + 1) = U(n)
      BY <2>2, <2>3 DEF Used
    <3>3. ASSUME NEW i \in K, NEW w \in V PROVE From(n + 1, i, w) <=> From(n, i, w)
      <4>1. i # Empty
        BY DEF Hashed
      <4> QED BY <2>2, <2>3, <4>1 DEF IsEmpty
    <3> HIDE DEF U, From
    <3> QED BY <2>1, <3>1, <3>2, <3>3
  <2>4. CASE ~ IsEmpty(t, n)
    <3> DEFINE j == t.entries[n].key
               v == t.entries[n].val
    <3>1. n \in Used(t) /\ j \in K /\ v \in V
      <4>1. n \in Used(t)
        BY <2>1, <2>4 DEF Used
      <4>2. t.entries[n].key \in K \cup {Empty} /\ t.entries[n].key # Empty
        BY <1>0, <2>1, <2>4, TableFields DEF IsEmpty
      <4>3. v \in V
        BY <1>0, <4>1 DEF TableTyped
      <4> QED BY <4>1, <4>2, <4>3
    <3>2. f[n + 1] = insert(f[n], j, v, hash)
      BY <1>4, <2>4
    <3> HIDE DEF j, v
    <3>3. U(n + 1) = U(n) \cup {n} /\ n \notin U(n)
      <4>1. \A x \in Used(t) : x < n + 1 <=> x < n \/ x = n
        BY <2>2 DEF Used
      <4>2. ~(n < n)
        OBVIOUS
      <4> QED BY <3>1, <4>1, <4>2
    <3>4. Cardinality(U(n + 1)) = Cardinality(U(n)) + 1
      <4> HIDE DEF U
      <4> QED BY <1>5, <3>3, FS_AddElement
    <3>5. f[n].count < upb_table_size(f[n])
      <4>1. Cardinality(U(n)) <= t.count /\ Cardinality(U(n)) \in Nat
        BY <1>5
      <4> QED BY <1>0, <2>1, <4>1 DEF upb_table_size
    <3>6. \A x \in Slot(f[n]) : f[n].entries[x].key # j
      <4> SUFFICES ASSUME NEW x \in Slot(f[n]), f[n].entries[x].key = j PROVE FALSE
        OBVIOUS
      <4>1. j # Empty /\ TableTyped(f[n], K, V)
        BY <2>1, <3>1 DEF Hashed, TableOK
      <4>2. x \in Used(f[n])
        BY <4>1 DEF Used, IsEmpty
      <4>3. f[n].entries[x].val \in V
        BY <4>1, <4>2 DEF TableTyped
      <4>4. Holds(f[n], j, f[n].entries[x].val)
        BY DEF Holds
      <4>5. PICK y \in Slot(t) : y < n /\ t.entries[y].key = j
        BY <2>1, <3>1, <4>3, <4>4
      <4>6. KeyAt(t)[y] = j /\ KeyAt(t)[n] = j
        BY <2>1, <4>5 DEF KeyAt, j
      <4>7. y = n
        BY <2>1, <4>1, <4>6 DEF TableOK, Sound, KeysDiffer
      <4> QED BY <4>5, <4>7
    <3>7. /\ TableOK(f[n + 1], hash, K, V) /\ f[n + 1].mask = f[n].mask
          /\ f[n + 1].count = f[n].count + 1
          /\ \A i \in K, w \in V : Holds(f[n + 1], i, w) <=> Holds(f[n], i, w) \/ (i = j /\ w = v)
      BY <2>1, <3>1, <3>2, <3>5, <3>6, InsertOK
    <3>8. ASSUME NEW i \in K, NEW w \in V
          PROVE  From(n + 1, i, w) <=> From(n, i, w) \/ (i = j /\ w = v)
      BY <2>1, <2>2 DEF j, v
    <3> HIDE DEF U, From
    <3> QED BY <2>1, <3>4, <3>7, <3>8
  <2> QED BY <2>3, <2>4
<1> HIDE DEF P, Q
<1>8. \A n \in Nat : n \in Q
  BY <1>6, <1>7, NumberInduction
<1>9. P(k)
  BY <1>0, <1>8 DEF Q
<1>10. U(k) = Used(t)
  BY <1>0 DEF Used, Slot
<1>11. \A i \in K, w \in V : From(k, i, w) <=> Holds(t, i, w)
  BY <1>0 DEF Holds, Slot
<1> HIDE DEF U, From
<1> QED BY <1>0, <1>1, <1>9, <1>10, <1>11 DEF P

-----------------------------------------------------------------------------
(* Tables that removeiter() is used on.  It does not move the successor of *)
(* the entry it empties, so an entry may be left out of the chain of its   *)
(* hash, and two entries may have the same key.  What remains true of the  *)
(* links, and is enough:                                                   *)

Loose(M, K, k, n, h) ==
    /\ Typed(M, K, k, n)
    /\ EmptyUnlinked(M, k, n)
    /\ LinksInChain(M, k, n, h)
    /\ LinksDiffer(M, n)

\* A set that is left by no link.
LinkClosed(n, S) == \A x \in S : n[x] # Null => n[x] \in S

\* Following the links from m leads to x.
LeadsTo(M, n, m, x) == \A S \in SUBSET M : m \in S /\ LinkClosed(n, S) => x \in S

\* A chain that starts at an empty entry has no other.
LEMMA EmptyLeadsNowhere ==
    ASSUME NEW M, NEW K, NEW k, NEW n, NEW h, Loose(M, K, k, n, h),
           NEW f \in M, k[f] = Empty, NEW x, LeadsTo(M, n, f, x)
    PROVE  x = f
<1>1. n[f] = Null
  BY DEF Loose, EmptyUnlinked
<1>2. {f} \in SUBSET M /\ f \in {f} /\ LinkClosed(n, {f})
  BY <1>1 DEF LinkClosed
<1>3. x \in {f}
  BY <1>2 DEF LeadsTo
<1> QED BY <1>3

\* A chain that starts at a used entry meets entries of its hash only.
LEMMA LeadsToHash ==
    ASSUME NEW M, NEW K, NEW k, NEW n, NEW h, Loose(M, K, k, n, h),
           NEW e \in M, k[e] # Empty, NEW x, LeadsTo(M, n, e, x)
    PROVE  x \in M /\ k[x] # Empty /\ h[k[x]] = h[k[e]]
<1> DEFINE S == {y \in M : k[y] # Empty /\ h[k[y]] = h[k[e]]}
<1>1. LinkClosed(n, S)
  BY DEF LinkClosed, Loose, Typed, LinksInChain
<1>2. S \in SUBSET M /\ e \in S
  OBVIOUS
<1>3. x \in S
  BY <1>1, <1>2 DEF LeadsTo
<1> QED BY <1>3

\* Whoever is met after the first entry is linked to by one that is met.
LEMMA LeadsThrough ==
    ASSUME NEW M, NEW n, LinkClosed(n, M), NEW m \in M, NEW x, x # m, LeadsTo(M, n, m, x)
    PROVE  \E p \in M : LeadsTo(M, n, m, p) /\ n[p] = x
<1> SUFFICES ASSUME \A p \in M : LeadsTo(M, n, m, p) => n[p] # x PROVE FALSE
  OBVIOUS
<1> DEFINE S == {y \in M : LeadsTo(M, n, m, y) /\ y # x}
<1>1. m \in S
  BY DEF LeadsTo
<1>2. LinkClosed(n, S)
  <2> SUFFICES ASSUME NEW y \in S, n[y] # Null PROVE n[y] \in S
    BY DEF LinkClosed
  <2>1. n[y] # x
    OBVIOUS
  <2>2. ASSUME NEW T \in SUBSET M, m \in T, LinkClosed(n, T) PROVE n[y] \in T
    <3>1. y \in T
      BY <2>2 DEF LeadsTo
    <3> QED BY <2>2, <3>1 DEF LinkClosed
  <2>3. LeadsTo(M, n, m, n[y])
    BY <2>2 DEF LeadsTo
  <2>4. n[y] \in M
    BY DEF LinkClosed
  <2> QED BY <2>1, <2>3, <2>4
<1> QED BY <1>1, <1>2 DEF LeadsTo

----------------------------------------------------------------------------
(* The changes insert() makes: the links stay loose, and what could be     *)
(* reached from its main position still can be.                            *)

\* Entry x is in the chain that starts at its main position.
Reached(M, k, n, h, x) == LeadsTo(M, n, h[k[x]], x)

\* The main position of the new key is empty.
LEMMA LooseFresh ==
    ASSUME NEW M, NEW K, NEW k, NEW n, NEW h, Setting(M, K, h), Loose(M, K, k, n, h),
           NEW j \in K, NEW e \in M, e = h[j], k[e] = Empty,
           NEW k2, NEW n2, Typed(M, K, k2, n2),
           \A x \in M : k2[x] = IF x = e THEN j ELSE k[x],
           n2 = n
    PROVE  /\ Loose(M, K, k2, n2, h)
           /\ Reached(M, k2, n2, h, e)
           /\ \A x \in M : k[x] # Empty /\ Reached(M, k, n, h, x) => Reached(M, k2, n2, h, x)
<1>0. n[e] = Null /\ \A x \in M : n[x] # e
  BY DEF Loose, EmptyUnlinked, LinksInChain, Setting, Null
<1>1. EmptyUnlinked(M, k2, n2)
  BY <1>0 DEF Loose, EmptyUnlinked
<1>2. LinksInChain(M, k2, n2, h)
  <2> SUFFICES ASSUME NEW x \in M, n2[x] # Null
               PROVE  k2[n2[x]] # Empty /\ h[k2[n2[x]]] = h[k2[x]] /\ n2[x] # h[k2[x]]
    BY DEF LinksInChain
  <2>1. x # e /\ n[x] # e /\ n[x] \in M
    BY <1>0 DEF Loose, Typed
  <2>2. k2[x] = k[x] /\ k2[n[x]] = k[n[x]]
    BY <2>1
  <2> QED BY <2>2 DEF Loose, LinksInChain
<1>3. Reached(M, k2, n2, h, e)
  BY DEF Reached, LeadsTo
<1>4. ASSUME NEW x \in M, k[x] # Empty, Reached(M, k, n, h, x) PROVE Reached(M, k2, n2, h, x)
  <2>1. k2[x] = k[x]
    BY <1>4
  <2> QED BY <1>4, <2>1 DEF Reached
<1> QED BY <1>1, <1>2, <1>3, <1>4 DEF Loose

\* The main position holds an entry of its own chain: the new one comes second.
LEMMA LooseAppend ==
    ASSUME NEW M, NEW K, NEW k, NEW n, NEW h, Setting(M, K, h), Loose(M, K, k, n, h),
           NEW j \in K, NEW e \in M, e = h[j], k[e] # Empty, h[k[e]] = e,
           NEW f \in M, k[f] = Empty,
           NEW k2, NEW n2, Typed(M, K, k2, n2),
           \A x \in M : k2[x] = IF x = f THEN j ELSE k[x],
           \A x \in M : n2[x] = IF x = e THEN f ELSE IF x = f THEN n[e] ELSE n[x]
    PROVE  /\ Loose(M, K, k2, n2, h)
           /\ Reached(M, k2, n2, h, f)
           /\ \A x \in M : k[x] # Empty /\ Reached(M, k, n, h, x) => Reached(M, k2, n2, h, x)
<1>0. e # f /\ n[f] = Null /\ (\A x \in M : n[x] # f /\ n[x] # e) /\ f # Null
  <2>1. \A x \in M : n[x] # Null => n[x] # e
    BY DEF Loose, Typed, LinksInChain
  <2> QED BY <2>1 DEF Loose, EmptyUnlinked, LinksInChain, Setting, Null
<1>1. EmptyUnlinked(M, k2, n2)
  BY <1>0 DEF Loose, EmptyUnlinked, Setting
<1>2. LinksInChain(M, k2, n2, h)
  <2> SUFFICES ASSUME NEW x \in M, n2[x] # Null
               PROVE  k2[n2[x]] # Empty /\ h[k2[n2[x]]] = h[k2[x]] /\ n2[x] # h[k2[x]]
    BY DEF LinksInChain
  <2>1. CASE x = e
    <3>1. k2[f] = j /\ k2[e] = k[e] /\ n2[e] = f
      BY <1>0
    <3> QED BY <1>0, <2>1, <3>1 DEF Setting
  <2>2. CASE x = f
    <3>1. k2[f] = j /\ n2[f] = n[e] /\ n[e] # Null /\ n[e] \in M
      BY <1>0, <2>2 DEF Loose, Typed
    <3>2. k2[n[e]] = k[n[e]]
      BY <1>0, <3>1
    <3> QED BY <1>0, <2>2, <3>1, <3>2 DEF Loose, LinksInChain
  <2>3. CASE x # e /\ x # f
    <3>1. k2[x] = k[x] /\ n2[x] = n[x] /\ n[x] # Null /\ n[x] \in M
      BY <2>3 DEF Loose, Typed
    <3>2. k2[n[x]] = k[n[x]]
      BY <1>0, <3>1
    <3> QED BY <3>1, <3>2 DEF Loose, LinksInChain
  <2> QED BY <2>1, <2>2, <2>3
<1>3. LinksDiffer(M, n2)
  BY <1>0 DEF Loose, LinksDiffer
<1>4. Loose(M, K, k2, n2, h)
  BY <1>1, <1>2, <1>3 DEF Loose
<1>5. Reached(M, k2, n2, h, f)
  <2>1. h[k2[f]] = e /\ n2[e] = f
    OBVIOUS
  <2>2. ASSUME NEW S \in SUBSET M, e \in S, LinkClosed(n2, S) PROVE f \in S
    BY <1>0, <2>1, <2>2 DEF LinkClosed
  <2> QED BY <2>1, <2>2 DEF Reached, LeadsTo
<1>6. ASSUME NEW x \in M, k[x] # Empty, Reached(M, k, n, h, x) PROVE Reached(M, k2, n2, h, x)
  <2>1. k2[x] = k[x] /\ x # f
    BY <1>6
  <2>2. h[k[x]] # f
    BY <1>6, EmptyLeadsNowhere DEF Reached
  <2>3. ASSUME NEW S \in SUBSET M, h[k[x]] \in S, LinkClosed(n2, S) PROVE x \in S
    <3> DEFINE T == S \ {f}
    <3>1. ASSUME NEW y \in T, n[y] # Null PROVE n[y] \in T
      <4>1. n[y] # f /\ y \in M /\ y # f /\ y \in S
        BY <1>0, <3>1
      <4>2. CASE y = e
        <5>1. f \in S
          BY <1>0, <2>3, <4>1, <4>2 DEF LinkClosed
        <5>2. n2[f] = n[e]
          BY <1>0
        <5> QED BY <2>3, <3>1, <4>1, <4>2, <5>1, <5>2 DEF LinkClosed
      <4>3. CASE y # e
        <5>1. n2[y] = n[y]
          BY <4>1, <4>3
        <5> QED BY <2>3, <3>1, <4>1, <5>1 DEF LinkClosed
      <4> QED BY <4>2, <4>3
    <3>2. T \in SUBSET M /\ h[k[x]] \in T /\ LinkClosed(n, T)
      BY <2>2, <2>3, <3>1 DEF LinkClosed
    <3>3. x \in T
      BY <1>6, <3>2 DEF Reached, LeadsTo
    <3> QED BY <3>3
  <2> QED BY <2>1, <2>3 DEF Reached, LeadsTo
<1> QED BY <1>4, <1>5, <1>6

\* An entry that is met after another one has another one before it.
LEMMA EvictedAfterOther ==
    ASSUME NEW M, NEW K, NEW k, NEW n, NEW h, Loose(M, K, k, n, h),
           NEW e \in M, NEW m \in M, m # e, NEW p \in M, n[p] = e, LeadsTo(M, n, m, p)
    PROVE  p # e
<1> SUFFICES ASSUME p = e PROVE FALSE
  OBVIOUS
<1>1. \A x \in M \ {e} : n[x] # Null => n[x] \in M \ {e}
  BY DEF Loose, Typed, LinksDiffer
<1>2. LinkClosed(n, M \ {e}) /\ m \in M \ {e} /\ M \ {e} \in SUBSET M
  BY <1>1 DEF LinkClosed
<1>3. p \in M \ {e}
  BY <1>2 DEF LeadsTo
<1> QED BY <1>3

\* The main position holds an entry of another chain, after p: it makes way.
LEMMA LooseEvict ==
    ASSUME NEW M, NEW K, NEW k, NEW n, NEW h, Setting(M, K, h), Loose(M, K, k, n, h),
           NEW j \in K, NEW e \in M, e = h[j], k[e] # Empty, h[k[e]] # e,
           NEW f \in M, k[f] = Empty,
           NEW p \in M, n[p] = e, LeadsTo(M, n, h[k[e]], p),
           NEW k2, NEW n2, Typed(M, K, k2, n2),
           \A x \in M : k2[x] = IF x = e THEN j ELSE IF x = f THEN k[e] ELSE k[x],
           \A x \in M : n2[x] = IF x = e THEN Null ELSE IF x = p THEN f
                                ELSE IF x = f THEN n[e] ELSE n[x]
    PROVE  /\ Loose(M, K, k2, n2, h) /\ p # e
           /\ Reached(M, k2, n2, h, e)
           /\ \A x \in M : k[x] # Empty /\ Reached(M, k, n, h, x) =>
                              Reached(M, k2, n2, h, IF x = e THEN f ELSE x)
<1> DEFINE head == h[k[e]]
<1>0. /\ e # f /\ n[f] = Null /\ (\A x \in M : n[x] # f) /\ f # Null /\ p # f
      /\ \A x \in M : n[x] = e => x = p
      /\ head \in M /\ e # Null /\ k[e] \in K
  BY DEF Loose, EmptyUnlinked, LinksInChain, LinksDiffer, Setting, Null, Typed
<1>1. p # e
  BY <1>0, EvictedAfterOther
<1>2. n[e] # e /\ head # f
  <2>1. n[e] # e
    BY <1>0, <1>1
  <2>2. head # f
    BY <1>0, EmptyLeadsNowhere
  <2> QED BY <2>1, <2>2
<1>3. EmptyUnlinked(M, k2, n2)
  BY <1>0 DEF Loose, EmptyUnlinked, Setting
<1>4. LinksInChain(M, k2, n2, h)
  <2> SUFFICES ASSUME NEW x \in M, n2[x] # Null
               PROVE  k2[n2[x]] # Empty /\ h[k2[n2[x]]] = h[k2[x]] /\ n2[x] # h[k2[x]]
    BY DEF LinksInChain
  <2>1. CASE x = p
    <3>1. n2[x] = f /\ k2[f] = k[e] /\ k2[p] = k[p] /\ h[k[p]] = head
      BY <1>0, <1>1, <2>1 DEF Loose, LinksInChain
    <3> QED BY <1>2, <2>1, <3>1
  <2>2. CASE x = f
    <3>1. n2[x] = n[e] /\ k2[f] = k[e] /\ n[e] # Null /\ n[e] \in M
      BY <1>0, <2>2 DEF Loose, Typed
    <3>2. k2[n[e]] = k[n[e]]
      BY <1>0, <1>2, <3>1
    <3> QED BY <2>2, <3>1, <3>2 DEF Loose, LinksInChain
  <2>3. CASE x # p /\ x # f
    <3>1. x # e /\ n2[x] = n[x] /\ k2[x] = k[x] /\ n[x] # Null /\ n[x] \in M
      BY <2>3 DEF Loose, Typed
    <3>2. k2[n[x]] = k[n[x]]
      BY <1>0, <2>3, <3>1
    <3> QED BY <3>1, <3>2 DEF Loose, LinksInChain
  <2> QED BY <2>1, <2>2, <2>3
<1>5. LinksDiffer(M, n2)
  BY <1>0 DEF Loose, LinksDiffer
<1>6. Loose(M, K, k2, n2, h)
  BY <1>3, <1>4, <1>5 DEF Loose
<1>7. Reached(M, k2, n2, h, e)
  <2>1. h[k2[e]] = e
    OBVIOUS
  <2> QED BY <2>1 DEF Reached, LeadsTo
<1>8. ASSUME NEW x \in M, k[x] # Empty, Reached(M, k, n, h, x)
      PROVE  Reached(M, k2, n2, h, IF x = e THEN f ELSE x)
  <2> DEFINE z == IF x = e THEN f ELSE x
             m == h[k[x]]
  <2>1. z \in M /\ k2[z] = k[x] /\ x # f
    BY <1>0, <1>8
  <2>2. m # f /\ m # e /\ m \in M
    <3>1. m # f
      BY <1>8, EmptyLeadsNowhere DEF Reached
    <3>2. m # e
      BY <1>8, LeadsToHash DEF Reached
    <3> QED BY <1>8, <3>1, <3>2 DEF Loose, Typed, Setting
  <2>3. ASSUME NEW S \in SUBSET M, m \in S, LinkClosed(n2, S) PROVE z \in S
    <3> DEFINE T == {y \in M : IF y = e THEN f \in S ELSE y \in S /\ y # f}
    <3>1. ASSUME NEW y \in T, n[y] # Null PROVE n[y] \in T
      <4>1. n[y] # f /\ y \in M /\ y # f /\ n[y] \in M
        BY <1>0, <3>1 DEF Loose, Typed
      <4>2. CASE y = e
        <5>1. f \in S /\ n2[f] = n[e]
          BY <1>0, <3>1, <4>2
        <5>2. n[e] \in S
          BY <2>3, <3>1, <4>2, <5>1 DEF LinkClosed
        <5> QED BY <1>2, <4>1, <4>2, <5>2
      <4>3. CASE y = p
        <5>1. n2[p] = f /\ p \in S
          BY <1>1, <3>1, <4>3
        <5>2. f \in S
          BY <1>0, <2>3, <5>1 DEF LinkClosed
        <5> QED BY <4>3, <5>2
      <4>4. CASE y # e /\ y # p
        <5>1. n2[y] = n[y] /\ y \in S /\ n[y] # e
          BY <1>0, <3>1, <4>1, <4>4
        <5>2. n[y] \in S
          BY <2>3, <3>1, <5>1 DEF LinkClosed
        <5> QED BY <4>1, <5>1, <5>2
      <4> QED BY <4>2, <4>3, <4>4
    <3>2. T \in SUBSET M /\ m \in T /\ LinkClosed(n, T)
      <4>1. LinkClosed(n, T)
        BY <3>1 DEF LinkClosed
      <4> QED BY <2>2, <2>3, <4>1
    <3>3. x \in T
      <4> HIDE DEF T
      <4> QED BY <1>8, <3>2 DEF Reached, LeadsTo
    <3> QED BY <3>3
  <2>4. LeadsTo(M, n2, m, z)
    <3> HIDE DEF z, m
    <3> QED BY <2>3 DEF LeadsTo
  <2> QED BY <2>1, <2>4 DEF Reached
<1> QED BY <1>1, <1>6, <1>7, <1>8

\* An entry is emptied, and its predecessor linked to its successor.
LEMMA LooseRemove ==
    ASSUME NEW M, NEW K, NEW k, NEW n, NEW h, Setting(M, K, h), Loose(M, K, k, n, h),
           NEW i \in M,
           NEW k2, NEW n2, Typed(M, K, k2, n2),
           \A x \in M : k2[x] = IF x = i THEN Empty ELSE k[x],
           \A x \in M : n2[x] = IF x = i THEN Null ELSE IF n[x] = i THEN n[i] ELSE n[x]
    PROVE  Loose(M, K, k2, n2, h)
<1>0. /\ i # Null
      /\ \A x, y \in M : n[x] # Null /\ n[x] = n[y] => x = y
      /\ \A x \in M : k[x] = Empty => n[x] = Null
  BY DEF Loose, LinksDiffer, EmptyUnlinked, Setting, Null
<1>1. EmptyUnlinked(M, k2, n2)
  BY <1>0 DEF EmptyUnlinked
<1>2. LinksInChain(M, k2, n2, h)
  <2> SUFFICES ASSUME NEW x \in M, n2[x] # Null
               PROVE  k2[n2[x]] # Empty /\ h[k2[n2[x]]] = h[k2[x]] /\ n2[x] # h[k2[x]]
    BY DEF LinksInChain
  <2>1. x # i /\ k2[x] = k[x]
    OBVIOUS
  <2>2. CASE n[x] = i
    <3>1. n2[x] = n[i] /\ n[i] # Null /\ n[i] \in M /\ n[i] # i
      BY <1>0, <2>1, <2>2 DEF Loose, Typed
    <3>2. h[k[i]] = h[k[x]] /\ k[n[i]] # Empty /\ h[k[n[i]]] = h[k[i]] /\ n[i] # h[k[i]]
      BY <1>0, <2>2, <3>1 DEF Loose, LinksInChain
    <3>3. k2[n[i]] = k[n[i]]
      BY <3>1
    <3> QED BY <2>1, <3>1, <3>2, <3>3
  <2>3. CASE n[x] # i
    <3>1. n2[x] = n[x] /\ n[x] # Null /\ n[x] \in M
      BY <2>1, <2>3 DEF Loose, Typed
    <3>2. k2[n[x]] = k[n[x]]
      BY <2>3, <3>1
    <3> QED BY <2>1, <3>1, <3>2 DEF Loose, LinksInChain
  <2> QED BY <2>2, <2>3
<1>3. LinksDiffer(M, n2)
  <2> SUFFICES ASSUME NEW x \in M, NEW y \in M, n2[x] # Null, n2[x] = n2[y] PROVE x = y
    BY DEF LinksDiffer
  <2> QED BY <1>0
<1> QED BY <1>1, <1>2, <1>3 DEF Loose

-----------------------------------------------------------------------------
(* The same of table values.                                               *)

LooseTable(t, hash, K, V) ==
    /\ TableTyped(t, K, V)
    /\ Loose(Slot(t), K, KeyAt(t), LinkAt(t), Mains(t, K, hash))
    /\ t.count = Cardinality(Used(t))

\* The entry x can be found from the main position of its key.
FoundAt(t, hash, x) == x \in Chain(t, MainPos(t, t.entries[x].key, hash))

LEMMA ChainLeads ==
    ASSUME NEW t, NEW K, NEW V, TableTyped(t, K, V), NEW e \in Slot(t), NEW x
    PROVE  x \in Chain(t, e) <=> LeadsTo(Slot(t), LinkAt(t), e, x)
<1>0. t.mask \in Nat /\ NextClosed(t.entries, Slot(t))
  BY TableClosed DEF TableTyped
<1>1. \A S \in SUBSET Slot(t) : NextClosed(t.entries, S) <=> LinkClosed(LinkAt(t), S)
  BY DEF NextClosed, LinkClosed, LinkAt
<1>2. /\ Chain(t, e) \in SUBSET Slot(t) /\ e \in Chain(t, e)
      /\ NextClosed(t.entries, Chain(t, e))
      /\ \A S : e \in S /\ NextClosed(t.entries, S) => Chain(t, e) \subseteq S
  BY <1>0, ChainIs
<1>3. x \in Chain(t, e) => LeadsTo(Slot(t), LinkAt(t), e, x)
  BY <1>1, <1>2 DEF LeadsTo
<1>4. LeadsTo(Slot(t), LinkAt(t), e, x) => x \in Chain(t, e)
  BY <1>1, <1>2 DEF LeadsTo
<1> QED BY <1>3, <1>4

\* FoundAt and Reached are the same.
LEMMA FoundReached ==
    ASSUME NEW t, NEW hash, NEW K, NEW V, Hashed(hash, K), TableTyped(t, K, V), NEW x \in Used(t)
    PROVE  FoundAt(t, hash, x) <=> Reached(Slot(t), KeyAt(t), LinkAt(t), Mains(t, K, hash), x)
<1>1. x \in Slot(t) /\ KeyAt(t)[x] = t.entries[x].key /\ t.entries[x].key \in K
  BY TableFields DEF Used, IsEmpty
<1>2. /\ Mains(t, K, hash)[KeyAt(t)[x]] = MainPos(t, t.entries[x].key, hash)
      /\ MainPos(t, t.entries[x].key, hash) \in Slot(t)
  BY <1>1, MainPosTyped DEF Mains, Hashed, TableTyped
<1> QED BY <1>2, ChainLeads DEF FoundAt, Reached

\* An entry that can be found is in its main position or has a predecessor.
LEMMA FoundHasBefore ==
    ASSUME NEW t, NEW hash, NEW K, NEW V, Hashed(hash, K), TableTyped(t, K, V),
           NEW x \in Used(t), FoundAt(t, hash, x)
    PROVE  LET m == MainPos(t, t.entries[x].key, hash) IN m = x \/ Before(t, m, x) # {}
<1> DEFINE m == MainPos(t, t.entries[x].key, hash)
<1>1. x \in Slot(t) /\ t.entries[x].key \in K
  BY TableFields DEF Used, IsEmpty
<1>2. m \in Slot(t)
  BY <1>1, MainPosTyped DEF Hashed, TableTyped
<1>3. LinkClosed(LinkAt(t), Slot(t))
  <2>1. \A y \in Slot(t) : LinkAt(t)[y] \in Slot(t) \cup {Null}
    BY TableFields
  <2> QED BY <2>1 DEF LinkClosed
<1>4. LeadsTo(Slot(t), LinkAt(t), m, x)
  BY <1>2, ChainLeads DEF FoundAt
<1> SUFFICES ASSUME m # x PROVE Before(t, m, x) # {}
  OBVIOUS
<1> HIDE DEF m
<1>5. PICK p \in Slot(t) : LeadsTo(Slot(t), LinkAt(t), m, p) /\ LinkAt(t)[p] = x
  BY <1>2, <1>3, <1>4, LeadsThrough
<1>6. p \in Chain(t, m) /\ t.entries[p].next = x
  BY <1>2, <1>5, ChainLeads DEF LinkAt
<1> QED BY <1>6 DEF Before

-----------------------------------------------------------------------------
(* insert() and removeiter() on such tables.                               *)

\* t2 holds what t holds, and v under the key j in slot a.  What was in a is now
\* in b, which was empty; a and b may be the same.
Placed(t, t2, j, v, a, b) ==
    /\ a \in Slot(t) /\ b \in Slot(t) /\ IsEmpty(t, b) /\ (a # b => ~ IsEmpty(t, a))
    /\ t2.mask = t.mask /\ t2.count = t.count + 1
    /\ \A x \in Slot(t) :
          /\ t2.entries[x].key = IF x = a THEN j ELSE IF x = b THEN t.entries[a].key
                                 ELSE t.entries[x].key
          /\ t2.entries[x].val = IF x = a THEN v ELSE IF x = b THEN t.entries[a].val
                                 ELSE t.entries[x].val

\* insert() adds an entry that can be found, and what could be found still can
\* be, provided that an entry it evicts has a predecessor.
LEMMA InsertLoose ==
    ASSUME NEW t, NEW hash, NEW K, NEW V, Hashed(hash, K), LooseTable(t, hash, K, V),
           NEW j \in K, NEW v \in V, t.count < upb_table_size(t),
           LET e    == MainPos(t, j, hash)
               head == MainPos(t, t.entries[e].key, hash)
           IN  IsEmpty(t, e) \/ head = e \/ Before(t, head, e) # {}
    PROVE  LET t2 == insert(t, j, v, hash)
           IN  /\ LooseTable(t2, hash, K, V)
               /\ \E a, b \in Slot(t) :
                     /\ Placed(t, t2, j, v, a, b) /\ FoundAt(t2, hash, a)
                     /\ \A x \in Used(t) : FoundAt(t, hash, x) =>
                                              FoundAt(t2, hash, IF x = a THEN b ELSE x)
<1> DEFINE M == Slot(t)
           h == Mains(t, K, hash)
           e == MainPos(t, j, hash)
           main == t.entries[e]
           f == emptyent(t, e)
           head == MainPos(t, main.key, hash)
           p == CHOOSE q \in Before(t, head, e) : TRUE
           ours == [key |-> j, val |-> v, next |-> Null]
           t2 == insert(t, j, v, hash)
           E == t.entries
           New == IF main.key = Empty THEN [E EXCEPT ![e] = ours]
                  ELSE IF head = e
                  THEN [E EXCEPT ![f] = [ours EXCEPT !.next = main.next], ![e].next = f]
                  ELSE [[E EXCEPT ![f] = main] EXCEPT ![p].next = f, ![e] = ours]
<1>1. /\ t = [entries |-> t.entries, mask |-> t.mask, count |-> t.count]
      /\ t.mask \in Nat /\ TableTyped(t, K, V) /\ j # Empty /\ Empty \notin K
      /\ E \in [M -> Entry(t, K, V)] /\ Null \notin M
      /\ Loose(M, K, KeyAt(t), LinkAt(t), h) /\ t.count = Cardinality(Used(t))
  BY Slots DEF LooseTable, TableTyped, Hashed
<1>2. Setting(M, K, h) /\ \A i \in K : h[i] = MainPos(t, i, hash)
  BY <1>1, TableSetting DEF Mains
<1>3. e \in M /\ e = h[j]
  BY <1>1, <1>2, MainPosTyped DEF Hashed
<1>4. f \in M /\ E[f].key = Empty
  <2>1. \E x \in Slot(t) : IsEmpty(t, x)
    <3> SUFFICES ASSUME \A x \in Slot(t) : ~ IsEmpty(t, x) PROVE FALSE
      OBVIOUS
    <3>1. Used(t) = Slot(t)
      BY DEF Used
    <3>2. t.count = upb_table_size(t) /\ upb_table_size(t) \in Nat
      BY <1>1, <3>1, Slots
    <3> QED BY <3>2
  <2> QED BY <1>1, <2>1, EmptyEnt DEF IsEmpty
<1>5. \A x \in M : /\ E[x].key \in K \cup {Empty} /\ E[x].val \in V \cup {0}
                   /\ E[x].next \in M \cup {Null}
                   /\ KeyAt(t)[x] = E[x].key /\ LinkAt(t)[x] = E[x].next
                   /\ E[x].key # Empty => E[x].val \in V
  <2>1. \A x \in M : x \in Used(t) => E[x].val \in V
    BY <1>1 DEF TableTyped
  <2> QED BY <1>1, <2>1, TableFields DEF Used, IsEmpty
<1>6. t2 = [entries |-> New, mask |-> t.mask, count |-> t.count + 1]
  <2>1. t2 = [t EXCEPT !.count = t.count + 1, !.entries = New]
    BY <1>1, Zenon DEF insert
  <2> HIDE DEF New, t2
  <2> QED BY <1>1, <2>1
\* What has to be shown of the new entries F.
<1> DEFINE Good(F, a, b) ==
              /\ F \in [M -> Entry(t, K, V)] /\ a \in M /\ b \in M
              /\ t2 = [entries |-> F, mask |-> t.mask, count |-> t.count + 1]
              /\ Loose(M, K, KeyAt(t2), LinkAt(t2), h)
              /\ E[b].key = Empty /\ (a # b => E[a].key # Empty)
              /\ \A x \in M :
                    /\ F[x].key = IF x = a THEN j ELSE IF x = b THEN E[a].key ELSE E[x].key
                    /\ F[x].val = IF x = a THEN v ELSE IF x = b THEN E[a].val ELSE E[x].val
              /\ Reached(M, KeyAt(t2), LinkAt(t2), h, a)
              /\ \A x \in M : KeyAt(t)[x] # Empty /\ Reached(M, KeyAt(t), LinkAt(t), h, x) =>
                    Reached(M, KeyAt(t2), LinkAt(t2), h, IF x = a THEN b ELSE x)
           Goal == /\ LooseTable(t2, hash, K, V)
                   /\ \E a, b \in M :
                         /\ Placed(t, t2, j, v, a, b) /\ FoundAt(t2, hash, a)
                         /\ \A x \in Used(t) : FoundAt(t, hash, x) =>
                                                  FoundAt(t2, hash, IF x = a THEN b ELSE x)
<1>10. ASSUME NEW F, NEW a, NEW b, Good(F, a, b) PROVE Goal
  <2>0. /\ F \in [M -> Entry(t, K, V)] /\ a \in M /\ b \in M
        /\ t2 = [entries |-> F, mask |-> t.mask, count |-> t.count + 1]
        /\ E[b].key = Empty /\ (a # b => E[a].key # Empty)
        /\ \A x \in M :
              /\ F[x].key = IF x = a THEN j ELSE IF x = b THEN E[a].key ELSE E[x].key
              /\ F[x].val = IF x = a THEN v ELSE IF x = b THEN E[a].val ELSE E[x].val
    BY <1>10
  <2> HIDE DEF t2
  <2>1. \A x \in M : F[x].key # Empty => F[x].val \in V
    BY <1>5, <2>0
  <2>2. /\ t2.entries = F /\ t2.mask = t.mask /\ t2.count = t.count + 1 /\ Slot(t2) = M
        /\ Used(t2) = {x \in M : F[x].key # Empty} /\ Mains(t2, K, hash) = h
        /\ TableTyped(t2, K, V)
    BY <1>1, <2>0, <2>1, TableBuilt
  <2>3. Used(t2) = Used(t) \cup {b} /\ b \notin Used(t)
    <3>1. \A x \in M : F[x].key # Empty <=> E[x].key # Empty \/ x = b
      BY <1>1, <2>0
    <3> QED BY <2>0, <2>2, <3>1 DEF Used, IsEmpty
  <2>4. IsFiniteSet(Used(t))
    BY <1>1, Slots, FS_Subset DEF Used
  <2>5. t2.count = Cardinality(Used(t2))
    BY <1>1, <2>2, <2>3, <2>4, FS_AddElement
  <2>6. LooseTable(t2, hash, K, V)
    BY <1>10, <2>2, <2>5 DEF LooseTable
  <2>7. Placed(t, t2, j, v, a, b)
    BY <2>0, <2>2 DEF Placed, IsEmpty
  <2>8. FoundAt(t2, hash, a)
    <3>1. a \in Used(t2)
      BY <1>1, <2>0, <2>2
    <3>2. Reached(Slot(t2), KeyAt(t2), LinkAt(t2), Mains(t2, K, hash), a)
      BY <1>10, <2>2
    <3> QED BY <2>2, <3>1, <3>2, FoundReached
  <2>9. ASSUME NEW x \in Used(t), FoundAt(t, hash, x)
        PROVE  FoundAt(t2, hash, IF x = a THEN b ELSE x)
    <3> DEFINE z == IF x = a THEN b ELSE x
    <3>1. x \in M /\ KeyAt(t)[x] # Empty
      BY <1>5 DEF Used, IsEmpty
    <3>2. Reached(M, KeyAt(t), LinkAt(t), h, x)
      BY <1>1, <2>9, FoundReached
    <3>3. Reached(Slot(t2), KeyAt(t2), LinkAt(t2), Mains(t2, K, hash), z)
      BY <1>10, <2>2, <3>1, <3>2
    <3>4. z \in Used(t2)
      BY <2>3
    <3> HIDE DEF z
    <3>5. FoundAt(t2, hash, z)
      BY <2>2, <3>3, <3>4, FoundReached
    <3> QED BY <3>5 DEF z
  <2> QED BY <2>0, <2>6, <2>7, <2>8, <2>9
<1> SUFFICES Goal
  OBVIOUS
<1> HIDE DEF Good, Goal, New, t2
<1>7. CASE main.key = Empty
  <2> DEFINE F == [E EXCEPT ![e] = ours]
  <2>1. t2 = [entries |-> F, mask |-> t.mask, count |-> t.count + 1]
    BY <1>6, <1>7 DEF New
  <2>2. F \in [M -> Entry(t, K, V)] /\ \A x \in M : F[x] = IF x = e THEN ours ELSE E[x]
    BY <1>1, <1>3 DEF Entry
  <2> HIDE DEF F
  <2>3. /\ Typed(M, K, KeyAt(t2), LinkAt(t2))
        /\ \A x \in M : KeyAt(t2)[x] = F[x].key /\ LinkAt(t2)[x] = F[x].next
    BY <1>1, <2>1, <2>2, TableBuilt
  <2>4. KeyAt(t)[e] = Empty /\ LinkAt(t)[e] = Null
    BY <1>1, <1>3, <1>5, <1>7 DEF Loose, EmptyUnlinked
  <2>5. \A x \in M : KeyAt(t2)[x] = IF x = e THEN j ELSE KeyAt(t)[x]
    BY <1>3, <1>5, <2>2, <2>3
  <2>6. LinkAt(t2) = LinkAt(t)
    <3>1. \A x \in M : LinkAt(t2)[x] = LinkAt(t)[x]
      BY <1>3, <1>5, <2>2, <2>3, <2>4
    <3>2. Typed(M, K, KeyAt(t), LinkAt(t))
      BY <1>1 DEF Loose
    <3> HIDE DEF M
    <3> QED BY <2>3, <3>1, <3>2 DEF Typed
  <2>7. /\ Loose(M, K, KeyAt(t2), LinkAt(t2), h)
        /\ Reached(M, KeyAt(t2), LinkAt(t2), h, e)
        /\ \A x \in M : KeyAt(t)[x] # Empty /\ Reached(M, KeyAt(t), LinkAt(t), h, x) =>
              Reached(M, KeyAt(t2), LinkAt(t2), h, x)
    <3> HIDE DEF M, h, e
    <3> QED BY <1>1, <1>2, <1>3, <2>3, <2>4, <2>5, <2>6, LooseFresh
  <2>8. \A x \in M : /\ F[x].key = IF x = e THEN j ELSE E[x].key
                     /\ F[x].val = IF x = e THEN v ELSE E[x].val
    BY <2>2
  <2>9. \A x \in M : KeyAt(t)[x] # Empty /\ Reached(M, KeyAt(t), LinkAt(t), h, x) =>
           Reached(M, KeyAt(t2), LinkAt(t2), h, IF x = e THEN e ELSE x)
    BY <2>7
  <2>10. Good(F, e, e)
    <3>1. E[e].key = Empty
      BY <1>7
    <3> HIDE DEF M, h, e, E
    <3> QED BY <1>3, <3>1, <2>1, <2>2, <2>7, <2>8, <2>9 DEF Good
  <2> QED BY <1>10, <2>10
<1>8. CASE main.key # Empty /\ head = e
  <2> DEFINE F == [E EXCEPT ![f] = [ours EXCEPT !.next = main.next], ![e].next = f]
  <2>1. t2 = [entries |-> F, mask |-> t.mask, count |-> t.count + 1]
    BY <1>6, <1>8 DEF New
  <2>2. e # f
    BY <1>4, <1>8
  <2>3. /\ F \in [M -> Entry(t, K, V)]
        /\ \A x \in M : F[x] = IF x = f THEN [key |-> j, val |-> v, next |-> E[e].next]
                               ELSE IF x = e
                               THEN [key |-> E[e].key, val |-> E[e].val, next |-> f]
                               ELSE E[x]
    BY <1>1, <1>3, <1>4, <1>5, <2>2 DEF Entry
  <2> HIDE DEF F
  <2>4. /\ Typed(M, K, KeyAt(t2), LinkAt(t2))
        /\ \A x \in M : KeyAt(t2)[x] = F[x].key /\ LinkAt(t2)[x] = F[x].next
    BY <1>1, <2>1, <2>3, TableBuilt
  <2>5. /\ KeyAt(t)[e] # Empty /\ KeyAt(t)[f] = Empty
        /\ h[KeyAt(t)[e]] = e
    BY <1>2, <1>3, <1>4, <1>5, <1>8
  <2>6. \A x \in M : KeyAt(t2)[x] = IF x = f THEN j ELSE KeyAt(t)[x]
    BY <1>3, <1>5, <2>3, <2>4
  <2>7. \A x \in M : LinkAt(t2)[x] = IF x = e THEN f ELSE IF x = f THEN LinkAt(t)[e]
                                      ELSE LinkAt(t)[x]
    BY <1>3, <1>5, <2>2, <2>3, <2>4
  <2>8. /\ Loose(M, K, KeyAt(t2), LinkAt(t2), h)
        /\ Reached(M, KeyAt(t2), LinkAt(t2), h, f)
        /\ \A x \in M : KeyAt(t)[x] # Empty /\ Reached(M, KeyAt(t), LinkAt(t), h, x) =>
              Reached(M, KeyAt(t2), LinkAt(t2), h, x)
    <3> HIDE DEF M, h, e, f
    <3> QED BY <1>1, <1>2, <1>3, <1>4, <2>4, <2>5, <2>6, <2>7, LooseAppend
  <2>9. \A x \in M : /\ F[x].key = IF x = f THEN j ELSE E[x].key
                     /\ F[x].val = IF x = f THEN v ELSE E[x].val
    BY <2>3
  <2>10. \A x \in M : KeyAt(t)[x] # Empty /\ Reached(M, KeyAt(t), LinkAt(t), h, x) =>
            Reached(M, KeyAt(t2), LinkAt(t2), h, IF x = f THEN f ELSE x)
    BY <2>8
  <2>11. Good(F, f, f)
    <3> HIDE DEF M, h, e, E, f
    <3> QED BY <1>4, <2>1, <2>3, <2>8, <2>9, <2>10 DEF Good
  <2> QED BY <1>10, <2>11
<1>9. CASE main.key # Empty /\ head # e
  <2> DEFINE F == [[E EXCEPT ![f] = main] EXCEPT ![p].next = f, ![e] = ours]
  <2>1. t2 = [entries |-> F, mask |-> t.mask, count |-> t.count + 1]
    BY <1>6, <1>9 DEF New
  <2>2. KeyAt(t)[e] # Empty /\ KeyAt(t)[f] = Empty /\ h[KeyAt(t)[e]] = head /\ head \in M
    <3>1. E[e].key \in K
      BY <1>3, <1>5, <1>9
    <3>2. head \in M
      BY <1>1, <3>1, MainPosTyped DEF Hashed
    <3> QED BY <1>2, <1>3, <1>4, <1>5, <1>9, <3>1, <3>2
  <2>3. p \in M /\ E[p].next = e /\ LeadsTo(M, LinkAt(t), head, p)
    <3>1. Before(t, head, e) # {}
      BY <1>9 DEF IsEmpty
    <3>2. p \in Before(t, head, e)
      <4> HIDE DEF head, e
      <4> QED BY <3>1
    <3> HIDE DEF head, p
    <3>3. p \in Chain(t, head) /\ E[p].next = e
      BY <3>2 DEF Before
    <3>4. Chain(t, head) \subseteq M
      BY <1>1, <2>2, ChainIs, TableClosed
    <3> QED BY <1>1, <2>2, <3>3, <3>4, ChainLeads
  <2>4. e # f /\ p # f /\ p # e
    <3>1. e # f
      BY <1>4, <1>9
    <3>2. KeyAt(t)[p] # Empty
      BY <1>1, <1>3, <1>5, <2>3 DEF Loose, EmptyUnlinked
    <3>3. p # e
      <4> HIDE DEF p, e, head, M, h
      <4>1. LinkAt(t)[p] = e
        BY <1>5, <2>3
      <4> QED BY <1>1, <1>3, <1>9, <2>2, <2>3, <4>1, EvictedAfterOther
    <3> QED BY <2>2, <3>1, <3>2, <3>3
  <2> HIDE DEF p
  <2>5. /\ F \in [M -> Entry(t, K, V)]
        /\ \A x \in M : F[x] = IF x = e THEN ours
                               ELSE IF x = p
                               THEN [key |-> E[p].key, val |-> E[p].val, next |-> f]
                               ELSE IF x = f THEN E[e] ELSE E[x]
    <3> DEFINE G == [E EXCEPT ![f] = main]
               q == [key |-> E[p].key, val |-> E[p].val, next |-> f]
    <3>1. G \in [M -> Entry(t, K, V)] /\ \A x \in M : G[x] = IF x = f THEN E[e] ELSE E[x]
      BY <1>1, <1>3, <1>4
    <3>2. G[p] = E[p] /\ E[p] \in Entry(t, K, V) /\ ours \in Entry(t, K, V)
      BY <1>1, <2>3, <2>4, <3>1 DEF Entry
    <3>3. [G[p] EXCEPT !.next = f] = q /\ q \in Entry(t, K, V)
      BY <1>4, <3>2 DEF Entry
    <3>4. F = [[G EXCEPT ![p] = [G[p] EXCEPT !.next = f]] EXCEPT ![e] = ours]
      OBVIOUS
    <3>5. F = [[G EXCEPT ![p] = q] EXCEPT ![e] = ours]
      BY <3>3, <3>4, Zenon
    <3> HIDE DEF G, F, M, q, ours
    <3>6. F \in [M -> Entry(t, K, V)] /\ \A x \in M : F[x] = IF x = e THEN ours
                                                 ELSE IF x = p THEN q ELSE G[x]
      BY <1>3, <2>3, <2>4, <3>1, <3>2, <3>3, <3>5
    <3> QED BY <2>4, <3>1, <3>6 DEF q
  <2> HIDE DEF F
  <2>6. /\ Typed(M, K, KeyAt(t2), LinkAt(t2))
        /\ \A x \in M : KeyAt(t2)[x] = F[x].key /\ LinkAt(t2)[x] = F[x].next
    BY <1>1, <2>1, <2>5, TableBuilt
  <2>7. \A x \in M : KeyAt(t2)[x] = IF x = e THEN j ELSE IF x = f THEN KeyAt(t)[e]
                                     ELSE KeyAt(t)[x]
    BY <1>3, <1>5, <2>3, <2>4, <2>5, <2>6
  <2>8. \A x \in M : LinkAt(t2)[x] = IF x = e THEN Null ELSE IF x = p THEN f
                                      ELSE IF x = f THEN LinkAt(t)[e] ELSE LinkAt(t)[x]
    BY <1>3, <1>5, <2>3, <2>4, <2>5, <2>6
  <2>9. LinkAt(t)[p] = e /\ h[KeyAt(t)[e]] # e
    BY <1>5, <1>9, <2>2, <2>3
  <2>10. /\ Loose(M, K, KeyAt(t2), LinkAt(t2), h)
         /\ Reached(M, KeyAt(t2), LinkAt(t2), h, e)
         /\ \A x \in M : KeyAt(t)[x] # Empty /\ Reached(M, KeyAt(t), LinkAt(t), h, x) =>
               Reached(M, KeyAt(t2), LinkAt(t2), h, IF x = e THEN f ELSE x)
    <3> HIDE DEF M, h, e, f, head
    <3> QED BY <1>1, <1>2, <1>3, <1>4, <2>2, <2>3, <2>6, <2>7, <2>8, <2>9, LooseEvict
  <2>11. \A x \in M :
            /\ F[x].key = IF x = e THEN j ELSE IF x = f THEN E[e].key ELSE E[x].key
            /\ F[x].val = IF x = e THEN v ELSE IF x = f THEN E[e].val ELSE E[x].val
    BY <2>4, <2>5
  <2>12. Good(F, e, f)
    <3>1. E[e].key # Empty
      BY <1>9
    <3> HIDE DEF M, h, e, E, f
    <3> QED BY <1>3, <1>4, <3>1, <2>1, <2>4, <2>5, <2>10, <2>11 DEF Good
  <2> QED BY <1>10, <2>12
<1> QED BY <1>7, <1>8, <1>9

\* t2 is t without the entry in slot i.
Removed(t, t2, i) ==
    /\ t2.mask = t.mask /\ t2.count = t.count - 1
    /\ Used(t2) = Used(t) \ {i}
    /\ \A x \in Used(t2) : /\ t2.entries[x].key = t.entries[x].key
                           /\ t2.entries[x].val = t.entries[x].val

\* removeiter() empties one entry and touches no other entry's key or value.
LEMMA RemoveLoose ==
    ASSUME NEW t, NEW hash, NEW K, NEW V, Hashed(hash, K), LooseTable(t, hash, K, V),
           NEW i \in Used(t)
    PROVE  LooseTable(removeiter(t, i), hash, K, V) /\ Removed(t, removeiter(t, i), i)
<1> DEFINE M == Slot(t)
           h == Mains(t, K, hash)
           E == t.entries
           prevs == {x \in 0..t.mask : E[x].next = i}
           p == Min(prevs)
           t2 == removeiter(t, i)
           New == IF prevs = {} THEN [E EXCEPT ![i] = Blank]
                  ELSE [E EXCEPT ![p].next = E[i].next, ![i] = Blank]
<1>1. /\ t = [entries |-> t.entries, mask |-> t.mask, count |-> t.count]
      /\ t.mask \in Nat /\ TableTyped(t, K, V) /\ i \in M /\ i # Null
      /\ E \in [M -> Entry(t, K, V)] /\ Null \notin M
      /\ Loose(M, K, KeyAt(t), LinkAt(t), h) /\ t.count = Cardinality(Used(t))
  BY Slots DEF LooseTable, TableTyped, Used
<1>2. Setting(M, K, h)
  BY <1>1, TableSetting
<1>3. \A x \in M : /\ E[x].next \in M \cup {Null}
                   /\ KeyAt(t)[x] = E[x].key /\ LinkAt(t)[x] = E[x].next
                   /\ E[x] = [key |-> E[x].key, val |-> E[x].val, next |-> E[x].next]
  BY <1>1, TableFields
<1>4. t2 = [entries |-> New, mask |-> t.mask, count |-> t.count - 1]
  <2>1. t2 = [t EXCEPT !.count = t.count - 1, !.entries = New]
    BY <1>1, Zenon DEF removeiter
  <2> HIDE DEF New, t2
  <2> QED BY <1>1, <2>1
<1> HIDE DEF t2
<1>5. \A x \in M : E[x].next = i <=> (prevs # {} /\ x = p)
  <2>1. \A x \in M : E[x].next = i <=> x \in prevs
    BY DEF Slot
  <2>2. ASSUME NEW x \in prevs, NEW y \in prevs PROVE x = y
    <3>1. x \in M /\ y \in M /\ E[x].next = i /\ E[y].next = i
      BY DEF Slot
    <3>2. LinkAt(t)[x] = i /\ LinkAt(t)[y] = i
      BY <1>3, <3>1
    <3> HIDE DEF M
    <3> QED BY <1>1, <3>1, <3>2 DEF Loose, LinksDiffer
  <2>3. prevs # {} => p \in prevs
    <3>1. prevs \subseteq Nat
      BY <1>1
    <3> HIDE DEF prevs
    <3> QED BY <3>1, MinIsLeast
  <2> HIDE DEF prevs, p
  <2> QED BY <2>1, <2>2, <2>3
<1>6. /\ New \in [M -> Entry(t, K, V)]
      /\ \A x \in M : New[x] = IF x = i THEN Blank
                               ELSE IF E[x].next = i
                               THEN [key |-> E[x].key, val |-> E[x].val, next |-> E[i].next]
                               ELSE E[x]
  <2>1. Blank \in Entry(t, K, V)
    BY DEF Blank, Entry
  <2>2. CASE prevs = {}
    <3>1. New = [E EXCEPT ![i] = Blank]
      BY <2>2
    <3>2. \A x \in M : E[x].next # i
      BY <1>5, <2>2
    <3> HIDE DEF New, prevs, p
    <3> QED BY <1>1, <2>1, <3>1, <3>2
  <2>3. CASE prevs # {}
    <3> DEFINE q == [key |-> E[p].key, val |-> E[p].val, next |-> E[i].next]
               G == [E EXCEPT ![p] = q]
    <3>1. p \in M
      <4>1. PICK y : y \in prevs
        BY <2>3
      <4>2. y \in M /\ E[y].next = i
        BY <4>1 DEF Slot
      <4> HIDE DEF prevs, p
      <4> QED BY <1>5, <4>2
    <3>2. [E[p] EXCEPT !.next = E[i].next] = q /\ q \in Entry(t, K, V)
      <4> HIDE DEF p
      <4>1. E[p] \in Entry(t, K, V) /\ E[i].next \in M \cup {Null}
        BY <1>1, <1>3, <3>1
      <4> QED BY <4>1 DEF Entry
    <3>3. New = [[E EXCEPT ![p] = [E[p] EXCEPT !.next = E[i].next]] EXCEPT ![i] = Blank]
      BY <2>3
    <3>4. New = [G EXCEPT ![i] = Blank]
      BY <3>2, <3>3, Zenon
    <3> HIDE DEF New, prevs, p, q
    <3>5. G \in [M -> Entry(t, K, V)] /\ \A x \in M : G[x] = IF x = p THEN q ELSE E[x]
      BY <1>1, <3>1, <3>2
    <3> HIDE DEF G
    <3>6. New \in [M -> Entry(t, K, V)] /\ \A x \in M : New[x] = IF x = i THEN Blank ELSE G[x]
      BY <1>1, <2>1, <3>4, <3>5
    <3> QED BY <1>5, <2>3, <3>5, <3>6 DEF q
  <2> QED BY <2>2, <2>3
<1> HIDE DEF New, prevs, p
<1>7. \A x \in M : /\ New[x].key = IF x = i THEN Empty ELSE E[x].key
                   /\ x # i => New[x].val = E[x].val
                   /\ New[x].next = IF x = i THEN Null
                                    ELSE IF E[x].next = i THEN E[i].next ELSE E[x].next
  BY <1>6 DEF Blank
<1>8. \A x \in M : New[x].key # Empty => New[x].val \in V
  <2>1. \A x \in M : E[x].key # Empty => E[x].val \in V
    BY <1>1 DEF TableTyped, Used, IsEmpty
  <2> QED BY <1>7, <2>1
<1>9. /\ t2.entries = New /\ t2.mask = t.mask /\ t2.count = t.count - 1 /\ Slot(t2) = M
      /\ Used(t2) = {x \in M : New[x].key # Empty} /\ Mains(t2, K, hash) = h
      /\ TableTyped(t2, K, V) /\ Typed(M, K, KeyAt(t2), LinkAt(t2))
      /\ \A x \in M : KeyAt(t2)[x] = New[x].key /\ LinkAt(t2)[x] = New[x].next
  BY <1>1, <1>4, <1>6, <1>8, TableBuilt
<1>10. Used(t2) = Used(t) \ {i}
  BY <1>7, <1>9 DEF Used, IsEmpty
<1>11. t2.count = Cardinality(Used(t2))
  <2>1. IsFiniteSet(Used(t))
    BY <1>1, Slots, FS_Subset DEF Used
  <2> QED BY <1>1, <1>9, <1>10, <2>1, FS_RemoveElement
<1>12. Loose(M, K, KeyAt(t2), LinkAt(t2), h)
  <2>1. \A x \in M : /\ KeyAt(t2)[x] = IF x = i THEN Empty ELSE KeyAt(t)[x]
                     /\ LinkAt(t2)[x] = IF x = i THEN Null ELSE IF LinkAt(t)[x] = i
                                        THEN LinkAt(t)[i] ELSE LinkAt(t)[x]
    <3> HIDE DEF M, E
    <3>1. LinkAt(t)[i] = E[i].next
      BY <1>1, <1>3
    <3>2. ASSUME NEW x \in M
          PROVE  KeyAt(t2)[x] = New[x].key /\ LinkAt(t2)[x] = New[x].next
                 /\ KeyAt(t)[x] = E[x].key /\ LinkAt(t)[x] = E[x].next
      BY <1>3, <1>9
    <3> QED BY <1>7, <3>1, <3>2
  <2> HIDE DEF M, h
  <2> QED BY <1>1, <1>2, <1>9, <2>1, LooseRemove
<1>13. LooseTable(t2, hash, K, V)
  BY <1>9, <1>11, <1>12 DEF LooseTable
<1>14. Removed(t, t2, i)
  <2>1. \A x \in Used(t2) : x \in M /\ x # i
    BY <1>10 DEF Used
  <2> QED BY <1>7, <1>9, <1>10, <2>1 DEF Removed
<1> QED BY <1>13, <1>14 DEF t2

-----------------------------------------------------------------------------
(* What such a table holds.                                                *)

\* No two entries have the same key and value.
Once(t) == \A x, y \in Used(t) : t.entries[x].key = t.entries[y].key
                                 /\ t.entries[x].val = t.entries[y].val => x = y

\* The entries with a value of W can be found.
Found(t, hash, W) == \A x \in Used(t) : t.entries[x].val \in W => FoundAt(t, hash, x)

LEMMA PlacedEffects ==
    ASSUME NEW t, NEW t2, NEW j, j # Empty, NEW v, NEW a, NEW b, Placed(t, t2, j, v, a, b)
    PROVE  /\ Slot(t2) = Slot(t) /\ Used(t2) = Used(t) \cup {b} /\ b \notin Used(t)
           /\ t2.entries[a].key = j /\ t2.entries[a].val = v /\ a \in Used(t2)
           /\ \A y \in Used(t2) : y # a =>
                 \E x \in Used(t) : /\ y = IF x = a THEN b ELSE x
                                    /\ t2.entries[y].key = t.entries[x].key
                                    /\ t2.entries[y].val = t.entries[x].val
           /\ \A x \in Used(t) : LET y == IF x = a THEN b ELSE x
                                 IN  /\ y \in Used(t2)
                                     /\ t2.entries[y].key = t.entries[x].key
                                     /\ t2.entries[y].val = t.entries[x].val
<1>1. Slot(t2) = Slot(t)
  BY DEF Placed, Slot
<1>2. Used(t2) = Used(t) \cup {b} /\ b \notin Used(t)
  <2>1. \A x \in Slot(t) : ~ IsEmpty(t2, x) <=> ~ IsEmpty(t, x) \/ x = b
    BY DEF Placed, IsEmpty
  <2> QED BY <1>1, <2>1 DEF Used, Placed
<1>3. t2.entries[a].key = j /\ t2.entries[a].val = v /\ a \in Used(t2)
  BY <1>1 DEF Placed, Used, IsEmpty
<1>4. ASSUME NEW y \in Used(t2), y # a
      PROVE  \E x \in Used(t) : /\ y = IF x = a THEN b ELSE x
                                /\ t2.entries[y].key = t.entries[x].key
                                /\ t2.entries[y].val = t.entries[x].val
  <2>1. y \in Slot(t)
    BY <1>1 DEF Used
  <2>2. CASE y = b
    <3>1. a \in Used(t)
      BY <1>4, <2>2 DEF Placed, Used
    <3> QED BY <1>4, <2>1, <2>2, <3>1 DEF Placed
  <2>3. CASE y # b
    <3>1. y \in Used(t)
      BY <1>2, <2>3
    <3> QED BY <1>4, <2>1, <2>3, <3>1 DEF Placed
  <2> QED BY <2>2, <2>3
<1>5. ASSUME NEW x \in Used(t)
      PROVE  LET y == IF x = a THEN b ELSE x
             IN  /\ y \in Used(t2)
                 /\ t2.entries[y].key = t.entries[x].key
                 /\ t2.entries[y].val = t.entries[x].val
  <2>1. x \in Slot(t) /\ x # b
    BY <1>2 DEF Used
  <2> QED BY <1>2, <2>1 DEF Placed
<1> QED BY <1>1, <1>2, <1>3, <1>4, <1>5

\* insert() adds the key and value to what the table holds.
LEMMA InsertEffects ==
    ASSUME NEW t, NEW hash, NEW K, NEW V, Hashed(hash, K), LooseTable(t, hash, K, V),
           NEW j \in K, NEW v \in V, t.count < upb_table_size(t), Once(t), ~ Holds(t, j, v),
           LET e    == MainPos(t, j, hash)
               head == MainPos(t, t.entries[e].key, hash)
           IN  IsEmpty(t, e) \/ head = e \/ Before(t, head, e) # {}
    PROVE  LET t2 == insert(t, j, v, hash)
           IN  /\ LooseTable(t2, hash, K, V) /\ Once(t2)
               /\ t2.mask = t.mask /\ t2.count = t.count + 1
               /\ \A i \in K, w \in V : Holds(t2, i, w) <=> Holds(t, i, w) \/ (i = j /\ w = v)
               /\ \A W : Found(t, hash, W) => Found(t2, hash, W)
<1> DEFINE t2 == insert(t, j, v, hash)
<1>1. LooseTable(t2, hash, K, V)
  BY InsertLoose
<1>2. PICK a, b \in Slot(t) :
         /\ Placed(t, t2, j, v, a, b) /\ FoundAt(t2, hash, a)
         /\ \A x \in Used(t) : FoundAt(t, hash, x) => FoundAt(t2, hash, IF x = a THEN b ELSE x)
  BY InsertLoose
<1>3. j # Empty /\ Empty \notin K
  BY DEF Hashed
<1> HIDE DEF t2
<1>4. t2.mask = t.mask /\ t2.count = t.count + 1
  BY <1>2 DEF Placed
<1>5. /\ Slot(t2) = Slot(t) /\ Used(t2) = Used(t) \cup {b} /\ b \notin Used(t)
      /\ t2.entries[a].key = j /\ t2.entries[a].val = v /\ a \in Used(t2)
      /\ \A y \in Used(t2) : y # a =>
            \E x \in Used(t) : /\ y = IF x = a THEN b ELSE x
                               /\ t2.entries[y].key = t.entries[x].key
                               /\ t2.entries[y].val = t.entries[x].val
      /\ \A x \in Used(t) : LET y == IF x = a THEN b ELSE x
                            IN  /\ y \in Used(t2)
                                /\ t2.entries[y].key = t.entries[x].key
                                /\ t2.entries[y].val = t.entries[x].val
  BY <1>2, <1>3, PlacedEffects
<1>6. \A T, i, w : i # Empty => (Holds(T, i, w) <=>
         \E x \in Used(T) : T.entries[x].key = i /\ T.entries[x].val = w)
  BY DEF Holds, Used, IsEmpty
<1>7. ASSUME NEW i \in K, NEW w \in V
      PROVE  Holds(t2, i, w) <=> Holds(t, i, w) \/ (i = j /\ w = v)
  <2>1. i # Empty
    BY <1>3
  <2>2. ASSUME Holds(t2, i, w) PROVE Holds(t, i, w) \/ (i = j /\ w = v)
    <3>1. PICK y \in Used(t2) : t2.entries[y].key = i /\ t2.entries[y].val = w
      BY <1>6, <2>1, <2>2
    <3>2. CASE y = a
      BY <1>5, <3>1, <3>2
    <3>3. CASE y # a
      BY <1>5, <1>6, <2>1, <3>1, <3>3
    <3> QED BY <3>2, <3>3
  <2>3. ASSUME Holds(t, i, w) PROVE Holds(t2, i, w)
    <3>1. PICK x \in Used(t) : t.entries[x].key = i /\ t.entries[x].val = w
      BY <1>6, <2>1, <2>3
    <3>2. PICK y \in Used(t2) : t2.entries[y].key = i /\ t2.entries[y].val = w
      BY <1>5, <3>1
    <3> QED BY <1>6, <2>1, <3>2
  <2>4. ASSUME i = j, w = v PROVE Holds(t2, i, w)
    BY <1>5, <1>6, <2>1, <2>4
  <2> QED BY <2>2, <2>3, <2>4
<1>8. Once(t2)
  <2> SUFFICES ASSUME NEW y \in Used(t2), NEW z \in Used(t2),
                      t2.entries[y].key = t2.entries[z].key,
                      t2.entries[y].val = t2.entries[z].val
               PROVE  y = z
    BY DEF Once
  <2>1. \A x \in Used(t) : ~(t.entries[x].key = j /\ t.entries[x].val = v)
    BY <1>3, <1>6
  <2>2. \A x \in Used(t2) : x # a => ~(t2.entries[x].key = j /\ t2.entries[x].val = v)
    BY <1>5, <2>1
  <2>3. CASE y = a \/ z = a
    BY <1>5, <2>2, <2>3
  <2>4. CASE y # a /\ z # a
    <3>1. PICK x \in Used(t) : /\ y = IF x = a THEN b ELSE x
                               /\ t2.entries[y].key = t.entries[x].key
                               /\ t2.entries[y].val = t.entries[x].val
      BY <1>5, <2>4
    <3>2. PICK u \in Used(t) : /\ z = IF u = a THEN b ELSE u
                               /\ t2.entries[z].key = t.entries[u].key
                               /\ t2.entries[z].val = t.entries[u].val
      BY <1>5, <2>4
    <3>3. x = u
      BY <3>1, <3>2 DEF Once
    <3> QED BY <3>1, <3>2, <3>3
  <2> QED BY <2>3, <2>4
<1>9. ASSUME NEW W, Found(t, hash, W) PROVE Found(t2, hash, W)
  <2> SUFFICES ASSUME NEW y \in Used(t2), t2.entries[y].val \in W PROVE FoundAt(t2, hash, y)
    BY DEF Found
  <2>1. CASE y = a
    BY <1>2, <2>1
  <2>2. CASE y # a
    <3>1. PICK x \in Used(t) : /\ y = IF x = a THEN b ELSE x
                               /\ t2.entries[y].val = t.entries[x].val
      BY <1>5, <2>2
    <3>2. FoundAt(t, hash, x)
      BY <1>9, <3>1 DEF Found
    <3> QED BY <1>2, <3>1, <3>2
  <2> QED BY <2>1, <2>2
<1> QED BY <1>1, <1>4, <1>7, <1>8, <1>9 DEF t2

LEMMA InitLoose ==
    ASSUME NEW size \in Nat \ {0}, NEW hash, NEW K, NEW V, Hashed(hash, K)
    PROVE  /\ LooseTable(init(size), hash, K, V)
           /\ init(size).mask = size - 1 /\ init(size).count = 0 /\ Used(init(size)) = {}
<1>1. /\ TableOK(init(size), hash, K, V)
      /\ init(size).mask = size - 1 /\ init(size).count = 0 /\ Used(init(size)) = {}
  BY InitOK
<1> QED BY <1>1 DEF TableOK, Sound, LooseTable, Loose

\* resize() keeps what a table holds, and makes all of it found.
LEMMA ResizeLoose ==
    ASSUME NEW t, NEW hash, NEW K, NEW V, Hashed(hash, K), LooseTable(t, hash, K, V), Once(t),
           NEW size \in Nat \ {0}, t.count < size
    PROVE  LET r == resize(t, size, hash)
           IN  /\ LooseTable(r, hash, K, V) /\ Once(r) /\ Found(r, hash, V)
               /\ r.mask = size - 1 /\ r.count = t.count
               /\ \A i \in K, w \in V : Holds(r, i, w) <=> Holds(t, i, w)
<1> DEFINE k == upb_table_size(t)
           f == CHOOSE g : g = [n \in 0..k |->
                   IF n = 0 THEN init(size) ELSE IF IsEmpty(t, n - 1) THEN g[n - 1]
                   ELSE insert(g[n - 1], t.entries[n - 1].key, t.entries[n - 1].val, hash)]
<1>0. /\ t.mask \in Nat /\ k = t.mask + 1 /\ k \in Nat /\ TableTyped(t, K, V)
      /\ IsFiniteSet(Used(t)) /\ t.count = Cardinality(Used(t)) /\ t.count \in Nat
  <2>1. t.mask \in Nat /\ TableTyped(t, K, V) /\ t.count = Cardinality(Used(t))
    BY DEF LooseTable, TableTyped
  <2>2. IsFiniteSet(Used(t))
    BY <2>1, Slots, FS_Subset DEF Used
  <2> QED BY <2>1, <2>2, FS_CardinalityType DEF upb_table_size
<1>1. resize(t, size, hash) = f[k]
  BY DEF resize
<1>2. ResizeTo(f, t, size, hash, k)
  <2>1. PICK g : ResizeTo(g, t, size, hash, k)
    <3> HIDE DEF k
    <3> QED BY <1>0, ResizesExist
  <2> QED BY <2>1, Zenon DEF ResizeTo
<1> HIDE DEF f, k
<1>3. f[0] = init(size)
  <2>1. 0 \in 0..k
    BY <1>0
  <2> QED BY <1>2, <2>1 DEF ResizeTo
<1>4. ASSUME NEW n \in Nat, n + 1 <= k
      PROVE  f[n + 1] = IF IsEmpty(t, n) THEN f[n]
                        ELSE insert(f[n], t.entries[n].key, t.entries[n].val, hash)
  <2>1. n + 1 \in 0..k /\ n + 1 # 0 /\ (n + 1) - 1 = n
    BY <1>0, <1>4
  <2>2. f[n + 1] = IF n + 1 = 0 THEN init(size) ELSE IF IsEmpty(t, (n + 1) - 1) THEN f[(n + 1) - 1]
                   ELSE insert(f[(n + 1) - 1], t.entries[(n + 1) - 1].key,
                               t.entries[(n + 1) - 1].val, hash)
    BY <1>2, <2>1, Zenon DEF ResizeTo
  <2> QED BY <2>1, <2>2
<1> DEFINE U(n) == {x \in Used(t) : x < n}
           From(n, i, w) == \E x \in Slot(t) : x < n /\ t.entries[x].key = i /\ t.entries[x].val = w
           P(n) == /\ LooseTable(f[n], hash, K, V) /\ f[n].mask = size - 1
                   /\ f[n].count = Cardinality(U(n)) /\ Once(f[n]) /\ Found(f[n], hash, V)
                   /\ \A i \in K, w \in V : Holds(f[n], i, w) <=> From(n, i, w)
           Q == {n \in Nat : n <= k => P(n)}
<1>5. \A n \in Nat : IsFiniteSet(U(n)) /\ Cardinality(U(n)) <= t.count /\ Cardinality(U(n)) \in Nat
  BY <1>0, FS_Subset, FS_CardinalityType
<1>6. 0 \in Q
  <2>1. LooseTable(f[0], hash, K, V) /\ f[0].mask = size - 1 /\ f[0].count = 0 /\ Used(f[0]) = {}
    BY <1>3, InitLoose
  <2>2. U(0) = {}
    BY <1>0 DEF Used, Slot
  <2>3. f[0].count = Cardinality(U(0)) /\ Once(f[0]) /\ Found(f[0], hash, V)
    BY <2>1, <2>2, FS_EmptySet DEF Once, Found
  <2>4. ASSUME NEW i \in K, NEW w \in V PROVE Holds(f[0], i, w) <=> From(0, i, w)
    <3>1. ~ Holds(f[0], i, w)
      <4>1. i # Empty
        BY DEF Hashed
      <4> QED BY <2>1, <4>1 DEF Holds, Used, IsEmpty
    <3>2. ~ From(0, i, w)
      BY <1>0 DEF Slot
    <3> QED BY <3>1, <3>2
  <2> HIDE DEF U, From
  <2> QED BY <2>1, <2>3, <2>4
<1>7. ASSUME NEW n \in Nat, n \in Q PROVE n + 1 \in Q
  <2> SUFFICES ASSUME n + 1 <= k PROVE P(n + 1)
    OBVIOUS
  <2>1. P(n) /\ n \in Slot(t)
    BY <1>0, <1>7 DEF Slot
  <2>2. \A x \in Slot(t) : x < n + 1 <=> x < n \/ x = n
    BY <1>0 DEF Slot
  <2>3. CASE IsEmpty(t, n)
    <3>1. f[n + 1] = f[n]
      BY <1>4, <2>3
    <3>2. U(n + 1) = U(n)
      BY <2>2, <2>3 DEF Used
    <3>3. ASSUME NEW i \in K, NEW w \in V PROVE From(n + 1, i, w) <=> From(n, i, w)
      <4>1. i # Empty
        BY DEF Hashed
      <4> QED BY <2>2, <2>3, <4>1 DEF IsEmpty
    <3> HIDE DEF U, From
    <3> QED BY <2>1, <3>1, <3>2, <3>3
  <2>4. CASE ~ IsEmpty(t, n)
    <3> DEFINE j == t.entries[n].key
               v == t.entries[n].val
    <3>1. n \in Used(t) /\ j \in K /\ v \in V
      <4>1. n \in Used(t)
        BY <2>1, <2>4 DEF Used
      <4>2. t.entries[n].key \in K \cup {Empty} /\ t.entries[n].key # Empty
        BY <1>0, <2>1, <2>4, TableFields DEF IsEmpty
      <4>3. v \in V
        BY <1>0, <4>1 DEF TableTyped
      <4> QED BY <4>1, <4>2, <4>3
    <3>2. f[n + 1] = insert(f[n], j, v, hash)
      BY <1>4, <2>4
    <3>3. U(n + 1) = U(n) \cup {n} /\ n \notin U(n)
      <4>1. \A x \in Used(t) : x < n + 1 <=> x < n \/ x = n
        BY <2>2 DEF Used
      <4>2. ~(n < n)
        OBVIOUS
      <4> QED BY <3>1, <4>1, <4>2
    <3>4. Cardinality(U(n + 1)) = Cardinality(U(n)) + 1
      <4> HIDE DEF U
      <4> QED BY <1>5, <3>3, FS_AddElement
    <3>5. f[n].count < upb_table_size(f[n])
      <4>1. Cardinality(U(n)) <= t.count /\ Cardinality(U(n)) \in Nat
        BY <1>5
      <4> QED BY <1>0, <2>1, <4>1 DEF upb_table_size
    <3>6. ~ Holds(f[n], j, v)
      <4> SUFFICES ASSUME From(n, j, v) PROVE FALSE
        BY <2>1, <3>1
      <4>1. PICK y \in Slot(t) : y < n /\ t.entries[y].key = j /\ t.entries[y].val = v
        OBVIOUS
      <4>2. y \in Used(t)
        BY <2>4, <4>1 DEF Used, IsEmpty
      <4>3. y = n
        BY <3>1, <4>1, <4>2 DEF Once
      <4> QED BY <4>1, <4>3
    <3>7. ASSUME ~ IsEmpty(f[n], MainPos(f[n], j, hash))
          PROVE  LET e    == MainPos(f[n], j, hash)
                     head == MainPos(f[n], f[n].entries[e].key, hash)
                 IN  head = e \/ Before(f[n], head, e) # {}
      <4> DEFINE e == MainPos(f[n], j, hash)
      <4>1. TableTyped(f[n], K, V) /\ f[n].mask \in Nat
        BY <2>1 DEF LooseTable, TableTyped
      <4>2. e \in Used(f[n])
        BY <3>1, <3>7, <4>1, MainPosTyped DEF Used, Hashed
      <4>3. FoundAt(f[n], hash, e)
        BY <2>1, <4>1, <4>2 DEF Found, TableTyped
      <4> HIDE DEF e
      <4>4. LET head == MainPos(f[n], f[n].entries[e].key, hash)
            IN  head = e \/ Before(f[n], head, e) # {}
        BY <4>1, <4>2, <4>3, FoundHasBefore
      <4> QED BY <4>4 DEF e
    <3> HIDE DEF j, v
    <3>8. /\ LooseTable(f[n + 1], hash, K, V) /\ Once(f[n + 1])
          /\ f[n + 1].mask = f[n].mask /\ f[n + 1].count = f[n].count + 1
          /\ \A i \in K, w \in V : Holds(f[n + 1], i, w) <=> Holds(f[n], i, w) \/ (i = j /\ w = v)
          /\ \A W : Found(f[n], hash, W) => Found(f[n + 1], hash, W)
      BY <2>1, <3>1, <3>2, <3>5, <3>6, <3>7, InsertEffects
    <3>9. ASSUME NEW i \in K, NEW w \in V
          PROVE  From(n + 1, i, w) <=> From(n, i, w) \/ (i = j /\ w = v)
      BY <2>1, <2>2 DEF j, v
    <3> HIDE DEF U, From
    <3> QED BY <2>1, <3>4, <3>8, <3>9
  <2> QED BY <2>3, <2>4
<1> HIDE DEF P, Q
<1>8. \A n \in Nat : n \in Q
  BY <1>6, <1>7, NumberInduction
<1>9. P(k)
  BY <1>0, <1>8 DEF Q
<1>10. U(k) = Used(t)
  BY <1>0 DEF Used, Slot
<1>11. \A i \in K, w \in V : From(k, i, w) <=> Holds(t, i, w)
  BY <1>0 DEF Holds, Slot
<1> HIDE DEF U, From
<1> QED BY <1>0, <1>1, <1>9, <1>10, <1>11 DEF P

=============================================================================
