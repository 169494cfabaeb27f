-------------------------- MODULE ArenaAllocProofs --------------------------
(***************************************************************************)
(* Proofs about ArenaAlloc for any number of arenas, any sizes of blocks   *)
(* and requests, and any memory.  The arguments about one arena are about  *)
(* records and sets of units and mention no variable (Tidy, Books, Counts);*)
(* the actions are then shown to do what those lemmas allow.               *)
(***************************************************************************)
EXTENDS ArenaAlloc, FiniteSetTheorems, WellFoundedInduction, TLAPS

-----------------------------------------------------------------------------
(* Induction, stated with sets.                                            *)

\* A set of numbers with an element has a least one.
LEMMA LeastNumber ==
    ASSUME NEW S, S \subseteq Nat, S # {}
    PROVE  \E x \in S : \A y \in S : x <= y
<1>1. \E R : IsWellFoundedOn(R, Nat) /\ \A x, y \in Nat : x < y => <<x, y>> \in R
  <2>1. \A x, y \in Nat : x < y => <<x, y>> \in OpToRel(<, Nat)
    BY DEF OpToRel
  <2> QED BY <2>1, NatLessThanWellFounded, Zenon
<1>2. PICK R : IsWellFoundedOn(R, Nat) /\ \A x, y \in Nat : x < y => <<x, y>> \in R
  BY <1>1
<1>3. PICK x \in S : \A y \in S : ~(<<y, x>> \in R)
  <2>1. IsWellFoundedOn(R, Nat)
    BY <1>2
  <2> QED BY <2>1, WFMin
<1>4. ASSUME NEW y \in S PROVE x <= y
  <2>1. x \in Nat /\ y \in Nat /\ ~(y < x)
    BY <1>2, <1>3
  <2> QED BY <2>1
<1> QED BY <1>4

\* A set that holds 0 and, with each number, the next, holds all.
LEMMA NumberInduction ==
    ASSUME NEW S, 0 \in S, \A n \in Nat : n \in S => n + 1 \in S
    PROVE  \A n \in Nat : n \in S
<1> SUFFICES ASSUME Nat \ S # {} PROVE FALSE
  OBVIOUS
<1>1. PICK x \in Nat \ S : \A y \in Nat \ S : x <= y
  BY LeastNumber
<1>2. x # 0 /\ x - 1 \in Nat /\ ~(x <= x - 1)
  BY <1>1
<1>3. x - 1 \in S
  BY <1>1, <1>2
<1> QED BY <1>1, <1>2, <1>3

LEMMA MinIsLeast ==
    ASSUME NEW S, S \subseteq Nat, S # {}
    PROVE  Min(S) \in S /\ \A y \in S : Min(S) <= y
BY LeastNumber DEF Min

LEMMA MinOfTwo ==
    ASSUME NEW x \in Nat, NEW y \in Nat
    PROVE  Min({x, y}) \in Nat /\ Min({x, y}) <= x /\ Min({x, y}) <= y
<1> DEFINE S == {x, y}
<1>1. S \subseteq Nat /\ S # {} /\ x \in S /\ y \in S
  OBVIOUS
<1> HIDE DEF S
<1>2. Min(S) \in S /\ \A z \in S : Min(S) <= z
  BY <1>1, MinIsLeast
<1> QED BY <1>1, <1>2 DEF S

LEMMA MaxOfTwo ==
    ASSUME NEW x \in Nat, NEW y \in Nat
    PROVE  Max({x, y}) \in Nat
<1>1. \E z \in {x, y} : \A w \in {x, y} : z >= w
  <2>1. CASE x >= y
    BY <2>1
  <2>2. CASE ~(x >= y)
    BY <2>2
  <2> QED BY <2>1, <2>2
<1>2. Max({x, y}) \in {x, y}
  BY <1>1 DEF Max
<1> QED BY <1>2

-----------------------------------------------------------------------------
(* Sums of block sizes.  MapThenSumSet adds in an order it chooses; here   *)
(* the order is shown not to matter.                                       *)

Total(S) == MapThenSumSet(LAMBDA b : b.size, S)

Chosen(s) == CHOOSE y \in s : TRUE

\* f adds up the subsets of S of at most n elements.
AddsTo(f, S, n) ==
    f = [s \in {x \in SUBSET S : Cardinality(x) <= n} |->
           IF s = {} THEN 0 ELSE Chosen(s).size + f[s \ {Chosen(s)}]]

AddsUp(f, S) ==
    f = [s \in SUBSET S |-> IF s = {} THEN 0 ELSE Chosen(s).size + f[s \ {Chosen(s)}]]

Sized(S) == IsFiniteSet(S) /\ \A b \in S : b.size \in Nat

LEMMA TotalIs == ASSUME NEW S PROVE Total(S) = (CHOOSE f : AddsUp(f, S))[S]
BY DEF Total, AddsUp, Chosen, MapThenSumSet, MapThenFoldSet

LEMMA Less ==
    ASSUME NEW S, IsFiniteSet(S), NEW s \in SUBSET S, s # {}
    PROVE  /\ Chosen(s) \in s /\ s \ {Chosen(s)} \in SUBSET S
           /\ Cardinality(s) \in Nat /\ Cardinality(s \ {Chosen(s)}) = Cardinality(s) - 1
<1>1. Chosen(s) \in s
  BY DEF Chosen
<1>2. IsFiniteSet(s)
  BY FS_Subset
<1> QED BY <1>1, <1>2, FS_CardinalityType, FS_RemoveElement

LEMMA SumsExist ==
    ASSUME NEW S, IsFiniteSet(S)
    PROVE  \E f : AddsUp(f, S)
<1> DEFINE D(n) == {x \in SUBSET S : Cardinality(x) <= n}
           N == {n \in Nat : \E f : AddsTo(f, S, n)}
<1>1. \A x \in SUBSET S : Cardinality(x) \in Nat /\ (Cardinality(x) = 0 <=> x = {})
  BY FS_Subset, FS_CardinalityType, FS_EmptySet
<1>2. 0 \in N
  <2> DEFINE f == [s \in D(0) |-> 0]
  <2>1. \A s \in D(0) : s = {}
    BY <1>1
  <2>2. f = [s \in D(0) |-> IF s = {} THEN 0 ELSE Chosen(s).size + f[s \ {Chosen(s)}]]
    BY <2>1
  <2>3. AddsTo(f, S, 0)
    BY <2>2 DEF AddsTo
  <2> HIDE DEF f
  <2> QED BY <2>3
<1>3. ASSUME NEW n \in Nat, n \in N PROVE n + 1 \in N
  <2>1. PICK f : AddsTo(f, S, n)
    BY <1>3
  <2>2. f = [s \in D(n) |-> IF s = {} THEN 0 ELSE Chosen(s).size + f[s \ {Chosen(s)}]]
    BY <2>1 DEF AddsTo
  <2> DEFINE h(s) == IF s = {} THEN 0 ELSE Chosen(s).size + f[s \ {Chosen(s)}]
             g == [s \in D(n + 1) |-> h(s)]
  <2>3. ASSUME NEW s \in D(n + 1), s # {} PROVE g[s \ {Chosen(s)}] = f[s \ {Chosen(s)}]
    <3> DEFINE z == s \ {Chosen(s)}
    <3>1. z \in SUBSET S /\ Cardinality(z) = Cardinality(s) - 1 /\ Cardinality(s) \in Nat
      BY <2>3, Less
    <3>2. z \in D(n) /\ z \in D(n + 1)
      BY <1>1, <2>3, <3>1
    <3> HIDE DEF z
    <3>3. f[z] = h(z) /\ g[z] = h(z)
      BY <2>2, <3>2
    <3> QED BY <3>3 DEF z
  <2>4. g = [s \in D(n + 1) |-> IF s = {} THEN 0 ELSE Chosen(s).size + g[s \ {Chosen(s)}]]
    BY <2>3
  <2>5. AddsTo(g, S, n + 1)
    BY <2>4 DEF AddsTo
  <2> HIDE DEF g
  <2> QED BY <2>5
<1> HIDE DEF N
<1>4. \A n \in Nat : n \in N
  BY <1>2, <1>3, NumberInduction
<1>5. Cardinality(S) \in Nat /\ \A x \in SUBSET S : Cardinality(x) <= Cardinality(S)
  BY FS_CardinalityType, FS_Subset
<1>6. PICK f : AddsTo(f, S, Cardinality(S))
  BY <1>4, <1>5 DEF N
<1>7. D(Cardinality(S)) = SUBSET S
  BY <1>5
<1>8. AddsUp(f, S)
  BY <1>6, <1>7 DEF AddsTo, AddsUp
<1> QED BY <1>8

LEMMA SumsAgree ==
    ASSUME NEW S, IsFiniteSet(S), NEW f, AddsUp(f, S), NEW T, T \subseteq S, NEW g, AddsUp(g, T)
    PROVE  f[T] = g[T]
<1> DEFINE N == {n \in Nat : \A s \in SUBSET T : Cardinality(s) = n => f[s] = g[s]}
<1>1. \A x \in SUBSET T : Cardinality(x) \in Nat /\ (Cardinality(x) = 0 <=> x = {})
  BY FS_Subset, FS_CardinalityType, FS_EmptySet
<1>2. /\ \A s \in SUBSET S : f[s] = IF s = {} THEN 0 ELSE Chosen(s).size + f[s \ {Chosen(s)}]
      /\ \A s \in SUBSET T : g[s] = IF s = {} THEN 0 ELSE Chosen(s).size + g[s \ {Chosen(s)}]
  BY DEF AddsUp
<1>3. 0 \in N
  BY <1>1, <1>2
<1>4. ASSUME NEW n \in Nat, n \in N PROVE n + 1 \in N
  <2> SUFFICES ASSUME NEW s \in SUBSET T, Cardinality(s) = n + 1 PROVE f[s] = g[s]
    OBVIOUS
  <2>1. s # {} /\ s \in SUBSET S
    BY <1>1
  <2>2. s \ {Chosen(s)} \in SUBSET T /\ Cardinality(s \ {Chosen(s)}) = n
    BY <2>1, Less
  <2>3. f[s \ {Chosen(s)}] = g[s \ {Chosen(s)}]
    BY <1>4, <2>2
  <2> QED BY <1>2, <2>1, <2>3
<1> HIDE DEF N
<1>5. \A n \in Nat : n \in N
  BY <1>3, <1>4, NumberInduction
<1> QED BY <1>1, <1>5 DEF N

LEMMA TotalEquation ==
    ASSUME NEW S, IsFiniteSet(S)
    PROVE  Total(S) = IF S = {} THEN 0 ELSE Chosen(S).size + Total(S \ {Chosen(S)})
<1> DEFINE F(T) == CHOOSE f : AddsUp(f, T)
           f == F(S)
           T == S \ {Chosen(S)}
           g == F(T)
<1>1. AddsUp(f, S)
  BY SumsExist
<1>2. AddsUp(g, T)
  <2>1. IsFiniteSet(T)
    BY FS_Subset
  <2> HIDE DEF T
  <2> QED BY <2>1, SumsExist
<1>3. Total(S) = f[S] /\ Total(T) = g[T]
  BY TotalIs
<1> HIDE DEF f, g
<1>4. f[T] = g[T]
  BY <1>1, <1>2, SumsAgree
<1>5. f[S] = IF S = {} THEN 0 ELSE Chosen(S).size + f[T]
  BY <1>1 DEF AddsUp
<1> QED BY <1>3, <1>4, <1>5

\* Adding a block adds its size.
LEMMA TotalAdd ==
    ASSUME NEW S, Sized(S), NEW b, b \notin S, b.size \in Nat
    PROVE  Total(S \cup {b}) = b.size + Total(S) /\ Total(S) \in Nat
<1> DEFINE N == {n \in Nat : \A T \in SUBSET (S \cup {b}) : Cardinality(T) <= n =>
                     /\ Total(T) \in Nat
                     /\ \A c \in S \cup {b} : c \in T => Total(T) = c.size + Total(T \ {c})}
           U == S \cup {b}
<1>1. IsFiniteSet(U) /\ \A c \in U : c.size \in Nat
  BY FS_AddElement DEF Sized
<1>2. \A T \in SUBSET U : /\ IsFiniteSet(T) /\ Cardinality(T) \in Nat
                          /\ Cardinality(T) = 0 <=> T = {}
                          /\ \A c \in T : Cardinality(T \ {c}) = Cardinality(T) - 1
  BY <1>1, FS_Subset, FS_CardinalityType, FS_EmptySet, FS_RemoveElement
<1>3. \A T \in SUBSET U : Total(T) = IF T = {} THEN 0 ELSE Chosen(T).size + Total(T \ {Chosen(T)})
  BY <1>2, TotalEquation
<1>4. \A T \in SUBSET U : T # {} => Chosen(T) \in T
  BY DEF Chosen
<1> HIDE DEF U
<1>5. 0 \in N
  <2>1. \A T \in SUBSET U : Cardinality(T) <= 0 => T = {}
    BY <1>2
  <2>2. Total({}) = 0
    BY <1>3
  <2>3. \A T \in SUBSET U : Cardinality(T) <= 0 =>
            Total(T) \in Nat /\ \A c \in U : c \in T => Total(T) = c.size + Total(T \ {c})
    BY <2>1, <2>2
  <2> QED BY <2>3 DEF U
<1>6. ASSUME NEW n \in Nat, n \in N PROVE n + 1 \in N
  <2> SUFFICES ASSUME NEW T \in SUBSET U, Cardinality(T) = n + 1
               PROVE  /\ Total(T) \in Nat
                      /\ \A c \in U : c \in T => Total(T) = c.size + Total(T \ {c})
    BY <1>2, <1>6 DEF U
  <2> DEFINE x == Chosen(T)
             R == T \ {x}
  <2>1. T # {} /\ x \in T /\ x \in U /\ x.size \in Nat
    BY <1>1, <1>2, <1>4
  <2>2. R \in SUBSET U /\ Cardinality(R) = n
    BY <1>2, <2>1
  <2>3. Total(R) \in Nat /\ \A c \in U : c \in R => Total(R) = c.size + Total(R \ {c})
    BY <1>6, <2>2 DEF U
  <2>4. Total(T) = x.size + Total(R)
    BY <1>3, <2>1
  <2>5. Total(T) \in Nat
    BY <2>1, <2>3, <2>4
  <2>6. ASSUME NEW c \in U, c \in T PROVE Total(T) = c.size + Total(T \ {c})
    <3>1. CASE c = x
      BY <2>4, <3>1
    <3>2. CASE c # x
      <4> DEFINE Q == T \ {c}
      <4>1. c \in R /\ Total(R) = c.size + Total(R \ {c})
        BY <2>3, <2>6, <3>2
      <4>2. Q \in SUBSET U /\ Cardinality(Q) = n /\ x \in Q
        BY <1>2, <2>1, <2>6, <3>2
      <4>3. Total(Q) \in Nat /\ Total(Q) = x.size + Total(Q \ {x})
        BY <1>6, <2>1, <4>2 DEF U
      <4>4. Q \ {x} = R \ {c}
        OBVIOUS
      <4>5. R \ {c} \in SUBSET U /\ Total(R \ {c}) \in Nat
        <5> DEFINE W == R \ {c}
        <5>1. W \in SUBSET U /\ Cardinality(W) = n - 1 /\ Cardinality(W) <= n
          BY <1>2, <2>2, <4>1
        <5> HIDE DEF W
        <5>2. Total(W) \in Nat
          BY <1>6, <5>1 DEF U
        <5> QED BY <5>1, <5>2 DEF W
      <4>6. c.size \in Nat /\ Total(Q \ {x}) = Total(R \ {c})
        BY <1>1, <4>4
      <4> HIDE DEF Q, R, x
      <4>7. Total(T) = x.size + (c.size + Total(R \ {c})) /\ Total(Q) = x.size + Total(R \ {c})
        BY <2>4, <4>1, <4>3, <4>6
      <4>8. Total(T) = c.size + Total(Q)
        BY <2>1, <4>5, <4>6, <4>7
      <4> QED BY <4>8 DEF Q
    <3> QED BY <3>1, <3>2
  <2> QED BY <2>5, <2>6
<1> HIDE DEF N
<1>7. \A n \in Nat : n \in N
  BY <1>5, <1>6, NumberInduction
<1>8. U \in SUBSET U /\ b \in U /\ U \ {b} = S /\ S \in SUBSET U
  BY DEF U
<1>9. Total(U) = b.size + Total(U \ {b}) /\ Total(S) \in Nat
  BY <1>2, <1>7, <1>8 DEF N, U
<1> QED BY <1>8, <1>9 DEF U

-----------------------------------------------------------------------------
(* Sizes, entries of block lists, and records of arenas.                   *)

BlockSet == {b \in [at : Nat, size : Nat] : b.size >= Reserve}
RefSet == [at : Nat, size : {0}, to : Arena]
Listed == BlockSet \cup RefSet
AllocSet == [arena : Arena, at : Nat, size : Nat]
Record == [mem : [at : Nat, size : Nat], alloc : BOOLEAN, blocks : Seq(Listed),
           last_block_size : Nat, size_hint : Nat, space_allocated : Nat, ptr : Nat, end : Nat]

LEMMA Sizing ==
    /\ Align \in Nat \ {0} /\ Reserve \in Nat \ {0} /\ StateSize \in Nat \ {0}
    /\ RefReserve \in Nat \ {0} /\ UINT32 \in Nat \ {0} /\ FirstSize \in Nat
    /\ InitialHint \in Nat /\ HeapSize \in Nat /\ Slack \subseteq Nat /\ Sizes \subseteq Nat
    /\ InitialSize \in Nat /\ InitialSize >= StateSize /\ MaxBlockSizes \subseteq Nat
    /\ Initial \subseteq Arena
BY AllocAssumption

LEMMA Quotient ==
    ASSUME NEW n \in Nat, NEW d \in Nat \ {0}
    PROVE  n \div d \in Nat /\ d * (n \div d) <= n /\ n < d * (n \div d) + d
OBVIOUS

LEMMA QuotientsRise ==
    ASSUME NEW n \in Nat, NEW m \in Nat, n <= m, NEW d \in Nat \ {0}
    PROVE  n \div d <= m \div d
<1> DEFINE p == n \div d
           q == m \div d
<1>1. p \in Nat /\ q \in Nat /\ d * p <= n /\ m < d * q + d
  BY Quotient
<1> HIDE DEF p, q
<1>2. SUFFICES ASSUME p >= q + 1 PROVE FALSE
  BY <1>1 DEF p, q
<1>3. d * p >= d * (q + 1)
  BY <1>1, <1>2
<1>4. d * (q + 1) = d * q + d
  BY <1>1
<1>5. d * p \in Nat /\ d * q \in Nat
  BY <1>1
<1> QED BY <1>1, <1>3, <1>4, <1>5

\* A request takes whole units; a larger one takes no fewer.
LEMMA Spans ==
    /\ \A n \in Nat : AllocSpan(n) \in Nat
    /\ \A n, m \in Nat : n <= m => AllocSpan(n) <= AllocSpan(m)
    /\ AllocSpan(RefReserve) >= 1
<1>1. \A n \in Nat : n + Align - 1 \in Nat
  BY Sizing
<1>2. ASSUME NEW n \in Nat PROVE AllocSpan(n) \in Nat
  BY <1>1, Sizing, Quotient DEF AllocSpan
<1>3. ASSUME NEW n \in Nat, NEW m \in Nat, n <= m PROVE AllocSpan(n) <= AllocSpan(m)
  <2>1. n + Align - 1 <= m + Align - 1
    BY <1>3, Sizing
  <2> QED BY <1>1, <2>1, Sizing, QuotientsRise DEF AllocSpan
<1>4. AllocSpan(RefReserve) >= 1
  <2>1. AllocSpan(1) <= AllocSpan(RefReserve)
    BY <1>3, Sizing
  <2>2. AllocSpan(1) = 1
    <3>1. AllocSpan(1) = Align \div Align
      BY Sizing DEF AllocSpan
    <3>2. Align \div Align = 1
      BY Sizing
    <3> QED BY <3>1, <3>2
  <2> QED BY <1>2, <2>1, <2>2, Sizing
<1> QED BY <1>2, <1>3, <1>4

LEMMA UnitsAre ==
    ASSUME NEW p \in Nat, NEW n \in Nat
    PROVE  /\ \A u : u \in Units(p, n) <=> u \in Nat /\ p <= u /\ u < p + n
           /\ n >= 1 => p \in Units(p, n)
BY DEF Units

LEMMA UnitsWithin ==
    ASSUME NEW p \in Nat, NEW n \in Nat, NEW q \in Nat, NEW m \in Nat, q <= p, p + n <= q + m
    PROVE  Units(p, n) \subseteq Units(q, m)
BY DEF Units

LEMMA Kinds ==
    ASSUME NEW b \in Listed
    PROVE  /\ b.at \in Nat /\ b.size \in Nat
           /\ IsRef(b) <=> b \in RefSet
           /\ ~ IsRef(b) <=> b \in BlockSet
           /\ b \in RefSet => b.to \in Arena
           /\ b \in BlockSet => b.size >= Reserve /\ b.size >= 1
BY Sizing DEF Listed, BlockSet, RefSet, IsRef

LEMMA NotNoArena == \A r \in Record : r # NoArena
<1> SUFFICES ASSUME NEW r \in Record, r = NoArena PROVE FALSE
  OBVIOUS
<1>1. "mem" \in DOMAIN r
  BY DEF Record
<1>2. DOMAIN r = {"at"}
  BY DEF NoArena
<1> QED BY <1>1, <1>2

-----------------------------------------------------------------------------
(* Lists.                                                                  *)

LEMMA Prepended ==
    ASSUME NEW s \in Seq(Listed), NEW b \in Listed, NEW t, t = <<b>> \o s
    PROVE  /\ t \in Seq(Listed) /\ Len(t) = Len(s) + 1 /\ DOMAIN t = 1..(Len(s) + 1) /\ t # <<>>
           /\ t[1] = b /\ \A i \in 1..Len(s) : t[i + 1] = s[i]
           /\ ToSet(t) = ToSet(s) \cup {b}
           /\ Last(t) = (IF s = <<>> THEN b ELSE Last(s))
<1>1. t \in Seq(Listed) /\ Len(t) = Len(s) + 1 /\ t # <<>>
  OBVIOUS
<1>2. DOMAIN t = 1..(Len(s) + 1) /\ DOMAIN s = 1..Len(s) /\ Len(s) \in Nat
  BY <1>1
<1>3. t[1] = b /\ \A i \in 1..Len(s) : t[i + 1] = s[i]
  OBVIOUS
<1>4. ToSet(t) = ToSet(s) \cup {b}
  <2>1. \A x : x \in ToSet(t) => x \in ToSet(s) \cup {b}
    <3> SUFFICES ASSUME NEW i \in 1..(Len(s) + 1) PROVE t[i] \in ToSet(s) \cup {b}
      BY <1>2 DEF ToSet
    <3>1. CASE i = 1
      BY <1>3, <3>1
    <3>2. CASE i # 1
      <4>1. i - 1 \in 1..Len(s) /\ (i - 1) + 1 = i
        BY <1>2, <3>2
      <4>2. t[i] = s[i - 1]
        BY <1>3, <4>1
      <4> QED BY <1>2, <4>1, <4>2 DEF ToSet
    <3> QED BY <3>1, <3>2
  <2>2. \A x \in ToSet(s) \cup {b} : x \in ToSet(t)
    <3>1. b \in ToSet(t)
      BY <1>2, <1>3 DEF ToSet
    <3>2. ASSUME NEW i \in 1..Len(s) PROVE s[i] \in ToSet(t)
      <4>1. i + 1 \in 1..(Len(s) + 1) /\ t[i + 1] = s[i]
        BY <1>2, <1>3
      <4> QED BY <1>2, <4>1 DEF ToSet
    <3> QED BY <1>2, <3>1, <3>2 DEF ToSet
  <2> QED BY <2>1, <2>2
<1>5. Last(t) = (IF s = <<>> THEN b ELSE Last(s))
  <2>1. CASE s = <<>>
    BY <1>1, <1>3, <2>1 DEF Last
  <2>2. CASE s # <<>>
    <3>1. Len(s) \in 1..Len(s)
      BY <1>2, <2>2
    <3> QED BY <1>1, <1>3, <2>2, <3>1 DEF Last
  <2> QED BY <2>1, <2>2
<1> QED BY <1>1, <1>2, <1>3, <1>4, <1>5

LEMMA TailOf ==
    ASSUME NEW s \in Seq(Listed), s # <<>>, NEW t, t = Tail(s)
    PROVE  /\ t \in Seq(Listed) /\ Len(t) = Len(s) - 1 /\ DOMAIN t = 1..Len(t) /\ Len(t) \in Nat
           /\ \A i \in 1..Len(t) : t[i] = s[i + 1]
           /\ Head(s) = s[1] /\ Head(s) \in Listed /\ 1 \in DOMAIN s
           /\ \A x : x \in ToSet(s) <=> x = Head(s) \/ x \in ToSet(t)
<1>1. /\ t \in Seq(Listed) /\ Len(t) = Len(s) - 1 /\ Len(t) \in Nat /\ DOMAIN t = 1..Len(t)
      /\ DOMAIN s = 1..Len(s) /\ Len(s) \in Nat
      /\ \A i \in 1..Len(t) : t[i] = s[i + 1]
  OBVIOUS
<1>2. Head(s) = s[1] /\ 1 \in DOMAIN s /\ Head(s) \in Listed
  BY <1>1
<1>3. ASSUME NEW x PROVE x \in ToSet(s) <=> x = Head(s) \/ x \in ToSet(t)
  <2>1. ASSUME NEW i \in 1..Len(s) PROVE s[i] = Head(s) \/ s[i] \in ToSet(t)
    <3>1. CASE i = 1
      BY <1>2, <3>1
    <3>2. CASE i # 1
      <4>1. i - 1 \in 1..Len(t) /\ (i - 1) + 1 = i
        BY <1>1, <3>2
      <4>2. t[i - 1] = s[i]
        BY <1>1, <4>1
      <4> QED BY <1>1, <4>1, <4>2 DEF ToSet
    <3> QED BY <3>1, <3>2
  <2>2. Head(s) \in ToSet(s)
    BY <1>2 DEF ToSet
  <2>3. ASSUME NEW i \in 1..Len(t) PROVE t[i] \in ToSet(s)
    <3>1. i + 1 \in 1..Len(s) /\ t[i] = s[i + 1]
      BY <1>1
    <3> QED BY <1>1, <3>1 DEF ToSet
  <2> QED BY <1>1, <2>1, <2>2, <2>3 DEF ToSet
<1> QED BY <1>1, <1>2, <1>3

-----------------------------------------------------------------------------
(* The memory of one arena, as sets of units.                              *)

PlaceOf(x) == Units(x.at, AllocSpan(x.size))
RefPlace(b) == Units(b.at, AllocSpan(RefReserve))
BlocksIn(s) == {b \in ToSet(s) : ~ IsRef(b)}
RefsIn(s) == {b \in ToSet(s) : IsRef(b)}
FreeOf(r) == Units(r.ptr, ArenaHas(r))
Usual(b) == BlockUnits(b) \ Units(b.at, Reserve)

StateOf(r) == IF HasInitialBlock(r) THEN Units(r.mem.at, StateSize)
              ELSE Units(Last(r.blocks).at + Reserve, StateSize)

\* Everything that belongs to the arena, and what it may hand out.
Whole(r) == BlockUnits(r.mem) \cup UNION {BlockUnits(b) : b \in BlocksIn(r.blocks)}
Ground(r) == (BlockUnits(r.mem) \cup UNION {Usual(b) : b \in BlocksIn(r.blocks)}) \ StateOf(r)

\* The upb_ArenaState has its place in the caller's memory or the first block.
Home(r) == IF HasInitialBlock(r) THEN r.mem.size >= StateSize
           ELSE /\ r.blocks # <<>> /\ Last(r.blocks) \in BlockSet
                /\ Last(r.blocks).size >= Reserve + StateSize

\* Allocations X, references R and free units f lie apart in G.
Tidy(X, R, f, G) ==
    /\ f \subseteq G
    /\ \A x \in X : PlaceOf(x) \subseteq G /\ PlaceOf(x) \cap f = {}
    /\ \A b \in R : RefPlace(b) \subseteq G /\ RefPlace(b) \cap f = {}
    /\ \A x, y \in X : x # y => PlaceOf(x) \cap PlaceOf(y) = {}
    /\ \A b, c \in R : b # c => RefPlace(b) \cap RefPlace(c) = {}
    /\ \A x \in X, b \in R : PlaceOf(x) \cap RefPlace(b) = {}

\* Units n and f2 are free, or given up by the allocations D, or new ground.
Available(n, f2, X, D, f, G, G2) ==
    /\ G \subseteq G2 /\ D \subseteq X /\ n \cap f2 = {}
    /\ n \subseteq G2 /\ f2 \subseteq G2
    /\ \A u \in n \cup f2 : u \in f \/ u \notin G \/ \E y \in D : u \in PlaceOf(y)

LEMMA Apart ==
    ASSUME NEW X, NEW R, NEW f, NEW G, Tidy(X, R, f, G), NEW D, NEW n, NEW f2, NEW G2,
           Available(n, f2, X, D, f, G, G2)
    PROVE  /\ \A x \in X \ D : PlaceOf(x) \subseteq G2 /\ PlaceOf(x) \cap n = {} /\ PlaceOf(x) \cap f2 = {}
           /\ \A b \in R : RefPlace(b) \subseteq G2 /\ RefPlace(b) \cap n = {} /\ RefPlace(b) \cap f2 = {}
<1>1. ASSUME NEW x \in X \ D, NEW u \in PlaceOf(x) PROVE u \in G2 /\ u \notin n /\ u \notin f2
  <2>1. u \in G /\ u \notin f /\ \A y \in D : u \notin PlaceOf(y)
    BY DEF Tidy, Available
  <2> QED BY <2>1 DEF Available
<1>2. ASSUME NEW b \in R, NEW u \in RefPlace(b) PROVE u \in G2 /\ u \notin n /\ u \notin f2
  <2>1. u \in G /\ u \notin f /\ \A y \in D : u \notin PlaceOf(y)
    BY DEF Tidy, Available
  <2> QED BY <2>1 DEF Available
<1> QED BY <1>1, <1>2

LEMMA TidyAlloc ==
    ASSUME NEW X, NEW R, NEW f, NEW G, Tidy(X, R, f, G), NEW D, NEW x, NEW f2, NEW G2,
           Available(PlaceOf(x), f2, X, D, f, G, G2)
    PROVE  Tidy((X \ D) \cup {x}, R, f2, G2)
<1> DEFINE n == PlaceOf(x)
<1>1. /\ \A y \in X \ D : PlaceOf(y) \subseteq G2 /\ PlaceOf(y) \cap n = {} /\ PlaceOf(y) \cap f2 = {}
      /\ \A b \in R : RefPlace(b) \subseteq G2 /\ RefPlace(b) \cap n = {} /\ RefPlace(b) \cap f2 = {}
  BY Apart
<1>2. f2 \subseteq G2 /\ n \subseteq G2 /\ n \cap f2 = {}
  BY DEF Available
<1>3. /\ \A y, z \in X \ D : y # z => PlaceOf(y) \cap PlaceOf(z) = {}
      /\ \A b, c \in R : b # c => RefPlace(b) \cap RefPlace(c) = {}
      /\ \A y \in X \ D, b \in R : PlaceOf(y) \cap RefPlace(b) = {}
  BY DEF Tidy
<1>4. \A y \in (X \ D) \cup {x} : y = x \/ y \in X \ D
  OBVIOUS
<1>5. \A y, z \in (X \ D) \cup {x} : y # z => PlaceOf(y) \cap PlaceOf(z) = {}
  <2> SUFFICES ASSUME NEW y \in (X \ D) \cup {x}, NEW z \in (X \ D) \cup {x}, y # z
               PROVE  PlaceOf(y) \cap PlaceOf(z) = {}
    OBVIOUS
  <2>1. CASE y = x
    <3>1. z \in X \ D
      BY <2>1
    <3> QED BY <1>1, <2>1, <3>1
  <2>2. CASE y # x /\ z = x
    <3>1. y \in X \ D
      BY <2>2
    <3> QED BY <1>1, <2>2, <3>1
  <2>3. CASE y # x /\ z # x
    BY <1>3, <2>3
  <2> QED BY <2>1, <2>2, <2>3
<1> QED BY <1>1, <1>2, <1>3, <1>4, <1>5 DEF Tidy

LEMMA TidyRef ==
    ASSUME NEW X, NEW R, NEW f, NEW G, Tidy(X, R, f, G), NEW b, NEW f2, NEW G2,
           Available(RefPlace(b), f2, X, {}, f, G, G2)
    PROVE  /\ Tidy(X, R \cup {b}, f2, G2)
           /\ \A c \in R : RefPlace(c) \cap RefPlace(b) = {}
<1> DEFINE n == RefPlace(b)
<1>1. /\ \A y \in X \ {} : PlaceOf(y) \subseteq G2 /\ PlaceOf(y) \cap n = {} /\ PlaceOf(y) \cap f2 = {}
      /\ \A c \in R : RefPlace(c) \subseteq G2 /\ RefPlace(c) \cap n = {} /\ RefPlace(c) \cap f2 = {}
  BY Apart
<1>2. f2 \subseteq G2 /\ n \subseteq G2 /\ n \cap f2 = {} /\ X \ {} = X
  BY DEF Available
<1>3. /\ \A y, z \in X : y # z => PlaceOf(y) \cap PlaceOf(z) = {}
      /\ \A c, d \in R : c # d => RefPlace(c) \cap RefPlace(d) = {}
      /\ \A y \in X, c \in R : PlaceOf(y) \cap RefPlace(c) = {}
  BY DEF Tidy
<1>4. \A c, d \in R \cup {b} : c # d => RefPlace(c) \cap RefPlace(d) = {}
  <2> SUFFICES ASSUME NEW c \in R \cup {b}, NEW d \in R \cup {b}, c # d
               PROVE  RefPlace(c) \cap RefPlace(d) = {}
    OBVIOUS
  <2>1. CASE c = b
    <3>1. d \in R
      BY <2>1
    <3> QED BY <1>1, <2>1, <3>1
  <2>2. CASE c # b /\ d = b
    <3>1. c \in R
      BY <2>2
    <3> QED BY <1>1, <2>2, <3>1
  <2>3. CASE c # b /\ d # b
    BY <1>3, <2>3
  <2> QED BY <2>1, <2>2, <2>3
<1>5. \A y \in X, c \in R \cup {b} : PlaceOf(y) \cap RefPlace(c) = {}
  BY <1>1, <1>2, <1>3
<1> QED BY <1>1, <1>2, <1>3, <1>4, <1>5 DEF Tidy

-----------------------------------------------------------------------------
(* An arena that grew by the blocks `got'.                                 *)

Grown(r2, r, got) ==
    /\ r2 \in Record /\ r2.mem = r.mem
    /\ \/ got = {} /\ r2.blocks = r.blocks /\ r2.space_allocated = r.space_allocated
       \/ \E b \in BlockSet : /\ got = {b} /\ r2.blocks = <<b>> \o r.blocks
                              /\ r2.space_allocated = r.space_allocated + b.size

LEMMA InLists ==
    ASSUME NEW s \in Seq(Listed)
    PROVE  /\ \A b \in BlocksIn(s) : b \in BlockSet /\ b \in Listed
           /\ \A b \in RefsIn(s) : b \in RefSet /\ b \in Listed
           /\ \A i \in DOMAIN s : s[i] \in Listed
<1>1. \A i \in DOMAIN s : s[i] \in Listed
  OBVIOUS
<1>2. \A b \in ToSet(s) : b \in Listed
  BY <1>1 DEF ToSet
<1> QED BY <1>1, <1>2, Kinds DEF BlocksIn, RefsIn

LEMMA StateInside ==
    ASSUME NEW r \in Record, Home(r)
    PROVE  StateOf(r) \subseteq Whole(r) /\ Ground(r) \subseteq Whole(r)
<1>1. r.blocks \in Seq(Listed) /\ r.mem.at \in Nat /\ r.mem.size \in Nat
  BY DEF Record
<1>2. CASE HasInitialBlock(r)
  <2>1. StateOf(r) = Units(r.mem.at, StateSize) /\ r.mem.size >= StateSize
    BY <1>2 DEF StateOf, Home
  <2>2. Units(r.mem.at, StateSize) \subseteq Units(r.mem.at, r.mem.size)
    BY <1>1, <2>1, Sizing, UnitsWithin
  <2> QED BY <2>1, <2>2 DEF Whole, BlockUnits, Ground, Usual
<1>3. CASE ~ HasInitialBlock(r)
  <2> DEFINE b == Last(r.blocks)
  <2>1. /\ StateOf(r) = Units(b.at + Reserve, StateSize) /\ b.size >= Reserve + StateSize
        /\ r.blocks # <<>> /\ b \in BlockSet
    BY <1>3 DEF StateOf, Home
  <2>2. b \in BlocksIn(r.blocks)
    <3>1. Len(r.blocks) \in DOMAIN r.blocks
      BY <1>1, <2>1
    <3>2. b \in ToSet(r.blocks)
      BY <3>1 DEF ToSet, Last
    <3>3. ~ IsRef(b)
      BY <2>1, Kinds DEF Listed
    <3> QED BY <3>2, <3>3 DEF BlocksIn
  <2>3. b.at \in Nat /\ b.size \in Nat
    BY <2>1 DEF BlockSet
  <2> HIDE DEF b
  <2>4. Units(b.at + Reserve, StateSize) \subseteq Units(b.at, b.size)
    <3>1. b.at + Reserve \in Nat /\ StateSize \in Nat /\ b.at <= b.at + Reserve
      BY <2>3, Sizing
    <3>2. (b.at + Reserve) + StateSize <= b.at + b.size
      BY <2>1, <2>3, Sizing
    <3> QED BY <2>3, <3>1, <3>2, UnitsWithin
  <2>5. BlockUnits(b) \subseteq Whole(r)
    BY <2>2 DEF Whole
  <2> QED BY <2>1, <2>4, <2>5 DEF Whole, BlockUnits, Ground, Usual
<1> QED BY <1>2, <1>3

LEMMA GroundGrows ==
    ASSUME NEW r \in Record, Home(r), NEW r2, NEW got, Grown(r2, r, got),
           \A b \in got : BlockUnits(b) \cap Whole(r) = {}
    PROVE  /\ Home(r2) /\ Ground(r) \subseteq Ground(r2)
           /\ \A b \in got : Usual(b) \subseteq Ground(r2) /\ Usual(b) \cap Ground(r) = {}
           /\ RefsIn(r2.blocks) = RefsIn(r.blocks)
           /\ BlocksIn(r2.blocks) = BlocksIn(r.blocks) \cup got
<1>1. r.blocks \in Seq(Listed) /\ r2.mem = r.mem /\ (HasInitialBlock(r2) <=> HasInitialBlock(r))
  BY DEF Record, Grown, HasInitialBlock
<1>2. CASE got = {} /\ r2.blocks = r.blocks
  BY <1>1, <1>2 DEF Home, Ground, StateOf
<1>3. ASSUME NEW b \in BlockSet, got = {b}, r2.blocks = <<b>> \o r.blocks
      PROVE  /\ Home(r2) /\ Ground(r) \subseteq Ground(r2)
             /\ Usual(b) \subseteq Ground(r2) /\ Usual(b) \cap Ground(r) = {}
             /\ RefsIn(r2.blocks) = RefsIn(r.blocks)
             /\ BlocksIn(r2.blocks) = BlocksIn(r.blocks) \cup {b}
  <2>1. b \in Listed /\ ~ IsRef(b)
    BY Kinds DEF Listed
  <2>2. /\ ToSet(r2.blocks) = ToSet(r.blocks) \cup {b} /\ r2.blocks # <<>>
        /\ Last(r2.blocks) = IF r.blocks = <<>> THEN b ELSE Last(r.blocks)
    <3> DEFINE s == r.blocks
               t == r2.blocks
    <3>1. s \in Seq(Listed) /\ b \in Listed /\ t = <<b>> \o s
      BY <1>1, <1>3, <2>1
    <3> HIDE DEF s, t
    <3>2. ToSet(t) = ToSet(s) \cup {b} /\ t # <<>> /\ Last(t) = (IF s = <<>> THEN b ELSE Last(s))
      BY <3>1, Prepended, Zenon
    <3> QED BY <3>2 DEF s, t
  <2>3. /\ RefsIn(r2.blocks) = RefsIn(r.blocks)
        /\ BlocksIn(r2.blocks) = BlocksIn(r.blocks) \cup {b}
    BY <2>1, <2>2 DEF RefsIn, BlocksIn
  <2>4. StateOf(r2) = StateOf(r)
    BY <1>1, <2>2 DEF StateOf, Home
  <2>5. Home(r2)
    BY <1>1, <2>2 DEF Home
  <2>6. BlockUnits(b) \cap StateOf(r) = {} /\ BlockUnits(b) \cap Ground(r) = {}
    BY <1>3, StateInside
  <2>7. Usual(b) \subseteq BlockUnits(b)
    BY DEF Usual
  <2>8. Ground(r) \subseteq Ground(r2)
    BY <1>1, <2>3, <2>4 DEF Ground
  <2>9. Usual(b) \subseteq Ground(r2)
    BY <2>3, <2>4, <2>6, <2>7 DEF Ground
  <2> QED BY <2>3, <2>5, <2>6, <2>7, <2>8, <2>9
<1>4. \/ got = {} /\ r2.blocks = r.blocks
      \/ \E b \in BlockSet : got = {b} /\ r2.blocks = <<b>> \o r.blocks
  BY DEF Grown
<1> QED BY <1>2, <1>3, <1>4

-----------------------------------------------------------------------------
(* What an allocation may come to.                                         *)

\* A request of span units is served from the free space of r, or from a block
\* that none of the units U is part of; a switch to another block gains space.
Served(o, r, span, U) ==
    /\ o.p \in Nat /\ Grown(o.arena, r, o.got) /\ o.arena.ptr <= o.arena.end
    /\ \A b \in o.got : BlockUnits(b) \cap U = {}
    /\ Units(o.p, span) \cap FreeOf(o.arena) = {}
    /\ \A u \in Units(o.p, span) \cup FreeOf(o.arena) :
          u \in FreeOf(r) \/ \E b \in o.got : u \in Usual(b)
    /\ r.blocks # <<>> /\ o.arena.end # r.end => ArenaHas(o.arena) > ArenaHas(r)

Denied(o, r) == o.p = -1 /\ o.arena = r /\ o.got = {}

LEMMA Offers ==
    ASSUME NEW n \in Nat, n >= Reserve, NEW b \in upb_SizeReturningMalloc(n)
    PROVE  b \in BlockSet /\ b.size >= n /\ BlockUnits(b) \cap InUse = {}
<1>1. PICK x \in Slack : /\ Fitting(n + x) # {}
                         /\ b = [at |-> Min(Fitting(n + x)), size |-> n + x]
  BY DEF upb_SizeReturningMalloc
<1> DEFINE m == n + x
<1>2. m \in Nat /\ m >= n
  BY Sizing
<1> HIDE DEF m
<1>3. Fitting(m) \subseteq Nat
  BY DEF Fitting
<1>4. Min(Fitting(m)) \in Fitting(m)
  BY <1>1, <1>3, MinIsLeast DEF m
<1>5. Min(Fitting(m)) \in Nat /\ Units(Min(Fitting(m)), m) \cap InUse = {}
  BY <1>3, <1>4 DEF Fitting
<1>6. b = [at |-> Min(Fitting(m)), size |-> m]
  BY <1>1 DEF m
<1> QED BY <1>2, <1>5, <1>6, Sizing DEF BlockSet, BlockUnits

LEMMA Fields ==
    ASSUME NEW r \in Record
    PROVE  /\ r.mem \in [at : Nat, size : Nat] /\ r.alloc \in BOOLEAN /\ r.blocks \in Seq(Listed)
           /\ r.last_block_size \in Nat /\ r.size_hint \in Nat /\ r.space_allocated \in Nat
           /\ r.ptr \in Nat /\ r.end \in Nat
BY DEF Record

LEMMA AddBlockIs ==
    ASSUME NEW r \in Record, NEW b \in BlockSet, NEW s, s = AddBlock(r, b)
    PROVE  /\ s \in Record /\ s.mem = r.mem /\ s.blocks = <<b>> \o r.blocks /\ s.blocks # <<>>
           /\ s.space_allocated = r.space_allocated + b.size
           /\ s.ptr = r.ptr /\ s.end = r.end
<1>1. /\ s.mem = r.mem /\ s.blocks = <<b>> \o r.blocks
      /\ s.space_allocated = r.space_allocated + b.size /\ s.ptr = r.ptr /\ s.end = r.end
  BY DEF AddBlock, Record
<1>2. r.blocks \in Seq(Listed) /\ b \in Listed
  BY Fields DEF Listed
<1>3. s.blocks \in Seq(Listed) /\ s.blocks # <<>>
  BY <1>1, <1>2, Prepended
<1>4. s.space_allocated \in Nat
  BY <1>1, Fields DEF BlockSet
<1> QED BY <1>1, <1>3, <1>4 DEF AddBlock, Record

LEMMA Remainder == ASSUME NEW n \in Nat, NEW d \in Nat \ {0} PROVE n % d \in Nat
OBVIOUS

LEMMA InUsual ==
    ASSUME NEW b \in BlockSet, NEW u \in Nat, b.at + Reserve <= u, u < b.at + b.size
    PROVE  u \in Usual(b) /\ u \in BlockUnits(b)
BY Sizing DEF BlockSet, Usual, Units, BlockUnits

LEMMA DedicatedOutcome ==
    ASSUME NEW r \in Record, r.ptr <= r.end, NEW U, FreeOf(r) \subseteq U, NEW span \in Nat,
           max_block_size \in Nat,
           NEW b \in BlockSet, b.size >= Reserve + span, BlockUnits(b) \cap U = {},
           NEW o, o = Dedicated(AddBlock(r, b), span, b)
    PROVE  Served(o, r, span, U)
<1> DEFINE s == AddBlock(r, b)
<1>1. /\ s \in Record /\ s.mem = r.mem /\ s.blocks = <<b>> \o r.blocks /\ s.blocks # <<>>
      /\ s.space_allocated = r.space_allocated + b.size
      /\ s.ptr = r.ptr /\ s.end = r.end
  BY AddBlockIs
<1>2. o = Dedicated(s, span, b)
  OBVIOUS
<1> HIDE DEF s
<1>3. span \div 2 \in Nat /\ max_block_size \div 2 \in Nat /\ s.size_hint \in Nat
  BY <1>1, Fields, Quotient
<1> DEFINE h == Min({s.size_hint + (span \div 2), max_block_size \div 2})
<1>4. h \in Nat
  <2>1. s.size_hint + (span \div 2) \in Nat
    BY <1>3
  <2> QED BY <1>3, <2>1, MinOfTwo
<1>5. o = [arena |-> [s EXCEPT !.size_hint = h], p |-> b.at + Reserve, got |-> {b}, crash |-> FALSE]
  BY <1>2, Zenon DEF Dedicated
<1> HIDE DEF h
<1>6. o.arena = [s EXCEPT !.size_hint = h] /\ o.p = b.at + Reserve /\ o.got = {b}
  BY <1>5
<1>7. /\ o.arena \in Record /\ o.arena.mem = r.mem /\ o.arena.blocks = <<b>> \o r.blocks
      /\ o.arena.space_allocated = r.space_allocated + b.size
      /\ o.arena.ptr = r.ptr /\ o.arena.end = r.end
  BY <1>1, <1>4, <1>6 DEF Record
<1>8. Grown(o.arena, r, o.got)
  BY <1>6, <1>7 DEF Grown
<1>9. FreeOf(o.arena) = FreeOf(r)
  BY <1>7 DEF FreeOf, ArenaHas
<1>10. b.at \in Nat /\ b.size \in Nat /\ o.p \in Nat
  BY <1>6, Sizing DEF BlockSet
<1>11. ASSUME NEW u \in Units(o.p, span) PROVE u \in Usual(b) /\ u \notin FreeOf(r)
  <2>1. u \in Nat /\ b.at + Reserve <= u /\ u < b.at + Reserve + span
    BY <1>6, <1>10, <1>11, Sizing DEF Units
  <2>2. u < b.at + b.size
    BY <1>10, <2>1, Sizing
  <2>3. u \in Usual(b) /\ u \in BlockUnits(b)
    BY <2>1, <2>2, InUsual
  <2> QED BY <2>3
<1> QED BY <1>6, <1>7, <1>8, <1>9, <1>10, <1>11 DEF Served

LEMMA SwitchedOutcome ==
    ASSUME NEW r \in Record, r.ptr <= r.end, NEW U, FreeOf(r) \subseteq U, NEW span \in Nat,
           NEW b \in BlockSet, b.size >= Reserve + span, BlockUnits(b) \cap U = {},
           r.blocks # <<>> => ArenaHas(r) < b.size - Reserve - span,
           NEW o, o = Switched(AddBlock(r, b), span, b)
    PROVE  Served(o, r, span, U)
<1> DEFINE s == AddBlock(r, b)
           z == Min({b.size, UINT32 - 1})
<1>1. /\ s \in Record /\ s.mem = r.mem /\ s.blocks = <<b>> \o r.blocks /\ s.blocks # <<>>
      /\ s.space_allocated = r.space_allocated + b.size
  BY AddBlockIs
<1>2. b.at \in Nat /\ b.size \in Nat
  BY DEF BlockSet
<1>3. z \in Nat
  <2>1. UINT32 - 1 \in Nat
    BY Sizing
  <2> QED BY <1>2, <2>1, MinOfTwo
<1>4. /\ o.arena = [[[s EXCEPT !.last_block_size = z, !.size_hint = z]
                       EXCEPT !.ptr = b.at + Reserve + 0, !.end = b.at + b.size]
                     EXCEPT !.ptr = @ + span]
      /\ o.got = {b}
      /\ o.p = [[s EXCEPT !.last_block_size = z, !.size_hint = z]
                       EXCEPT !.ptr = b.at + Reserve + 0, !.end = b.at + b.size].ptr
  BY DEF Switched, Bump, UseBlockInternal
<1> HIDE DEF s, z
<1> DEFINE q == b.at + Reserve
           e == b.at + b.size
<1>5. /\ q + 0 = q /\ q \in Nat /\ e \in Nat /\ q + span \in Nat
  BY <1>2, Sizing
<1> HIDE DEF q, e
<1>6. /\ o.arena = [[[s EXCEPT !.last_block_size = z, !.size_hint = z]
                       EXCEPT !.ptr = q, !.end = e]
                     EXCEPT !.ptr = @ + span]
      /\ o.p = [[s EXCEPT !.last_block_size = z, !.size_hint = z] EXCEPT !.ptr = q, !.end = e].ptr
  BY <1>4, <1>5 DEF q, e
<1>7. /\ o.arena \in Record /\ o.arena.mem = s.mem /\ o.arena.blocks = s.blocks
      /\ o.arena.space_allocated = s.space_allocated
      /\ o.arena.ptr = q + span /\ o.arena.end = e /\ o.p = q
  BY <1>1, <1>3, <1>5, <1>6 DEF Record
<1>8. /\ o.arena \in Record /\ o.arena.mem = r.mem /\ o.arena.blocks = <<b>> \o r.blocks
      /\ o.arena.space_allocated = r.space_allocated + b.size
      /\ o.arena.ptr = b.at + Reserve + span /\ o.arena.end = b.at + b.size
      /\ o.p = b.at + Reserve
  BY <1>1, <1>7 DEF q, e
<1>9. Grown(o.arena, r, o.got)
  BY <1>4, <1>8 DEF Grown
<1>10. ArenaHas(o.arena) = b.size - Reserve - span /\ o.arena.ptr <= o.arena.end /\ o.p \in Nat
  BY <1>2, <1>8, Sizing DEF ArenaHas
<1>11. ASSUME NEW u \in Units(o.p, span) PROVE u \in Usual(b) /\ u \notin FreeOf(o.arena)
  <2>1. u \in Nat /\ b.at + Reserve <= u /\ u < b.at + Reserve + span
    BY <1>2, <1>8, <1>11, Sizing DEF Units
  <2>2. u < b.at + b.size
    BY <1>2, <2>1, Sizing
  <2>3. u \notin FreeOf(o.arena)
    BY <1>2, <1>8, <2>1, Sizing DEF FreeOf, Units
  <2> QED BY <2>1, <2>2, <2>3, InUsual
<1>12. ASSUME NEW u \in FreeOf(o.arena) PROVE u \in Usual(b)
  <2>1. u \in Nat /\ b.at + Reserve + span <= u /\ u < b.at + b.size
    <3> DEFINE p == o.arena.ptr
               k == ArenaHas(o.arena)
    <3>1. u \in Units(p, k) /\ p = b.at + Reserve + span /\ k = b.size - Reserve - span
      BY <1>8, <1>10, <1>12 DEF FreeOf
    <3>2. p \in Nat /\ k \in Nat /\ p + k = b.at + b.size
      BY <1>2, <3>1, Sizing
    <3> HIDE DEF p, k
    <3>3. u \in Nat /\ p <= u /\ u < p + k
      BY <3>1, <3>2, UnitsAre
    <3> QED BY <3>1, <3>2, <3>3
  <2>2. b.at + Reserve <= u
    BY <1>2, <2>1, Sizing
  <2> QED BY <2>1, <2>2, InUsual
<1> QED BY <1>4, <1>9, <1>10, <1>11, <1>12 DEF Served

LEMMA BumpOutcome ==
    ASSUME NEW r \in Record, NEW span \in Nat, ArenaHas(r) >= span, NEW U,
           NEW o, o = Bump(r, span, {})
    PROVE  Served(o, r, span, U)
<1>1. r.ptr \in Nat /\ r.end \in Nat /\ r.ptr + span <= r.end
  BY Fields DEF ArenaHas
<1>2. o.arena = [r EXCEPT !.ptr = r.ptr + span] /\ o.got = {} /\ o.p = r.ptr
  BY DEF Bump
<1>3. /\ o.arena \in Record /\ o.arena.mem = r.mem /\ o.arena.blocks = r.blocks
      /\ o.arena.space_allocated = r.space_allocated
      /\ o.arena.ptr = r.ptr + span /\ o.arena.end = r.end
  BY <1>1, <1>2 DEF Record
<1>4. Grown(o.arena, r, o.got)
  BY <1>2, <1>3 DEF Grown
<1>5. ASSUME NEW u \in Units(o.p, span) PROVE u \in FreeOf(r) /\ u \notin FreeOf(o.arena)
  BY <1>1, <1>2, <1>3, <1>5 DEF Units, FreeOf, ArenaHas
<1>6. ASSUME NEW u \in FreeOf(o.arena) PROVE u \in FreeOf(r)
  BY <1>1, <1>2, <1>3, <1>6 DEF Units, FreeOf, ArenaHas
<1> QED BY <1>1, <1>2, <1>3, <1>4, <1>5, <1>6 DEF Served

LEMMA SlowOutcomes ==
    ASSUME NEW r \in Record, r.ptr <= r.end, FreeOf(r) \subseteq InUse, NEW span \in Nat,
           max_block_size \in Nat, NEW o \in SlowMalloc(r, span)
    PROVE  Denied(o, r) \/ Served(o, r, span, InUse)
<1> DEFINE doubled == Min({(2 * r.last_block_size) % UINT32, max_block_size})
           hinted == Min({(2 * r.size_hint) % UINT32, max_block_size})
           regular == IF span + Reserve > doubled THEN hinted ELSE doubled
           one_off == \/ span + Reserve > regular
                      \/ WouldReduceFreeSpace(r, span, regular)
           block_size == IF one_off THEN span + Reserve ELSE regular
<1>1. \/ o = Refused(r)
      \/ o = Crash(r)
      \/ \E b \in upb_SizeReturningMalloc(block_size) :
            o = IF one_off /\ WouldReduceFreeSpace(AddBlock(r, b), span, b.size)
                   THEN Dedicated(AddBlock(r, b), span, b)
                   ELSE Switched(AddBlock(r, b), span, b)
  BY Zenon DEF SlowMalloc
<1>2. doubled \in Nat /\ hinted \in Nat
  <2>1. 2 * r.last_block_size \in Nat /\ 2 * r.size_hint \in Nat
    BY Fields
  <2>2. (2 * r.last_block_size) % UINT32 \in Nat /\ (2 * r.size_hint) % UINT32 \in Nat
    BY <2>1, Remainder, Sizing
  <2> QED BY <2>2, MinOfTwo
<1> HIDE DEF doubled, hinted
<1>3. regular \in Nat
  BY <1>2
<1> HIDE DEF regular
<1>4. block_size \in Nat /\ block_size >= span + Reserve /\ block_size >= Reserve
  BY <1>3, Sizing
<1> HIDE DEF block_size
<1>5. CASE o = Refused(r) \/ o = Crash(r)
  BY <1>5 DEF Refused, Crash, Denied
<1>6. ASSUME NEW b \in upb_SizeReturningMalloc(block_size),
             o = IF one_off /\ WouldReduceFreeSpace(AddBlock(r, b), span, b.size)
                    THEN Dedicated(AddBlock(r, b), span, b)
                    ELSE Switched(AddBlock(r, b), span, b)
      PROVE  Served(o, r, span, InUse)
  <2>1. b \in BlockSet /\ b.size >= block_size /\ BlockUnits(b) \cap InUse = {}
    BY <1>4, Offers
  <2>2. b.size \in Nat /\ b.size >= Reserve + span
    BY <1>4, <2>1, Sizing DEF BlockSet
  <2>3. CASE one_off /\ WouldReduceFreeSpace(AddBlock(r, b), span, b.size)
    <3>1. o = Dedicated(AddBlock(r, b), span, b)
      BY <1>6, <2>3
    <3> QED BY <2>1, <2>2, <3>1, DedicatedOutcome
  <2>4. CASE ~(one_off /\ WouldReduceFreeSpace(AddBlock(r, b), span, b.size))
    <3>1. o = Switched(AddBlock(r, b), span, b)
      BY <1>6, <2>4
    <3>2. r.blocks # <<>> => ArenaHas(r) < b.size - Reserve - span
      <4> SUFFICES ASSUME r.blocks # <<>> PROVE ArenaHas(r) < b.size - Reserve - span
        OBVIOUS
      <4>1. ArenaHas(r) \in Nat
        BY Fields DEF ArenaHas
      <4>2. CASE one_off
        <5> DEFINE s == AddBlock(r, b)
        <5>1. s.blocks # <<>> /\ s.ptr = r.ptr /\ s.end = r.end
          BY <2>1, AddBlockIs
        <5>2. ~ WouldReduceFreeSpace(s, span, b.size)
          BY <2>4, <4>2
        <5> HIDE DEF s
        <5>3. ArenaHas(s) = ArenaHas(r)
          BY <5>1 DEF ArenaHas
        <5> QED BY <2>2, <4>1, <5>1, <5>2, <5>3, Sizing DEF WouldReduceFreeSpace
      <4>3. CASE ~ one_off
        <5>1. ~ WouldReduceFreeSpace(r, span, regular) /\ block_size = regular
          BY <4>3 DEF block_size
        <5>2. ArenaHas(r) < regular - Reserve - span
          BY <1>3, <4>1, <5>1, Sizing DEF WouldReduceFreeSpace
        <5> QED BY <1>3, <2>1, <2>2, <4>1, <5>1, <5>2, Sizing
      <4> QED BY <4>2, <4>3
    <3> QED BY <2>1, <2>2, <3>1, <3>2, SwitchedOutcome
  <2> QED BY <2>3, <2>4
<1> HIDE DEF one_off
<1> QED BY <1>1, <1>5, <1>6

LEMMA MallocOutcomes ==
    ASSUME NEW r \in Record, r.ptr <= r.end, FreeOf(r) \subseteq InUse, NEW n \in Nat,
           max_block_size \in Nat, NEW o \in Malloc(r, n)
    PROVE  Denied(o, r) \/ Served(o, r, AllocSpan(n), InUse)
<1>1. AllocSpan(n) \in Nat
  BY Spans
<1>2. CASE ArenaHas(r) < AllocSpan(n)
  <2>1. o \in SlowMalloc(r, AllocSpan(n))
    BY <1>2 DEF Malloc
  <2> QED BY <1>1, <2>1, SlowOutcomes
<1>3. CASE ~(ArenaHas(r) < AllocSpan(n))
  <2>1. o = Bump(r, AllocSpan(n), {})
    BY <1>3 DEF Malloc
  <2>2. ArenaHas(r) >= AllocSpan(n)
    BY <1>1, <1>3, Fields DEF ArenaHas
  <2> QED BY <1>1, <2>1, <2>2, BumpOutcome
<1> QED BY <1>2, <1>3

-----------------------------------------------------------------------------
(* One arena: what an allocation, a resize and a reference do to it.       *)

\* An arena r with the allocations X.
RecordOK(r, X) ==
    /\ r \in Record /\ Home(r) /\ r.ptr <= r.end
    /\ Tidy(X, RefsIn(r.blocks), FreeOf(r), Ground(r))
    /\ r.space_allocated = Total(BlocksIn(r.blocks))

\* ... all of whose memory is among the units U.
Backed(r, X, U) == RecordOK(r, X) /\ Whole(r) \subseteq U

LEMMA BlocksFinite == ASSUME NEW s \in Seq(Listed) PROVE Sized(BlocksIn(s))
<1>1. s \in Surjection(DOMAIN s, ToSet(s))
  BY DEF Surjection, ToSet
<1>2. IsFiniteSet(DOMAIN s)
  <2>1. DOMAIN s = 1..Len(s) /\ Len(s) \in Int
    OBVIOUS
  <2> QED BY <2>1, FS_Interval
<1>3. IsFiniteSet(ToSet(s))
  BY <1>1, <1>2, FS_Surjection
<1>4. BlocksIn(s) \in SUBSET ToSet(s)
  BY DEF BlocksIn
<1>5. IsFiniteSet(BlocksIn(s))
  BY <1>3, <1>4, FS_Subset
<1> QED BY <1>5, InLists DEF Sized, BlockSet

LEMMA BlockNotEmpty == ASSUME NEW b \in BlockSet PROVE b.at \in BlockUnits(b)
BY Sizing DEF BlockSet, BlockUnits, Units

LEMMA FreeInside ==
    ASSUME NEW r, NEW X, RecordOK(r, X)
    PROVE  FreeOf(r) \subseteq Whole(r)
BY StateInside DEF RecordOK, Tidy

LEMMA GrownSpace ==
    ASSUME NEW r \in Record, r.space_allocated = Total(BlocksIn(r.blocks)), NEW r2, NEW got,
           Grown(r2, r, got), \A b \in got : BlockUnits(b) \cap Whole(r) = {},
           BlocksIn(r2.blocks) = BlocksIn(r.blocks) \cup got
    PROVE  r2.space_allocated = Total(BlocksIn(r2.blocks))
<1>1. CASE got = {} /\ r2.space_allocated = r.space_allocated
  BY <1>1
<1>2. ASSUME NEW b \in BlockSet, got = {b}, r2.space_allocated = r.space_allocated + b.size
      PROVE  r2.space_allocated = Total(BlocksIn(r2.blocks))
  <2> DEFINE S == BlocksIn(r.blocks)
  <2>1. Sized(S)
    BY BlocksFinite, Fields
  <2>2. b \notin S
    BY <1>2, BlockNotEmpty DEF Whole
  <2>3. b.size \in Nat /\ r2.space_allocated = Total(S) + b.size /\ BlocksIn(r2.blocks) = S \cup {b}
    BY <1>2 DEF BlockSet
  <2> HIDE DEF S
  <2>4. Total(S \cup {b}) = b.size + Total(S) /\ Total(S) \in Nat
    BY <2>1, <2>2, <2>3, TotalAdd
  <2>5. Total(S) + b.size = Total(S \cup {b})
    BY <2>3, <2>4
  <2> QED BY <2>3, <2>5, Zenon
<1> QED BY <1>1, <1>2 DEF Grown

\* A served request finds its place beside everything else.
LEMMA ServedAvailable ==
    ASSUME NEW r, NEW X, NEW U, Backed(r, X, U), NEW o, NEW span,
           Served(o, r, span, U), NEW D, D \subseteq X
    PROVE  /\ Available(Units(o.p, span), FreeOf(o.arena), X, D, FreeOf(r), Ground(r), Ground(o.arena))
           /\ o.arena \in Record /\ Home(o.arena) /\ o.arena.ptr <= o.arena.end
           /\ RefsIn(o.arena.blocks) = RefsIn(r.blocks)
           /\ o.arena.space_allocated = Total(BlocksIn(o.arena.blocks))
<1> USE DEF Backed
<1> DEFINE r2 == o.arena
           got == o.got
           n == Units(o.p, span)
<1>1. Grown(r2, r, got) /\ r2.ptr <= r2.end /\ \A b \in got : BlockUnits(b) \cap Whole(r) = {}
  BY DEF Served
<1>2. n \cap FreeOf(r2) = {} /\ \A u \in n \cup FreeOf(r2) : u \in FreeOf(r) \/ \E b \in got : u \in Usual(b)
  BY DEF Served
<1>3. r \in Record /\ Home(r) /\ FreeOf(r) \subseteq Ground(r) /\ r.space_allocated = Total(BlocksIn(r.blocks))
  BY DEF RecordOK, Tidy
<1> HIDE DEF r2, got, n
<1>4. /\ Home(r2) /\ Ground(r) \subseteq Ground(r2)
      /\ \A b \in got : Usual(b) \subseteq Ground(r2) /\ Usual(b) \cap Ground(r) = {}
      /\ RefsIn(r2.blocks) = RefsIn(r.blocks)
      /\ BlocksIn(r2.blocks) = BlocksIn(r.blocks) \cup got
  BY <1>1, <1>3, GroundGrows
<1>5. r2.space_allocated = Total(BlocksIn(r2.blocks))
  BY <1>1, <1>3, <1>4, GrownSpace
<1>6. Available(n, FreeOf(r2), X, D, FreeOf(r), Ground(r), Ground(r2))
  BY <1>2, <1>3, <1>4 DEF Available
<1>7. r2 \in Record
  BY <1>1 DEF Grown
<1> QED BY <1>1, <1>4, <1>5, <1>6, <1>7 DEF r2, n

LEMMA ServedOK ==
    ASSUME NEW r, NEW X, NEW U, Backed(r, X, U), NEW o, NEW span,
           Served(o, r, span, U), NEW D, D \subseteq X, NEW x, PlaceOf(x) = Units(o.p, span)
    PROVE  RecordOK(o.arena, (X \ D) \cup {x})
<1> USE DEF Backed
<1>1. /\ Available(PlaceOf(x), FreeOf(o.arena), X, D, FreeOf(r), Ground(r), Ground(o.arena))
      /\ o.arena \in Record /\ Home(o.arena) /\ o.arena.ptr <= o.arena.end
      /\ RefsIn(o.arena.blocks) = RefsIn(r.blocks)
      /\ o.arena.space_allocated = Total(BlocksIn(o.arena.blocks))
  BY ServedAvailable
<1>2. Tidy(X, RefsIn(r.blocks), FreeOf(r), Ground(r))
  BY DEF RecordOK
<1>3. Tidy((X \ D) \cup {x}, RefsIn(r.blocks), FreeOf(o.arena), Ground(o.arena))
  BY <1>1, <1>2, TidyAlloc
<1> QED BY <1>1, <1>3 DEF RecordOK

WithRef(r, b) == [r EXCEPT !.blocks = <<b>> \o @]

\* A reference takes a place like an allocation, and joins the list.
RefGiven(r, X, U, o, to, b, r2) ==
    /\ Backed(r, X, U) /\ Served(o, r, AllocSpan(RefReserve), U)
    /\ to \in Arena /\ b = RefTo(o.p, to) /\ r2 = WithRef(o.arena, b)

RefTaken(r, X, o, b, r2) ==
    /\ RecordOK(r2, X) /\ r2.mem = r.mem /\ b \in RefSet /\ r2.blocks = <<b>> \o o.arena.blocks
    /\ b \notin RefsIn(o.arena.blocks) /\ RefPlace(b) \subseteq Whole(o.arena)
    /\ r2.ptr = o.arena.ptr /\ r2.end = o.arena.end

LEMMA RefOK ==
    ASSUME NEW r, NEW X, NEW U, NEW o, NEW to, NEW b, NEW r2, RefGiven(r, X, U, o, to, b, r2)
    PROVE  RefTaken(r, X, o, b, r2)
<1> USE DEF Backed
<1>1. /\ Backed(r, X, U) /\ Served(o, r, AllocSpan(RefReserve), U)
      /\ to \in Arena /\ b = RefTo(o.p, to) /\ r2 = WithRef(o.arena, b)
  BY DEF RefGiven
<1> USE <1>1
<1> DEFINE s == o.arena
           f2 == FreeOf(s)
<1>2. o.p \in Nat /\ s.mem = r.mem
  BY DEF Served, Grown
<1>3. b \in RefSet /\ b.at = o.p /\ IsRef(b) /\ b \in Listed
  BY <1>2 DEF RefTo, RefSet, IsRef, Listed
<1>4. RefPlace(b) = Units(o.p, AllocSpan(RefReserve))
  BY <1>3 DEF RefPlace
<1>5. {} \subseteq X
  OBVIOUS
<1>6. /\ Available(RefPlace(b), f2, X, {}, FreeOf(r), Ground(r), Ground(s))
      /\ s \in Record /\ Home(s) /\ s.ptr <= s.end
      /\ RefsIn(s.blocks) = RefsIn(r.blocks)
      /\ s.space_allocated = Total(BlocksIn(s.blocks))
  BY <1>4, <1>5, ServedAvailable
<1>7. /\ Tidy(X, RefsIn(r.blocks) \cup {b}, f2, Ground(s))
      /\ \A c \in RefsIn(r.blocks) : RefPlace(c) \cap RefPlace(b) = {}
  <2>1. Tidy(X, RefsIn(r.blocks), FreeOf(r), Ground(r))
    BY DEF RecordOK
  <2> HIDE DEF f2, s
  <2> QED BY <1>6, <2>1, TidyRef
<1>8. r2 = [s EXCEPT !.blocks = <<b>> \o s.blocks]
  BY DEF WithRef
<1> HIDE DEF s, f2
<1>9. r2.blocks = <<b>> \o s.blocks /\ s.blocks \in Seq(Listed)
  BY <1>6, <1>8 DEF Record
<1>10. /\ r2.blocks \in Seq(Listed) /\ ToSet(r2.blocks) = ToSet(s.blocks) \cup {b} /\ r2.blocks # <<>>
       /\ Last(r2.blocks) = (IF s.blocks = <<>> THEN b ELSE Last(s.blocks))
  <2> DEFINE bs == s.blocks
             bs2 == r2.blocks
  <2>1. bs \in Seq(Listed) /\ b \in Listed /\ bs2 = <<b>> \o bs
    BY <1>3, <1>9
  <2> HIDE DEF bs, bs2
  <2>2. /\ bs2 \in Seq(Listed) /\ ToSet(bs2) = ToSet(bs) \cup {b} /\ bs2 # <<>>
        /\ Last(bs2) = (IF bs = <<>> THEN b ELSE Last(bs))
    BY <2>1, Prepended
  <2> QED BY <2>2 DEF bs, bs2
<1>11. /\ r2 \in Record /\ r2.mem = s.mem /\ r2.ptr = s.ptr /\ r2.end = s.end
       /\ r2.space_allocated = s.space_allocated
  BY <1>6, <1>8, <1>9, <1>10 DEF Record
<1>12. /\ RefsIn(r2.blocks) = RefsIn(s.blocks) \cup {b}
       /\ BlocksIn(r2.blocks) = BlocksIn(s.blocks)
  BY <1>3, <1>10 DEF RefsIn, BlocksIn
<1>13. (HasInitialBlock(r2) <=> HasInitialBlock(s)) /\ (~ HasInitialBlock(s) => s.blocks # <<>>)
  BY <1>6, <1>11 DEF HasInitialBlock, Home
<1>14. Home(r2) /\ StateOf(r2) = StateOf(s)
  BY <1>6, <1>10, <1>11, <1>13 DEF Home, StateOf
<1>15. Ground(r2) = Ground(s) /\ FreeOf(r2) = f2
  BY <1>11, <1>12, <1>14 DEF Ground, FreeOf, ArenaHas, f2
<1>16. RecordOK(r2, X)
  BY <1>6, <1>7, <1>11, <1>12, <1>14, <1>15 DEF RecordOK
<1>17. b \notin RefsIn(s.blocks)
  <2>1. b.at \in RefPlace(b)
    BY <1>2, <1>3, Spans, UnitsAre, Sizing DEF RefPlace
  <2> QED BY <1>6, <1>7, <2>1
<1>18. RefPlace(b) \subseteq Whole(s)
  BY <1>6, StateInside DEF Available
<1> QED BY <1>2, <1>3, <1>9, <1>11, <1>16, <1>17, <1>18 DEF s, RefTaken

\* Resizing in place.
LEMMA ResizedOK ==
    ASSUME NEW r, NEW X, RecordOK(r, X), X \subseteq AllocSet, NEW x \in X, NEW n \in Nat,
           WasLastAllocFromCurrentBlock(r, x), ArenaHas(r) >= AllocSpan(n) - AllocSpan(x.size),
           NEW y, y.at = x.at, y.size = n, NEW r2, r2 = Resized(r, x, n)
    PROVE  /\ RecordOK(r2, (X \ {x}) \cup {y})
           /\ r2.mem = r.mem /\ r2.blocks = r.blocks /\ r2.end = r.end
<1> DEFINE k == AllocSpan(n)
           m == AllocSpan(x.size)
           d == {x}
<1>1. k \in Nat /\ m \in Nat /\ x.at \in Nat /\ x.size \in Nat
  BY Spans DEF AllocSet
<1>2. r \in Record /\ r.ptr \in Nat /\ r.end \in Nat /\ r.ptr <= r.end /\ x.at + m = r.ptr /\ r.ptr + k - m <= r.end
  BY <1>1, Fields DEF RecordOK, WasLastAllocFromCurrentBlock, ArenaHas
<1>3. r2 = [r EXCEPT !.ptr = r.ptr + k - m]
  BY DEF Resized
<1>4. PlaceOf(x) = Units(x.at, m) /\ PlaceOf(y) = Units(x.at, k)
  BY DEF PlaceOf
<1> HIDE DEF k, m, d
<1>5. r.ptr + k - m = x.at + k /\ x.at + k \in Nat
  BY <1>1, <1>2
<1>6. /\ r2 \in Record /\ r2.mem = r.mem /\ r2.blocks = r.blocks /\ r2.end = r.end
      /\ r2.ptr = x.at + k /\ r2.space_allocated = r.space_allocated
  BY <1>2, <1>3, <1>5 DEF Record
<1>7. Home(r2) /\ Ground(r2) = Ground(r)
  BY <1>6 DEF RecordOK, Home, Ground, StateOf, HasInitialBlock
<1>8. Tidy(X, RefsIn(r.blocks), FreeOf(r), Ground(r))
  BY DEF RecordOK
<1>9. /\ \A u : u \in FreeOf(r) <=> u \in Nat /\ x.at + m <= u /\ u < r.end
      /\ \A u : u \in FreeOf(r2) <=> u \in Nat /\ x.at + k <= u /\ u < r.end
      /\ \A u : u \in PlaceOf(y) <=> u \in Nat /\ x.at <= u /\ u < x.at + k
      /\ \A u : u \in PlaceOf(x) <=> u \in Nat /\ x.at <= u /\ u < x.at + m
  <2>1. \A u : u \in FreeOf(r) <=> u \in Nat /\ x.at + m <= u /\ u < r.end
    BY <1>1, <1>2 DEF FreeOf, ArenaHas, Units
  <2>2. \A u : u \in FreeOf(r2) <=> u \in Nat /\ x.at + k <= u /\ u < r.end
    <3>1. FreeOf(r2) = Units(x.at + k, r.end - (x.at + k))
      BY <1>6 DEF FreeOf, ArenaHas
    <3> DEFINE q == x.at + k
    <3>2. q \in Nat /\ r.end \in Nat
      BY <1>2, <1>5
    <3> HIDE DEF q
    <3>3. \A u : u \in Units(q, r.end - q) <=> u \in Nat /\ q <= u /\ u < r.end
      BY <3>2 DEF Units
    <3> QED BY <3>1, <3>3 DEF q
  <2> QED BY <1>1, <1>4, <2>1, <2>2, UnitsAre
<1>10. \A u \in PlaceOf(y) \cup FreeOf(r2) : u \in FreeOf(r) \/ u \in PlaceOf(x)
  BY <1>1, <1>2, <1>5, <1>9
<1>11. PlaceOf(y) \cap FreeOf(r2) = {}
  BY <1>1, <1>9
<1>12. PlaceOf(x) \subseteq Ground(r) /\ FreeOf(r) \subseteq Ground(r)
  BY <1>8 DEF Tidy
<1>13. Available(PlaceOf(y), FreeOf(r2), X, d, FreeOf(r), Ground(r), Ground(r2))
  <2>1. PlaceOf(y) \subseteq Ground(r2) /\ FreeOf(r2) \subseteq Ground(r2)
    BY <1>7, <1>10, <1>12
  <2>2. x \in d /\ d \subseteq X
    BY DEF d
  <2> QED BY <1>7, <1>10, <1>11, <2>1, <2>2 DEF Available
<1>14. Tidy((X \ d) \cup {y}, RefsIn(r.blocks), FreeOf(r2), Ground(r2))
  BY <1>8, <1>13, TidyAlloc
<1>15. r2.ptr <= r2.end
  BY <1>2, <1>5, <1>6
<1>16. r2.space_allocated = Total(BlocksIn(r2.blocks))
  BY <1>6 DEF RecordOK
<1> QED BY <1>6, <1>7, <1>14, <1>15, <1>16 DEF RecordOK, d

LEMMA KeptOK ==
    ASSUME NEW r, NEW X, RecordOK(r, X), X \subseteq AllocSet, NEW x \in X, NEW n \in Nat,
           n <= x.size, NEW y, y.at = x.at, y.size = n
    PROVE  RecordOK(r, (X \ {x}) \cup {y})
<1> DEFINE d == {x}
<1>1. AllocSpan(n) \in Nat /\ AllocSpan(x.size) \in Nat /\ x.at \in Nat /\ AllocSpan(n) <= AllocSpan(x.size)
  BY Spans DEF AllocSet
<1>2. PlaceOf(x) = Units(x.at, AllocSpan(x.size)) /\ PlaceOf(y) = Units(x.at, AllocSpan(n))
  BY DEF PlaceOf
<1>3. PlaceOf(y) \subseteq PlaceOf(x)
  BY <1>1, <1>2, UnitsWithin
<1>4. Tidy(X, RefsIn(r.blocks), FreeOf(r), Ground(r))
  BY DEF RecordOK
<1>5. PlaceOf(x) \subseteq Ground(r) /\ FreeOf(r) \subseteq Ground(r) /\ PlaceOf(x) \cap FreeOf(r) = {}
  BY <1>4 DEF Tidy
<1>6. Available(PlaceOf(y), FreeOf(r), X, d, FreeOf(r), Ground(r), Ground(r))
  BY <1>3, <1>5 DEF Available
<1> HIDE DEF d
<1>7. Tidy((X \ d) \cup {y}, RefsIn(r.blocks), FreeOf(r), Ground(r))
  BY <1>4, <1>6, TidyAlloc
<1> QED BY <1>7 DEF RecordOK, d

-----------------------------------------------------------------------------
(* Block lists: entries differ, and a reference lies in the caller's block *)
(* or in a block further down the list, so a walk that frees the blocks it *)
(* passes has not yet freed it.                                            *)

HeldBy(s, m) == BlockUnits(m) \cup UNION {BlockUnits(b) : b \in BlocksIn(s)}

NoRepeats(s) == \A i, j \in DOMAIN s : s[i] = s[j] => i = j

Behind(s, m) ==
    \A i \in DOMAIN s : IsRef(s[i]) =>
        \A u \in RefPlace(s[i]) :
            \/ u \in BlockUnits(m)
            \/ \E j \in DOMAIN s : j > i /\ ~ IsRef(s[j]) /\ u \in BlockUnits(s[j])

ListOK(s, m) ==
    s \in Seq(Listed) /\ m \in [at : Nat, size : Nat] /\ NoRepeats(s) /\ Behind(s, m)

LEMMA ListEmpty == ASSUME NEW m \in [at : Nat, size : Nat] PROVE ListOK(<<>>, m)
BY DEF ListOK, NoRepeats, Behind

LEMMA ListPrepend ==
    ASSUME NEW s, NEW m, ListOK(s, m), NEW b \in Listed, b \notin ToSet(s),
           IsRef(b) => RefPlace(b) \subseteq HeldBy(s, m), NEW t, t = <<b>> \o s
    PROVE  /\ ListOK(t, m)
           /\ BlocksIn(t) = BlocksIn(s) \cup (IF IsRef(b) THEN {} ELSE {b})
           /\ RefsIn(t) = RefsIn(s) \cup (IF IsRef(b) THEN {b} ELSE {})
<1>1. s \in Seq(Listed) /\ Len(s) \in Nat /\ DOMAIN s = 1..Len(s) /\ m \in [at : Nat, size : Nat]
  BY DEF ListOK
<1>2. /\ t \in Seq(Listed) /\ Len(t) = Len(s) + 1 /\ DOMAIN t = 1..(Len(s) + 1)
      /\ t[1] = b /\ \A i \in 1..Len(s) : t[i + 1] = s[i]
      /\ ToSet(t) = ToSet(s) \cup {b}
  <2>1. t \in Seq(Listed) /\ Len(t) = Len(s) + 1
    BY <1>1, Prepended
  <2>2. DOMAIN t = 1..(Len(s) + 1)
    BY <1>1, Prepended
  <2>3. t[1] = b
    BY <1>1, Prepended
  <2>4. \A i \in 1..Len(s) : t[i + 1] = s[i]
    BY <1>1, Prepended
  <2>5. ToSet(t) = ToSet(s) \cup {b}
    BY <1>1, Prepended
  <2> QED BY <2>1, <2>2, <2>3, <2>4, <2>5
<1>3. ASSUME NEW i \in DOMAIN t PROVE i = 1 \/ (i - 1 \in DOMAIN s /\ t[i] = s[i - 1])
  <2> SUFFICES ASSUME i # 1 PROVE i - 1 \in DOMAIN s /\ t[i] = s[i - 1]
    OBVIOUS
  <2>1. i - 1 \in 1..Len(s) /\ (i - 1) + 1 = i
    BY <1>1, <1>2
  <2> QED BY <1>1, <1>2, <2>1
<1>4. \A j \in DOMAIN s : s[j] # b
  BY DEF ToSet
<1>5. NoRepeats(t)
  <2> SUFFICES ASSUME NEW i \in DOMAIN t, NEW j \in DOMAIN t, t[i] = t[j] PROVE i = j
    BY DEF NoRepeats
  <2>1. CASE i = 1 \/ j = 1
    BY <1>2, <1>3, <1>4, <2>1
  <2>2. CASE i # 1 /\ j # 1
    <3>1. i - 1 \in DOMAIN s /\ j - 1 \in DOMAIN s /\ s[i - 1] = s[j - 1]
      BY <1>3, <2>2
    <3>2. i - 1 = j - 1
      BY <3>1 DEF ListOK, NoRepeats
    <3> QED BY <1>1, <1>2, <3>2
  <2> QED BY <2>1, <2>2
<1>6. Behind(t, m)
  <2> SUFFICES ASSUME NEW i \in DOMAIN t, IsRef(t[i]), NEW u \in RefPlace(t[i]), u \notin BlockUnits(m)
               PROVE  \E j \in DOMAIN t : j > i /\ ~ IsRef(t[j]) /\ u \in BlockUnits(t[j])
    BY DEF Behind
  <2>1. \A k \in DOMAIN s : k + 1 \in DOMAIN t /\ t[k + 1] = s[k]
    BY <1>1, <1>2
  <2>2. CASE i = 1
    <3>1. u \in HeldBy(s, m)
      BY <1>2, <2>2
    <3>2. PICK k \in DOMAIN s : ~ IsRef(s[k]) /\ u \in BlockUnits(s[k])
      BY <3>1 DEF HeldBy, BlocksIn, ToSet
    <3>3. k + 1 > i
      BY <1>1, <2>2
    <3> QED BY <2>1, <3>2, <3>3
  <2>3. CASE i # 1
    <3>1. i - 1 \in DOMAIN s /\ t[i] = s[i - 1]
      BY <1>3, <2>3
    <3>2. PICK k \in DOMAIN s : k > i - 1 /\ ~ IsRef(s[k]) /\ u \in BlockUnits(s[k])
      BY <3>1 DEF ListOK, Behind
    <3>3. k + 1 > i
      BY <1>1, <1>2, <3>2
    <3> QED BY <2>1, <3>2, <3>3
  <2> QED BY <2>2, <2>3
<1>7. /\ BlocksIn(t) = BlocksIn(s) \cup (IF IsRef(b) THEN {} ELSE {b})
      /\ RefsIn(t) = RefsIn(s) \cup (IF IsRef(b) THEN {b} ELSE {})
  <2>1. CASE IsRef(b)
    BY <1>2, <2>1 DEF BlocksIn, RefsIn
  <2>2. CASE ~ IsRef(b)
    BY <1>2, <2>2 DEF BlocksIn, RefsIn
  <2> QED BY <2>1, <2>2
<1> QED BY <1>1, <1>2, <1>5, <1>6, <1>7 DEF ListOK

LEMMA ListTail ==
    ASSUME NEW s, NEW m, ListOK(s, m), s # <<>>, NEW t, t = Tail(s), NEW b, b = Head(s)
    PROVE  /\ ListOK(t, m) /\ b \in Listed
           /\ BlocksIn(t) = BlocksIn(s) \ {b} /\ RefsIn(t) = RefsIn(s) \ {b}
           /\ IF IsRef(b) THEN b \in RefsIn(s) /\ b \notin BlocksIn(s)
              ELSE b \in BlocksIn(s) /\ b \notin RefsIn(s)
<1>1. s \in Seq(Listed) /\ Len(s) \in Nat /\ DOMAIN s = 1..Len(s) /\ m \in [at : Nat, size : Nat]
  BY DEF ListOK
<1>2. /\ t \in Seq(Listed) /\ Len(t) = Len(s) - 1 /\ DOMAIN t = 1..Len(t) /\ Len(t) \in Nat
      /\ \A i \in 1..Len(t) : t[i] = s[i + 1]
      /\ b = s[1] /\ b \in Listed /\ 1 \in DOMAIN s
      /\ \A x : x \in ToSet(s) <=> x = b \/ x \in ToSet(t)
  BY <1>1, TailOf
<1>3. \A i \in DOMAIN t : i + 1 \in DOMAIN s /\ t[i] = s[i + 1] /\ i + 1 # 1
  BY <1>1, <1>2
<1>4. NoRepeats(t)
  <2> SUFFICES ASSUME NEW i \in DOMAIN t, NEW j \in DOMAIN t, t[i] = t[j] PROVE i = j
    BY DEF NoRepeats
  <2>1. i + 1 = j + 1
    BY <1>3 DEF ListOK, NoRepeats
  <2> QED BY <1>2, <2>1
<1>5. b \notin ToSet(t)
  <2> SUFFICES ASSUME NEW i \in DOMAIN t, t[i] = b PROVE FALSE
    BY DEF ToSet
  <2> QED BY <1>2, <1>3 DEF ListOK, NoRepeats
<1>6. Behind(t, m)
  <2> SUFFICES ASSUME NEW i \in DOMAIN t, IsRef(t[i]), NEW u \in RefPlace(t[i]), u \notin BlockUnits(m)
               PROVE  \E j \in DOMAIN t : j > i /\ ~ IsRef(t[j]) /\ u \in BlockUnits(t[j])
    BY DEF Behind
  <2>1. PICK k \in DOMAIN s : k > i + 1 /\ ~ IsRef(s[k]) /\ u \in BlockUnits(s[k])
    BY <1>3 DEF ListOK, Behind
  <2>2. k - 1 \in 1..Len(t) /\ (k - 1) + 1 = k /\ k - 1 > i
    BY <1>1, <1>2, <2>1
  <2>3. t[k - 1] = s[k] /\ k - 1 \in DOMAIN t
    BY <1>2, <2>2
  <2> QED BY <2>1, <2>2, <2>3
<1>7. BlocksIn(t) = BlocksIn(s) \ {b} /\ RefsIn(t) = RefsIn(s) \ {b}
  BY <1>2, <1>5 DEF BlocksIn, RefsIn
<1>8. b \in ToSet(s)
  BY <1>2
<1> QED BY <1>1, <1>2, <1>4, <1>6, <1>7, <1>8 DEF ListOK, BlocksIn, RefsIn

LEMMA RefsHeld ==
    ASSUME NEW s, NEW m, ListOK(s, m), NEW b \in RefsIn(s)
    PROVE  RefPlace(b) \subseteq HeldBy(s, m) /\ RefPlace(b) # {}
<1>1. PICK i \in DOMAIN s : b = s[i] /\ IsRef(s[i])
  BY DEF RefsIn, ToSet
<1>2. ASSUME NEW u \in RefPlace(b) PROVE u \in HeldBy(s, m)
  BY <1>1 DEF ListOK, Behind, HeldBy, BlocksIn, ToSet
<1>3. b.at \in Nat
  BY InLists DEF RefSet, ListOK
<1>4. b.at \in RefPlace(b)
  BY <1>3, Spans, UnitsAre, Sizing DEF RefPlace
<1> QED BY <1>2, <1>4

-----------------------------------------------------------------------------
(* The books: existing arenas E with lists L and initial blocks M, and the *)
(* heap H.                                                                 *)

Used(E, M, H) == (UNION {BlockUnits(b) : b \in H}) \cup (UNION {BlockUnits(M[a]) : a \in E})

Books(E, L, M, H) ==
    /\ \A a \in E : ListOK(L[a], M[a])
    /\ H \subseteq BlockSet
    /\ \A b, c \in H : b # c => BlockUnits(b) \cap BlockUnits(c) = {}
    /\ \A b \in H, a \in E : BlockUnits(b) \cap BlockUnits(M[a]) = {}
    /\ \A a, c \in E : a # c => BlockUnits(M[a]) \cap BlockUnits(M[c]) = {}
    /\ H = UNION {BlocksIn(L[a]) : a \in E}
    /\ \A a, c \in E : a # c => BlocksIn(L[a]) \cap BlocksIn(L[c]) = {}

\* What differs between two sets of books is arena a.
Others(E, L, M, L2, M2, a) == \A c \in E \ {a} : L2[c] = L[c] /\ M2[c] = M[c]

LEMMA MemUsed ==
    ASSUME NEW E, NEW M, NEW H, NEW c \in E
    PROVE  BlockUnits(M[c]) \subseteq Used(E, M, H)
<1> SUFFICES ASSUME NEW u \in BlockUnits(M[c]) PROVE u \in Used(E, M, H)
  OBVIOUS
<1>1. \E a \in E : u \in BlockUnits(M[a])
  OBVIOUS
<1> HIDE DEF BlockUnits
<1> QED BY <1>1 DEF Used

\* Arena a, which may be new, gets the blocks got.
Adds(E, L, M, H, L2, M2, a, got) ==
    /\ Others(E, L, M, L2, M2, a) /\ ListOK(L2[a], M2[a])
    /\ got \subseteq BlockSet /\ \A b, c \in got : b = c
    /\ \A b \in got : BlockUnits(b) \cap Used(E, M, H) = {}
    /\ a \in E => M2[a] = M[a] /\ BlocksIn(L2[a]) = BlocksIn(L[a]) \cup got
    /\ a \notin E => /\ BlockUnits(M2[a]) \cap Used(E, M, H) = {} /\ BlocksIn(L2[a]) = got
                     /\ \A b \in got : BlockUnits(b) \cap BlockUnits(M2[a]) = {}

LEMMA BooksAdd ==
    ASSUME NEW E, NEW L, NEW M, NEW H, Books(E, L, M, H), NEW a, NEW L2, NEW M2, NEW H2, NEW got,
           Adds(E, L, M, H, L2, M2, a, got), H2 = H \cup got
    PROVE  Books(E \cup {a}, L2, M2, H2)
<1> DEFINE E2 == E \cup {a}
<1> USE DEF Adds
<1>1. \A c \in E : BlockUnits(M[c]) \subseteq Used(E, M, H)
  BY MemUsed
<1>2. \A c \in E2 : c = a \/ c \in E \ {a}
  OBVIOUS
<1>3. \A c \in E2 : ListOK(L2[c], M2[c])
  BY <1>2 DEF Books, Others
<1>4. H2 \subseteq BlockSet
  BY DEF Books
<1>5. \A b \in got, c \in H : BlockUnits(b) \cap BlockUnits(c) = {}
  BY DEF Used
<1>6. \A b, c \in H2 : b # c => BlockUnits(b) \cap BlockUnits(c) = {}
  <2> SUFFICES ASSUME NEW b \in H2, NEW c \in H2, b # c PROVE BlockUnits(b) \cap BlockUnits(c) = {}
    OBVIOUS
  <2>1. CASE b \in got /\ c \in H
    BY <1>5, <2>1
  <2>2. CASE b \in H /\ c \in got
    BY <1>5, <2>2
  <2>3. CASE b \in H /\ c \in H
    BY <2>3 DEF Books
  <2>4. CASE b \in got /\ c \in got
    BY <2>4
  <2> QED BY <2>1, <2>2, <2>3, <2>4
<1>7. ASSUME NEW b \in H2, NEW c \in E2 PROVE BlockUnits(b) \cap BlockUnits(M2[c]) = {}
  <2>1. CASE c \in E
    <3>1. M2[c] = M[c]
      BY <1>2, <2>1 DEF Others
    <3>2. CASE b \in H
      BY <2>1, <3>1, <3>2 DEF Books
    <3>3. CASE b \in got
      BY <1>1, <2>1, <3>1, <3>3
    <3> QED BY <3>2, <3>3
  <2>2. CASE c \notin E
    <3>1. c = a
      BY <1>2, <2>2
    <3>2. CASE b \in H
      BY <2>2, <3>1, <3>2 DEF Used
    <3>3. CASE b \in got
      BY <2>2, <3>1, <3>3
    <3> QED BY <3>2, <3>3
  <2> QED BY <2>1, <2>2
<1>8. ASSUME NEW c \in E2, NEW d \in E2, c # d PROVE BlockUnits(M2[c]) \cap BlockUnits(M2[d]) = {}
  <2>1. \A e \in E : M2[e] = M[e]
    BY DEF Others
  <2>2. CASE c \in E /\ d \in E
    BY <1>8, <2>1, <2>2 DEF Books
  <2>3. CASE c \in E /\ d \notin E
    BY <1>1, <1>2, <2>1, <2>3
  <2>4. CASE c \notin E /\ d \in E
    BY <1>1, <1>2, <2>1, <2>4
  <2>5. CASE c \notin E /\ d \notin E
    BY <1>2, <1>8, <2>5
  <2> QED BY <2>2, <2>3, <2>4, <2>5
<1>9. \A c \in E \ {a} : BlocksIn(L2[c]) = BlocksIn(L[c]) /\ BlocksIn(L[c]) \subseteq H
  BY DEF Books, Others
<1>10. /\ BlocksIn(L2[a]) \subseteq H2 /\ got \subseteq BlocksIn(L2[a])
       /\ \A b \in BlocksIn(L2[a]) : b \in got \/ (a \in E /\ b \in BlocksIn(L[a]))
       /\ a \in E => BlocksIn(L[a]) \subseteq BlocksIn(L2[a])
  BY DEF Books
<1>11. H2 = UNION {BlocksIn(L2[c]) : c \in E2}
  <2>1. \A b \in H : \E c \in E : b \in BlocksIn(L[c])
    BY DEF Books
  <2>2. ASSUME NEW b \in H2 PROVE \E c \in E2 : b \in BlocksIn(L2[c])
    <3>1. CASE b \in got
      BY <1>10, <3>1
    <3>2. CASE b \in H
      <4>1. PICK c \in E : b \in BlocksIn(L[c])
        BY <2>1, <3>2
      <4>2. CASE c = a
        BY <1>10, <4>1, <4>2
      <4>3. CASE c # a
        BY <1>9, <4>1, <4>3
      <4> QED BY <4>2, <4>3
    <3> QED BY <3>1, <3>2
  <2>3. \A c \in E2 : BlocksIn(L2[c]) \subseteq H2
    BY <1>2, <1>9, <1>10
  <2> QED BY <2>2, <2>3
<1>12. \A b \in got : b \notin H
  BY <1>5, BlockNotEmpty
<1>13. ASSUME NEW c \in E \ {a} PROVE BlocksIn(L2[a]) \cap BlocksIn(L2[c]) = {}
  <2>1. a \in E => BlocksIn(L[a]) \cap BlocksIn(L[c]) = {}
    BY DEF Books
  <2> QED BY <1>9, <1>10, <1>12, <2>1
<1>14. ASSUME NEW c \in E2, NEW d \in E2, c # d PROVE BlocksIn(L2[c]) \cap BlocksIn(L2[d]) = {}
  <2>1. CASE c = a
    BY <1>2, <1>13, <1>14, <2>1
  <2>2. CASE d = a
    BY <1>2, <1>13, <1>14, <2>2
  <2>3. CASE c # a /\ d # a
    <3>1. BlocksIn(L[c]) \cap BlocksIn(L[d]) = {}
      BY <1>14, <2>3 DEF Books
    <3> QED BY <1>9, <2>3, <3>1
  <2> QED BY <2>1, <2>2, <2>3
<1> QED BY <1>3, <1>4, <1>6, <1>7, <1>8, <1>11, <1>14 DEF Books

LEMMA BooksTake ==
    ASSUME NEW E, NEW L, NEW M, NEW H, Books(E, L, M, H), NEW a \in E, NEW L2, NEW M2, NEW H2, NEW gone,
           Others(E, L, M, L2, M2, a), M2[a] = M[a], ListOK(L2[a], M[a]), H2 = H \ gone,
           gone \subseteq BlocksIn(L[a]), BlocksIn(L2[a]) = BlocksIn(L[a]) \ gone
    PROVE  Books(E, L2, M2, H2)
<1>1. \A c \in E : M2[c] = M[c] /\ ListOK(L2[c], M2[c])
  BY DEF Books, Others
<1>2. \A c \in E \ {a} : BlocksIn(L2[c]) = BlocksIn(L[c]) /\ BlocksIn(L[c]) \cap BlocksIn(L[a]) = {}
  BY DEF Books, Others
<1>3. \A c \in E : BlocksIn(L2[c]) = BlocksIn(L[c]) \ gone
  BY <1>2
<1>4. H2 = UNION {BlocksIn(L2[c]) : c \in E}
  <2>1. H = UNION {BlocksIn(L[c]) : c \in E}
    BY DEF Books
  <2>2. \A b \in H2 : \E c \in E : b \in BlocksIn(L2[c])
    BY <1>3, <2>1
  <2>3. \A c \in E : \A b \in BlocksIn(L2[c]) : b \in H2
    BY <1>3, <2>1
  <2> QED BY <2>2, <2>3
<1>5. \A c, d \in E : c # d => BlocksIn(L2[c]) \cap BlocksIn(L2[d]) = {}
  <2>1. \A c, d \in E : c # d => BlocksIn(L[c]) \cap BlocksIn(L[d]) = {}
    BY DEF Books
  <2> QED BY <1>3, <2>1
<1>6. /\ H2 \subseteq BlockSet
      /\ \A b, c \in H2 : b # c => BlockUnits(b) \cap BlockUnits(c) = {}
  BY DEF Books
<1>7. \A b \in H2, c \in E : BlockUnits(b) \cap BlockUnits(M2[c]) = {}
  BY <1>1 DEF Books
<1>8. \A c, d \in E : c # d => BlockUnits(M2[c]) \cap BlockUnits(M2[d]) = {}
  BY <1>1 DEF Books
<1> QED BY <1>1, <1>4, <1>5, <1>6, <1>7, <1>8 DEF Books

LEMMA BooksDrop ==
    ASSUME NEW E, NEW L, NEW M, NEW H, Books(E, L, M, H), NEW a \in E, NEW L2, NEW M2,
           Others(E, L, M, L2, M2, a), BlocksIn(L[a]) = {}
    PROVE  Books(E \ {a}, L2, M2, H)
<1>1. \A c \in E \ {a} : M2[c] = M[c] /\ L2[c] = L[c] /\ ListOK(L2[c], M2[c])
  BY DEF Books, Others
<1>2. H = UNION {BlocksIn(L2[c]) : c \in E \ {a}}
  <2>1. H = UNION {BlocksIn(L[c]) : c \in E}
    BY DEF Books
  <2>2. \A b \in H : \E c \in E \ {a} : b \in BlocksIn(L2[c])
    BY <1>1, <2>1
  <2>3. \A c \in E \ {a} : \A b \in BlocksIn(L2[c]) : b \in H
    BY <1>1, <2>1
  <2> QED BY <2>2, <2>3
<1>3. \A c, d \in E \ {a} : c # d => BlocksIn(L2[c]) \cap BlocksIn(L2[d]) = {}
  BY <1>1 DEF Books
<1>4. \A c, d \in E \ {a} : c # d => BlockUnits(M2[c]) \cap BlockUnits(M2[d]) = {}
  BY <1>1 DEF Books
<1>5. \A b \in H, c \in E \ {a} : BlockUnits(b) \cap BlockUnits(M2[c]) = {}
  BY <1>1 DEF Books
<1>6. /\ H \subseteq BlockSet
      /\ \A b, c \in H : b # c => BlockUnits(b) \cap BlockUnits(c) = {}
  BY DEF Books
<1> QED BY <1>1, <1>2, <1>3, <1>4, <1>5, <1>6 DEF Books

LEMMA HeldApart ==
    ASSUME NEW E, NEW L, NEW M, NEW H, Books(E, L, M, H), NEW a \in E, NEW c \in E, a # c
    PROVE  /\ HeldBy(L[a], M[a]) \cap HeldBy(L[c], M[c]) = {}
           /\ RefsIn(L[a]) \cap RefsIn(L[c]) = {}
<1>1. BlocksIn(L[a]) \subseteq H /\ BlocksIn(L[c]) \subseteq H /\ BlocksIn(L[a]) \cap BlocksIn(L[c]) = {}
  BY DEF Books
<1>2. \A b \in BlocksIn(L[a]), d \in BlocksIn(L[c]) : BlockUnits(b) \cap BlockUnits(d) = {}
  BY <1>1 DEF Books
<1>3. \A b \in BlocksIn(L[a]) : BlockUnits(b) \cap BlockUnits(M[c]) = {}
  BY <1>1 DEF Books
<1>4. \A b \in BlocksIn(L[c]) : BlockUnits(b) \cap BlockUnits(M[a]) = {}
  BY <1>1 DEF Books
<1>5. BlockUnits(M[a]) \cap BlockUnits(M[c]) = {}
  BY DEF Books
<1>6. HeldBy(L[a], M[a]) \cap HeldBy(L[c], M[c]) = {}
  BY <1>2, <1>3, <1>4, <1>5 DEF HeldBy
<1>7. ListOK(L[a], M[a]) /\ ListOK(L[c], M[c])
  BY DEF Books
<1>8. ASSUME NEW b, b \in RefsIn(L[a]), b \in RefsIn(L[c]) PROVE FALSE
  BY <1>6, <1>7, <1>8, RefsHeld
<1> QED BY <1>6, <1>8

-----------------------------------------------------------------------------
(* Reference counts: references A, existing arenas E, of which W are being *)
(* freed, and the arenas own that their creators have not freed.           *)

AllRefs(E, L) == UNION {RefsIn(L[c]) : c \in E}

To(A, a) == {b \in A : b.to = a}

Own(own, a) == IF a \in own THEN 1 ELSE 0

Counts(A, E, W, count, own) ==
    /\ count \in [Arena -> Nat] /\ own \subseteq E \ W /\ E \subseteq Arena
    /\ \A a \in Arena : IsFiniteSet(To(A, a)) /\ (To(A, a) # {} => a \in E \ W)
    /\ \A a \in E \ W : count[a] = Cardinality(To(A, a)) + Own(own, a)

Minus(count, a) == [count EXCEPT ![a] = @ - 1]

LEMMA CountsNew ==
    ASSUME NEW A, NEW E, NEW W, NEW count, NEW own, Counts(A, E, W, count, own), W \subseteq E,
           NEW a \in Arena, a \notin E
    PROVE  Counts(A, E \cup {a}, W, [count EXCEPT ![a] = 1], own \cup {a})
<1> DEFINE count2 == [count EXCEPT ![a] = 1]
           own2 == own \cup {a}
           E2 == E \cup {a}
<1>1. count2 \in [Arena -> Nat] /\ own2 \subseteq E2 \ W /\ E2 \subseteq Arena
  BY DEF Counts
<1>2. To(A, a) = {}
  BY DEF Counts
<1>3. \A c \in Arena : IsFiniteSet(To(A, c)) /\ (To(A, c) # {} => c \in E2 \ W)
  BY DEF Counts
<1>4. ASSUME NEW c \in E2 \ W PROVE count2[c] = Cardinality(To(A, c)) + Own(own2, c)
  <2>1. CASE c = a
    <3>1. count2[c] = 1 /\ Own(own2, c) = 1 /\ Cardinality(To(A, c)) = 0
      BY <1>2, <2>1, FS_EmptySet DEF Counts, Own
    <3> QED BY <3>1
  <2>2. CASE c # a
    BY <1>4, <2>2 DEF Counts, Own
  <2> QED BY <2>1, <2>2
<1> QED BY <1>1, <1>3, <1>4 DEF Counts

LEMMA CountsRef ==
    ASSUME NEW A, NEW E, NEW W, NEW count, NEW own, Counts(A, E, W, count, own),
           NEW b, b \notin A, b.to \in E \ W
    PROVE  Counts(A \cup {b}, E, W, [count EXCEPT ![b.to] = @ + 1], own)
<1> DEFINE t == b.to
           count2 == [count EXCEPT ![t] = @ + 1]
           A2 == A \cup {b}
<1>1. t \in Arena /\ count \in [Arena -> Nat] /\ count2 \in [Arena -> Nat]
  BY DEF Counts
<1>2. \A c \in Arena : To(A2, c) = IF c = t THEN To(A, c) \cup {b} ELSE To(A, c)
  BY DEF To
<1>3. b \notin To(A, t)
  BY DEF To
<1>4. \A c \in Arena : IsFiniteSet(To(A, c)) /\ Cardinality(To(A, c)) \in Nat
  BY FS_CardinalityType DEF Counts
<1>5. IsFiniteSet(To(A2, t)) /\ Cardinality(To(A2, t)) = Cardinality(To(A, t)) + 1
  <2> DEFINE T == To(A, t)
  <2>1. IsFiniteSet(T) /\ b \notin T /\ To(A2, t) = T \cup {b}
    BY <1>1, <1>2, <1>3, <1>4
  <2> HIDE DEF T
  <2>2. IsFiniteSet(T \cup {b}) /\ Cardinality(T \cup {b}) = Cardinality(T) + 1
    BY <2>1, FS_AddElement
  <2> QED BY <2>1, <2>2 DEF T
<1>6. \A c \in Arena : IsFiniteSet(To(A2, c)) /\ (To(A2, c) # {} => c \in E \ W)
  BY <1>2, <1>5 DEF Counts
<1>7. ASSUME NEW c \in E \ W PROVE count2[c] = Cardinality(To(A2, c)) + Own(own, c)
  <2>1. c \in Arena /\ count[c] = Cardinality(To(A, c)) + Own(own, c)
    BY DEF Counts
  <2>2. CASE c = t
    <3>1. count2[c] = count[c] + 1 /\ Own(own, c) \in Nat
      BY <1>1, <2>2 DEF Own
    <3> QED BY <1>4, <1>5, <2>1, <2>2, <3>1
  <2>3. CASE c # t
    BY <1>1, <1>2, <2>1, <2>3
  <2> QED BY <2>2, <2>3
<1>8. count2 = [count EXCEPT ![b.to] = @ + 1]
  OBVIOUS
<1> QED BY <1>1, <1>6, <1>7 DEF Counts

LEMMA CountsFree ==
    ASSUME NEW A, NEW E, NEW W, NEW count, NEW own, Counts(A, E, W, count, own),
           NEW a \in own
    PROVE  /\ count[a] = 1 => Counts(A, E, W \cup {a}, count, own \ {a})
           /\ count[a] # 1 => Counts(A, E, W, Minus(count, a), own \ {a}) /\ count[a] > 1
<1>1. a \in E \ W /\ a \in Arena /\ count \in [Arena -> Nat] /\ own \subseteq E \ W /\ E \subseteq Arena
  BY DEF Counts
<1>2. \A c \in Arena : IsFiniteSet(To(A, c)) /\ Cardinality(To(A, c)) \in Nat
  BY FS_CardinalityType DEF Counts
<1>3. count[a] = Cardinality(To(A, a)) + 1
  BY <1>1 DEF Counts, Own
<1>4. \A c \in E \ W : c # a => count[c] = Cardinality(To(A, c)) + Own(own \ {a}, c)
  BY DEF Counts, Own
<1>5. ASSUME count[a] = 1 PROVE Counts(A, E, W \cup {a}, count, own \ {a})
  <2>1. To(A, a) = {}
    BY <1>1, <1>2, <1>3, <1>5, FS_EmptySet
  <2>2. \A c \in Arena : IsFiniteSet(To(A, c)) /\ (To(A, c) # {} => c \in E \ (W \cup {a}))
    BY <2>1 DEF Counts
  <2> QED BY <1>1, <1>4, <2>2 DEF Counts
<1>6. ASSUME count[a] # 1 PROVE Counts(A, E, W, Minus(count, a), own \ {a}) /\ count[a] > 1
  <2> DEFINE count2 == [count EXCEPT ![a] = @ - 1]
  <2>1. Cardinality(To(A, a)) >= 1 /\ count[a] > 1 /\ count[a] - 1 \in Nat
    BY <1>1, <1>2, <1>3, <1>6
  <2>2. count2 \in [Arena -> Nat] /\ count2[a] = count[a] - 1 /\ \A c \in Arena : c # a => count2[c] = count[c]
    BY <1>1, <2>1
  <2>3. ASSUME NEW c \in E \ W PROVE count2[c] = Cardinality(To(A, c)) + Own(own \ {a}, c)
    <3>1. CASE c = a
      <4>1. Own(own \ {a}, c) = 0
        BY <3>1 DEF Own
      <4> QED BY <1>1, <1>2, <1>3, <2>2, <3>1, <4>1
    <3>2. CASE c # a
      BY <1>1, <1>4, <2>2, <3>2
    <3> QED BY <3>1, <3>2
  <2> HIDE DEF count2
  <2>4. Counts(A, E, W, count2, own \ {a})
    BY <1>1, <2>2, <2>3 DEF Counts
  <2> QED BY <2>1, <2>4 DEF count2, Minus
<1> QED BY <1>5, <1>6

One(count, t) == count[t] = 1
Many(count, t) == count[t] > 1

Releases(A, E, W, count, own, b, t) ==
    Counts(A, E, W, count, own) /\ b \in A /\ t \in Arena /\ b.to = t

LEMMA CountsRelease ==
    ASSUME NEW A, NEW E, NEW W, NEW count, NEW own, NEW b, NEW t, Releases(A, E, W, count, own, b, t)
    PROVE  /\ t \in E \ W
           /\ One(count, t) => Counts(A \ {b}, E, W \cup {t}, count, own) /\ t \notin own
           /\ ~ One(count, t) => Counts(A \ {b}, E, W, Minus(count, t), own) /\ Many(count, t)
<1> USE DEF Releases, One, Many
<1> DEFINE A2 == A \ {b}
<1>1. b \in To(A, t) /\ t \in E \ W /\ count \in [Arena -> Nat] /\ own \subseteq E \ W /\ E \subseteq Arena
  BY DEF Counts, To
<1>2. \A c \in Arena : IsFiniteSet(To(A, c)) /\ Cardinality(To(A, c)) \in Nat
  BY FS_CardinalityType DEF Counts
<1>3. \A c \in Arena : To(A2, c) = IF c = t THEN To(A, c) \ {b} ELSE To(A, c)
  BY DEF To
<1>4. IsFiniteSet(To(A2, t)) /\ Cardinality(To(A2, t)) = Cardinality(To(A, t)) - 1
  <2> DEFINE T == To(A, t)
  <2>1. IsFiniteSet(T) /\ b \in T /\ To(A2, t) = T \ {b}
    BY <1>1, <1>2, <1>3
  <2> HIDE DEF T
  <2>2. IsFiniteSet(T \ {b}) /\ Cardinality(T \ {b}) = Cardinality(T) - 1
    BY <2>1, FS_RemoveElement
  <2> QED BY <2>1, <2>2 DEF T
<1>5. Cardinality(To(A2, t)) \in Nat
  BY <1>4, FS_CardinalityType
<1>6. \A c \in Arena : IsFiniteSet(To(A2, c)) /\ (c # t /\ To(A2, c) # {} => c \in E \ W)
  BY <1>3, <1>4 DEF Counts
<1>7. \A c \in E \ W : c # t => count[c] = Cardinality(To(A2, c)) + Own(own, c)
  BY <1>1, <1>3 DEF Counts
<1>8. count[t] = Cardinality(To(A2, t)) + 1 + Own(own, t) /\ Own(own, t) \in {0, 1}
  <2>1. count[t] = Cardinality(To(A, t)) + Own(own, t) /\ Own(own, t) \in {0, 1}
    BY <1>1 DEF Counts, Own
  <2> QED BY <1>2, <1>4, <1>5, <2>1
<1>9. ASSUME count[t] = 1 PROVE Counts(A2, E, W \cup {t}, count, own) /\ t \notin own
  <2>1. Own(own, t) = 0 /\ Cardinality(To(A2, t)) = 0
    BY <1>5, <1>8, <1>9
  <2>2. t \notin own /\ To(A2, t) = {}
    BY <1>4, <2>1, FS_EmptySet DEF Own
  <2>3. \A c \in Arena : IsFiniteSet(To(A2, c)) /\ (To(A2, c) # {} => c \in E \ (W \cup {t}))
    BY <1>6, <2>2
  <2>4. own \subseteq E \ (W \cup {t})
    BY <1>1, <2>2
  <2> QED BY <1>1, <1>7, <2>2, <2>3, <2>4 DEF Counts
<1>10. ASSUME count[t] # 1 PROVE Counts(A2, E, W, Minus(count, t), own) /\ count[t] > 1
  <2> DEFINE count2 == [count EXCEPT ![t] = @ - 1]
  <2>1. count[t] > 1 /\ count[t] - 1 \in Nat
    BY <1>1, <1>5, <1>8, <1>10
  <2>2. count2 \in [Arena -> Nat] /\ count2[t] = count[t] - 1 /\ \A c \in Arena : c # t => count2[c] = count[c]
    BY <1>1, <2>1
  <2>3. ASSUME NEW c \in E \ W PROVE count2[c] = Cardinality(To(A2, c)) + Own(own, c)
    <3>1. CASE c = t
      BY <1>5, <1>8, <2>1, <2>2, <3>1
    <3>2. CASE c # t
      BY <1>1, <1>7, <2>2, <3>2
    <3> QED BY <3>1, <3>2
  <2>4. \A c \in Arena : IsFiniteSet(To(A2, c)) /\ (To(A2, c) # {} => c \in E \ W)
    BY <1>1, <1>6
  <2> HIDE DEF count2, A2
  <2>5. Counts(A2, E, W, count2, own)
    BY <1>1, <2>2, <2>3, <2>4 DEF Counts
  <2> QED BY <2>1, <2>5 DEF count2, Minus
<1> QED BY <1>1, <1>9, <1>10

LEMMA CountsDrop ==
    ASSUME NEW A, NEW E, NEW W, NEW count, NEW own, Counts(A, E, W, count, own),
           NEW a \in W, a \in Arena
    PROVE  Counts(A, E \ {a}, W \ {a}, [count EXCEPT ![a] = 0], own)
<1> DEFINE count2 == [count EXCEPT ![a] = 0]
           E2 == E \ {a}
           W2 == W \ {a}
<1>1. E2 \ W2 = E \ W /\ E2 \subseteq Arena /\ a \notin E2 \ W2
  BY DEF Counts
<1>2. count2 \in [Arena -> Nat] /\ \A c \in E2 \ W2 : count2[c] = count[c]
  BY <1>1 DEF Counts
<1> HIDE DEF count2, E2, W2
<1>3. Counts(A, E2, W2, count2, own)
  BY <1>1, <1>2 DEF Counts
<1> QED BY <1>3 DEF count2, E2, W2

\* Arena a, which may be new, gets the references R.
Gains(E, L, L2, a, R) ==
    /\ \A c \in E \ {a} : L2[c] = L[c]
    /\ RefsIn(L2[a]) = (IF a \in E THEN RefsIn(L[a]) \cup R ELSE R)

LEMMA RefsGained ==
    ASSUME NEW E, NEW L, NEW L2, NEW a, NEW R, Gains(E, L, L2, a, R)
    PROVE  AllRefs(E \cup {a}, L2) = AllRefs(E, L) \cup R
<1> USE DEF Gains
<1>1. \A b : b \in AllRefs(E, L) <=> \E c \in E : b \in RefsIn(L[c])
  BY DEF AllRefs
<1>2. \A b : b \in AllRefs(E \cup {a}, L2) <=> \E c \in E \cup {a} : b \in RefsIn(L2[c])
  BY DEF AllRefs
<1>3. ASSUME NEW b \in AllRefs(E, L) \cup R PROVE b \in AllRefs(E \cup {a}, L2)
  <2>1. CASE b \in R
    BY <1>2, <2>1
  <2>2. ASSUME NEW c \in E, b \in RefsIn(L[c]) PROVE \E d \in E \cup {a} : b \in RefsIn(L2[d])
    <3>1. CASE c = a
      BY <2>2, <3>1
    <3>2. CASE c # a
      BY <2>2, <3>2
    <3> QED BY <3>1, <3>2
  <2> QED BY <1>1, <1>2, <2>1, <2>2
<1>4. ASSUME NEW b \in AllRefs(E \cup {a}, L2) PROVE b \in AllRefs(E, L) \cup R
  <2>1. PICK c \in E \cup {a} : b \in RefsIn(L2[c])
    BY <1>2
  <2>2. CASE c = a
    BY <1>1, <2>1, <2>2
  <2>3. CASE c # a
    BY <1>1, <2>1, <2>3
  <2> QED BY <2>2, <2>3
<1> QED BY <1>3, <1>4

\* Arena a loses the references R, which no other arena has.
Loses(E, L, L2, a, R) ==
    /\ a \in E /\ \A c \in E \ {a} : L2[c] = L[c]
    /\ R \subseteq RefsIn(L[a]) /\ RefsIn(L2[a]) = RefsIn(L[a]) \ R
    /\ \A c \in E \ {a} : RefsIn(L[a]) \cap RefsIn(L[c]) = {}

LEMMA RefsLost ==
    ASSUME NEW E, NEW L, NEW L2, NEW a, NEW R, Loses(E, L, L2, a, R)
    PROVE  AllRefs(E, L2) = AllRefs(E, L) \ R /\ R \subseteq AllRefs(E, L)
<1> USE DEF Loses
<1>1. \A b : b \in AllRefs(E, L) <=> \E c \in E : b \in RefsIn(L[c])
  BY DEF AllRefs
<1>2. \A b : b \in AllRefs(E, L2) <=> \E c \in E : b \in RefsIn(L2[c])
  BY DEF AllRefs
<1>3. \A c \in E : RefsIn(L2[c]) = RefsIn(L[c]) \ R
  <2>1. \A c \in E \ {a} : RefsIn(L2[c]) = RefsIn(L[c]) /\ RefsIn(L[c]) \cap R = {}
    OBVIOUS
  <2> QED BY <2>1
<1>4. \A b : b \in AllRefs(E, L2) <=> b \in AllRefs(E, L) /\ b \notin R
  BY <1>1, <1>2, <1>3
<1> QED BY <1>1, <1>4

-----------------------------------------------------------------------------
(* The walks in progress, and the list each arena has left: what its walk  *)
(* has not passed, or all of its blocks.                                   *)

WalkSet == [arena : Arena, rest : Seq(Listed)]

Wk(F) == {F[i].arena : i \in DOMAIN F}

Frees(F, E) ==
    /\ F \in Seq(WalkSet) /\ Wk(F) \subseteq E
    /\ \A i, j \in DOMAIN F : F[i].arena = F[j].arena => i = j

RestOf(F, a) == F[CHOOSE i \in DOMAIN F : F[i].arena = a].rest

Lists(N, F) == [a \in Arena |-> IF a \in Wk(F) THEN RestOf(F, a) ELSE N[a].blocks]

Mems(N) == [a \in Arena |-> N[a].mem]

Real(N) == {a \in Arena : N[a] # NoArena}

\* The innermost walk passes an entry; a walk begins.
Popped(F) == [F EXCEPT ![Len(F)].rest = Tail(@)]
Begun(F, N, a) == Append(F, [arena |-> a, rest |-> N[a].blocks])

LEMMA ListsAre ==
    ASSUME NEW E, NEW F, Frees(F, E), NEW N
    PROVE  /\ \A i \in DOMAIN F : F[i].arena \in Arena /\ Lists(N, F)[F[i].arena] = F[i].rest
           /\ \A a \in Arena \ Wk(F) : Lists(N, F)[a] = N[a].blocks
<1>1. ASSUME NEW i \in DOMAIN F PROVE F[i].arena \in Arena /\ Lists(N, F)[F[i].arena] = F[i].rest
  <2> DEFINE a == F[i].arena
  <2>1. F[i] \in WalkSet
    BY DEF Frees
  <2>2. a \in Arena /\ a \in Wk(F)
    BY <2>1 DEF WalkSet, Wk
  <2>3. (CHOOSE j \in DOMAIN F : F[j].arena = a) = i
    BY DEF Frees
  <2>4. RestOf(F, a) = F[i].rest
    BY <2>3 DEF RestOf
  <2> QED BY <2>2, <2>4 DEF Lists
<1> QED BY <1>1 DEF Lists

LEMMA ListOfWalk ==
    ASSUME NEW E, NEW F, Frees(F, E), NEW N, NEW i, i \in DOMAIN F
    PROVE  Lists(N, F)[F[i].arena] = F[i].rest
BY ListsAre

LEMMA NoWalks ==
    ASSUME NEW N
    PROVE  Wk(<<>>) = {} /\ \A E : Frees(<<>>, E)
<1>1. DOMAIN <<>> = {} /\ <<>> \in Seq(WalkSet)
  OBVIOUS
<1> QED BY <1>1 DEF Wk, Frees

LEMMA ChangedAt ==
    ASSUME NEW S, NEW s \in Seq(S), NEW i \in DOMAIN s, NEW x \in S
    PROVE  [s EXCEPT ![i] = x] \in Seq(S)
OBVIOUS

Passes(E, F, N, F2, a) ==
    Frees(F, E) /\ F # <<>> /\ Last(F).rest # <<>> /\ F2 = Popped(F) /\ a = Last(F).arena

LEMMA WalkStep ==
    ASSUME NEW E, NEW F, NEW N, NEW F2, NEW a, Passes(E, F, N, F2, a)
    PROVE  /\ Frees(F2, E) /\ Wk(F2) = Wk(F) /\ a \in Wk(F) /\ a \in Arena
           /\ Lists(N, F)[a] = Last(F).rest
           /\ Lists(N, F2)[a] = Tail(Last(F).rest)
           /\ \A c \in Arena \ {a} : Lists(N, F2)[c] = Lists(N, F)[c]
<1> USE DEF Passes
<1> DEFINE n == Len(F)
           t == Tail(F[n].rest)
<1>1. F \in Seq(WalkSet) /\ n \in DOMAIN F /\ n \in Nat /\ DOMAIN F = 1..n
  BY DEF Frees
<1>2. F[n] \in WalkSet /\ F[n].rest \in Seq(Listed) /\ F[n].rest # <<>> /\ a = F[n].arena
  <2>1. F[n] \in WalkSet
    BY <1>1
  <2>2. Last(F) = F[n]
    BY Zenon DEF Last
  <2> HIDE DEF n
  <2>3. F[n].rest \in Seq(Listed)
    BY <2>1 DEF WalkSet
  <2> QED BY <2>1, <2>2, <2>3, Zenon
<1>3. t \in Seq(Listed)
  BY <1>2
<1>4. F2 = [F EXCEPT ![n] = [F[n] EXCEPT !.rest = t]]
  BY <1>1 DEF Popped
<1> HIDE DEF t
<1> DEFINE w == [F[n] EXCEPT !.rest = t]
<1>5. w \in WalkSet /\ w.arena = F[n].arena /\ w.rest = t
  BY <1>2, <1>3 DEF WalkSet
<1> HIDE DEF w, n
<1>6. F2 = [F EXCEPT ![n] = w]
  BY <1>4, Zenon DEF w
<1>7. F2 \in Seq(WalkSet) /\ DOMAIN F2 = DOMAIN F /\ F2[n] = w /\ \A i \in DOMAIN F : i # n => F2[i] = F[i]
  <2>1. DOMAIN F2 = DOMAIN F /\ F2[n] = w /\ \A i \in DOMAIN F : i # n => F2[i] = F[i]
    BY <1>1, <1>6, Zenon
  <2>2. F2 \in Seq(WalkSet)
    <3>1. [F EXCEPT ![n] = w] \in Seq(WalkSet)
      BY <1>1, <1>5, ChangedAt
    <3> QED BY <1>6, <3>1
  <2> QED BY <2>1, <2>2
<1>8. \A i \in DOMAIN F : F2[i].arena = F[i].arena
  BY <1>5, <1>7
<1>9. Wk(F2) = Wk(F)
  BY <1>7, <1>8 DEF Wk
<1>10. Frees(F2, E)
  BY <1>7, <1>8, <1>9 DEF Frees
<1>11. a \in Wk(F) /\ a \in Arena
  BY <1>1, <1>2 DEF Wk, WalkSet
<1>12. Lists(N, F)[a] = F[n].rest /\ Lists(N, F2)[a] = t
  <2>1. n \in DOMAIN F /\ n \in DOMAIN F2
    BY <1>1, <1>7
  <2>2. Lists(N, F)[F[n].arena] = F[n].rest
    BY <2>1, ListOfWalk, Zenon
  <2>3. Lists(N, F2)[F2[n].arena] = F2[n].rest
    BY <1>10, <2>1, ListOfWalk, Zenon
  <2> QED BY <1>2, <1>5, <1>7, <2>2, <2>3
<1>13. ASSUME NEW c \in Arena \ {a} PROVE Lists(N, F2)[c] = Lists(N, F)[c]
  <2>1. CASE c \in Wk(F)
    <3>1. PICK i \in DOMAIN F : c = F[i].arena
      BY <2>1 DEF Wk
    <3>2. i # n
      BY <1>2, <1>13, <3>1
    <3>3. F2[i] = F[i] /\ i \in DOMAIN F2
      BY <1>7, <3>2
    <3>4. Lists(N, F)[F[i].arena] = F[i].rest
      BY ListsAre
    <3>5. Lists(N, F2)[F2[i].arena] = F2[i].rest
      <4>1. i \in DOMAIN F2
        BY <3>3
      <4> QED BY <1>10, <4>1, ListOfWalk, Zenon
    <3> QED BY <3>1, <3>3, <3>4, <3>5
  <2>2. CASE c \notin Wk(F)
    <3>1. c \in Arena \ Wk(F) /\ c \in Arena \ Wk(F2)
      BY <1>9, <2>2
    <3>2. Lists(N, F)[c] = N[c].blocks
      BY <3>1, ListsAre
    <3>3. Lists(N, F2)[c] = N[c].blocks
      BY <1>10, <3>1, ListsAre
    <3> QED BY <3>2, <3>3
  <2> QED BY <2>1, <2>2
<1>14. Last(F) = F[n]
  BY DEF Last, n
<1> QED BY <1>9, <1>10, <1>11, <1>12, <1>13, <1>14 DEF t

LEMMA WalkBegins ==
    ASSUME NEW E, NEW F, Frees(F, E), NEW N, NEW a \in E, a \in Arena, a \notin Wk(F),
           N[a].blocks \in Seq(Listed),
           NEW F2, F2 = Begun(F, N, a)
    PROVE  /\ Frees(F2, E) /\ Wk(F2) = Wk(F) \cup {a}
           /\ Lists(N, F2) = Lists(N, F)
<1> DEFINE n == Len(F)
           w == [arena |-> a, rest |-> N[a].blocks]
<1>1. F \in Seq(WalkSet) /\ n \in Nat /\ DOMAIN F = 1..n
  BY DEF Frees
<1>2. w \in WalkSet /\ w.arena = a /\ w.rest = N[a].blocks
  BY DEF WalkSet
<1> HIDE DEF w
<1>3. F2 \in Seq(WalkSet) /\ DOMAIN F2 = 1..(n + 1) /\ F2[n + 1] = w /\ \A i \in DOMAIN F : F2[i] = F[i]
  BY <1>1, <1>2 DEF w, Begun
<1> HIDE DEF n
<1>4. \A i : i \in DOMAIN F2 <=> i \in DOMAIN F \/ i = n + 1
  BY <1>1, <1>3
<1>5. Wk(F2) = Wk(F) \cup {a}
  BY <1>2, <1>3, <1>4 DEF Wk
<1>6. \A i \in DOMAIN F : F[i].arena # a
  BY DEF Wk
<1>7. Frees(F2, E)
  BY <1>2, <1>3, <1>4, <1>5, <1>6 DEF Frees
<1>8. ASSUME NEW c \in Arena PROVE Lists(N, F2)[c] = Lists(N, F)[c]
  <2>1. CASE c = a
    <3>1. Lists(N, F)[a] = N[a].blocks
      BY ListsAre
    <3> DEFINE k == n + 1
    <3>2. k \in DOMAIN F2 /\ F2[k].arena = a /\ F2[k].rest = N[a].blocks
      BY <1>2, <1>3, <1>4
    <3> HIDE DEF k
    <3>3. Lists(N, F2)[F2[k].arena] = F2[k].rest
      <4>1. k \in DOMAIN F2
        BY <3>2
      <4> QED BY <1>7, <4>1, ListOfWalk, Zenon
    <3> QED BY <2>1, <3>1, <3>2, <3>3
  <2>2. CASE c \in Wk(F)
    <3>1. PICK i \in DOMAIN F : c = F[i].arena
      BY <2>2 DEF Wk
    <3>2. F2[i] = F[i] /\ i \in DOMAIN F2
      BY <1>3, <1>4
    <3>3. Lists(N, F)[F[i].arena] = F[i].rest
      BY ListsAre
    <3>4. Lists(N, F2)[F2[i].arena] = F2[i].rest
      BY <1>7, <3>2, ListOfWalk, Zenon
    <3> QED BY <3>1, <3>2, <3>3, <3>4
  <2>3. CASE c # a /\ c \notin Wk(F)
    <3>1. c \in Arena \ Wk(F) /\ c \in Arena \ Wk(F2)
      BY <1>5, <2>3
    <3>2. Lists(N, F)[c] = N[c].blocks
      BY <3>1, ListsAre
    <3>3. Lists(N, F2)[c] = N[c].blocks
      BY <1>7, <3>1, ListsAre
    <3> QED BY <3>2, <3>3
  <2> QED BY <2>1, <2>2, <2>3
<1>9. Lists(N, F2) = Lists(N, F)
  <2>1. Lists(N, F2) = [c \in Arena |-> Lists(N, F2)[c]] /\ Lists(N, F) = [c \in Arena |-> Lists(N, F)[c]]
    BY DEF Lists
  <2> QED BY <1>8, <2>1
<1> QED BY <1>5, <1>7, <1>9

LEMMA WalkEnds ==
    ASSUME NEW E, NEW F, Frees(F, E), F # <<>>, NEW N, NEW N2, NEW a, a = Last(F).arena,
           \A c \in Arena \ {a} : N2[c] = N[c], NEW F2, F2 = Front(F)
    PROVE  /\ Frees(F2, E \ {a}) /\ Wk(F2) = Wk(F) \ {a} /\ a \in Wk(F) /\ a \in Arena
           /\ Lists(N, F)[a] = Last(F).rest
           /\ \A c \in Arena \ {a} : Lists(N2, F2)[c] = Lists(N, F)[c]
<1> DEFINE n == Len(F)
<1>1. F \in Seq(WalkSet) /\ n \in DOMAIN F /\ n \in Nat /\ DOMAIN F = 1..n
  BY DEF Frees
<1>2. F2 \in Seq(WalkSet) /\ DOMAIN F2 = 1..(n - 1) /\ \A i \in 1..(n - 1) : F2[i] = F[i]
  BY <1>1 DEF Front
<1>3. Last(F) = F[n] /\ F[n] \in WalkSet
  BY <1>1 DEF Last
<1> HIDE DEF n
<1>4. \A i : i \in DOMAIN F2 <=> i \in DOMAIN F /\ i # n
  BY <1>1, <1>2
<1>5. \A i \in DOMAIN F2 : F2[i] = F[i]
  BY <1>2
<1>6. \A i \in DOMAIN F : F[i].arena = a <=> i = n
  BY <1>1, <1>3 DEF Frees
<1>7. Wk(F2) = Wk(F) \ {a}
  BY <1>4, <1>5, <1>6 DEF Wk
<1>8. Frees(F2, E \ {a})
  BY <1>2, <1>4, <1>5, <1>7 DEF Frees
<1>9. a \in Wk(F) /\ a \in Arena
  BY <1>1, <1>3 DEF Wk, WalkSet
<1>10. Lists(N, F)[a] = F[n].rest
  BY <1>1, <1>3, ListsAre
<1>11. ASSUME NEW c \in Arena \ {a} PROVE Lists(N2, F2)[c] = Lists(N, F)[c]
  <2>1. CASE c \in Wk(F)
    <3>1. PICK i \in DOMAIN F : c = F[i].arena
      BY <2>1 DEF Wk
    <3>2. i \in DOMAIN F2 /\ F2[i] = F[i]
      BY <1>4, <1>5, <1>6, <1>11, <3>1
    <3>3. Lists(N, F)[F[i].arena] = F[i].rest
      BY ListsAre
    <3>4. Lists(N2, F2)[F2[i].arena] = F2[i].rest
      BY <1>8, <3>2, ListsAre
    <3> QED BY <3>1, <3>2, <3>3, <3>4
  <2>2. CASE c \notin Wk(F)
    <3>1. c \in Arena \ Wk(F) /\ c \in Arena \ Wk(F2)
      BY <1>7, <2>2
    <3>2. Lists(N, F)[c] = N[c].blocks
      BY <3>1, ListsAre
    <3>3. Lists(N2, F2)[c] = N2[c].blocks
      BY <1>8, <3>1, ListsAre
    <3> QED BY <3>2, <3>3
  <2> QED BY <2>1, <2>2
<1> QED BY <1>3, <1>7, <1>8, <1>9, <1>10, <1>11

-----------------------------------------------------------------------------
(* The whole system: arenas N, walks F, allocations V, heap H, counts.     *)

Of(V, a) == {x \in V : x.arena = a}

Local(N, W, V) ==
    /\ V \subseteq AllocSet /\ \A x \in V : x.arena \in Real(N) \ W
    /\ \A a \in Real(N) \ W : RecordOK(N[a], Of(V, a))

Core(N, F, V, H, count, own) ==
    /\ N \in [Arena -> Record \cup {NoArena}] /\ Frees(F, Real(N)) /\ Local(N, Wk(F), V)
    /\ Books(Real(N), Lists(N, F), Mems(N), H)
    /\ Counts(AllRefs(Real(N), Lists(N, F)), Real(N), Wk(F), count, own)

Put(N, a, r) == [N EXCEPT ![a] = r]

LEMMA Changed ==
    ASSUME NEW N \in [Arena -> Record \cup {NoArena}], NEW a \in Arena, NEW r \in Record,
           NEW N2, N2 = Put(N, a, r), NEW F
    PROVE  /\ N2 \in [Arena -> Record \cup {NoArena}] /\ N2[a] = r
           /\ \A c \in Arena \ {a} : N2[c] = N[c] /\ Mems(N2)[c] = Mems(N)[c]
           /\ Real(N2) = Real(N) \cup {a} /\ Mems(N2)[a] = r.mem
           /\ \A c \in Arena \ {a} : Lists(N2, F)[c] = Lists(N, F)[c]
           /\ a \notin Wk(F) => Lists(N2, F)[a] = r.blocks
<1>1. /\ N2 \in [Arena -> Record \cup {NoArena}] /\ N2[a] = r
      /\ \A c \in Arena \ {a} : N2[c] = N[c]
  BY DEF Put
<1>2. r # NoArena
  BY NotNoArena
<1> HIDE DEF NoArena
<1>3. Real(N2) = Real(N) \cup {a}
  BY <1>1, <1>2 DEF Real
<1>4. Mems(N2)[a] = r.mem /\ \A c \in Arena \ {a} : Mems(N2)[c] = Mems(N)[c]
  BY <1>1 DEF Mems
<1>5. /\ \A c \in Arena \ {a} : Lists(N2, F)[c] = Lists(N, F)[c]
      /\ a \notin Wk(F) => Lists(N2, F)[a] = r.blocks
  BY <1>1 DEF Lists
<1> QED BY <1>1, <1>3, <1>4, <1>5

LEMMA GrownList ==
    ASSUME NEW r \in Record, ListOK(r.blocks, r.mem), NEW r2, NEW got, Grown(r2, r, got),
           \A b \in got : BlockUnits(b) \cap Whole(r) = {}
    PROVE  /\ ListOK(r2.blocks, r.mem) /\ RefsIn(r2.blocks) = RefsIn(r.blocks)
           /\ BlocksIn(r2.blocks) = BlocksIn(r.blocks) \cup got
           /\ got \subseteq BlockSet /\ \A b, c \in got : b = c
<1>1. CASE got = {} /\ r2.blocks = r.blocks
  BY <1>1
<1>2. ASSUME NEW b \in BlockSet, got = {b}, r2.blocks = <<b>> \o r.blocks
      PROVE  /\ ListOK(r2.blocks, r.mem) /\ RefsIn(r2.blocks) = RefsIn(r.blocks)
             /\ BlocksIn(r2.blocks) = BlocksIn(r.blocks) \cup {b}
  <2> DEFINE s == r.blocks
             t == r2.blocks
             m == r.mem
  <2>1. b \in Listed /\ ~ IsRef(b)
    BY Kinds DEF Listed
  <2>2. b \notin ToSet(s)
    BY <1>2, <2>1, BlockNotEmpty DEF Whole, BlocksIn
  <2>3. ListOK(s, m) /\ t = <<b>> \o s
    BY <1>2
  <2> HIDE DEF s, t, m
  <2>4. /\ ListOK(t, m)
        /\ BlocksIn(t) = BlocksIn(s) \cup (IF IsRef(b) THEN {} ELSE {b})
        /\ RefsIn(t) = RefsIn(s) \cup (IF IsRef(b) THEN {b} ELSE {})
    BY <2>1, <2>2, <2>3, ListPrepend
  <2> QED BY <2>1, <2>4 DEF s, t, m
<1>3. \/ got = {} /\ r2.blocks = r.blocks
      \/ \E b \in BlockSet : got = {b} /\ r2.blocks = <<b>> \o r.blocks
  BY DEF Grown
<1>4. got \subseteq BlockSet /\ \A b, c \in got : b = c
  BY <1>3
<1> QED BY <1>1, <1>2, <1>3, <1>4

\* What an arena that is not being freed holds, is in use.
LEMMA CoreAt ==
    ASSUME NEW N, NEW F, NEW V, NEW H, NEW count, NEW own, Core(N, F, V, H, count, own),
           NEW a \in Real(N) \ Wk(F)
    PROVE  /\ a \in Arena /\ N[a] \in Record /\ RecordOK(N[a], Of(V, a)) /\ Of(V, a) \subseteq AllocSet
           /\ Lists(N, F)[a] = N[a].blocks /\ Mems(N)[a] = N[a].mem
           /\ ListOK(N[a].blocks, N[a].mem)
           /\ Whole(N[a]) \subseteq Used(Real(N), Mems(N), H)
           /\ FreeOf(N[a]) \subseteq Used(Real(N), Mems(N), H)
           /\ BlocksIn(N[a].blocks) \subseteq H
<1>1. a \in Arena /\ RecordOK(N[a], Of(V, a))
  BY DEF Core, Local, Real
<1>2. N[a] \in Record /\ Of(V, a) \subseteq AllocSet
  BY <1>1 DEF RecordOK, Core, Local, Of
<1>3. Lists(N, F)[a] = N[a].blocks /\ Mems(N)[a] = N[a].mem
  BY <1>1 DEF Lists, Mems
<1>4. ListOK(N[a].blocks, N[a].mem)
  BY <1>3 DEF Core, Books
<1>5. H = UNION {BlocksIn(Lists(N, F)[c]) : c \in Real(N)}
  BY DEF Core, Books
<1>6. BlocksIn(N[a].blocks) \subseteq H
  BY <1>3, <1>5
<1>7. BlockUnits(N[a].mem) \subseteq Used(Real(N), Mems(N), H)
  BY <1>3, MemUsed
<1>8. \A b \in H : BlockUnits(b) \subseteq Used(Real(N), Mems(N), H)
  BY DEF Used
<1>9. Whole(N[a]) \subseteq Used(Real(N), Mems(N), H)
  BY <1>6, <1>7, <1>8 DEF Whole
<1>10. FreeOf(N[a]) \subseteq Whole(N[a])
  BY <1>1, FreeInside
<1> QED BY <1>1, <1>2, <1>3, <1>4, <1>6, <1>9, <1>10

\* An arena grows, and its allocations change.
LEMMA CoreGrow ==
    ASSUME NEW N, NEW F, NEW V, NEW H, NEW count, NEW own, Core(N, F, V, H, count, own),
           NEW a \in Real(N) \ Wk(F), NEW r2, NEW got, Grown(r2, N[a], got),
           \A b \in got : BlockUnits(b) \cap Used(Real(N), Mems(N), H) = {},
           NEW V2, V2 \subseteq AllocSet, \A x \in V2 : x.arena = a \/ x \in V,
           \A x \in V : x.arena # a => x \in V2, RecordOK(r2, Of(V2, a)),
           NEW N2, N2 = Put(N, a, r2), NEW H2, H2 = H \cup got
    PROVE  Core(N2, F, V2, H2, count, own)
<1> DEFINE E == Real(N)
           L == Lists(N, F)
           L2 == Lists(N2, F)
           M == Mems(N)
           M2 == Mems(N2)
           W == Wk(F)
<1>1. /\ a \in Arena /\ N[a] \in Record /\ L[a] = N[a].blocks /\ M[a] = N[a].mem
      /\ ListOK(N[a].blocks, N[a].mem) /\ Whole(N[a]) \subseteq Used(E, M, H)
  BY CoreAt
<1>2. r2 \in Record /\ r2.mem = N[a].mem /\ N \in [Arena -> Record \cup {NoArena}]
  BY DEF Grown, Core
<1>3. /\ N2 \in [Arena -> Record \cup {NoArena}] /\ N2[a] = r2
      /\ \A c \in Arena \ {a} : N2[c] = N[c] /\ M2[c] = M[c] /\ L2[c] = L[c]
      /\ Real(N2) = E \cup {a} /\ M2[a] = r2.mem /\ L2[a] = r2.blocks
  <2>1. /\ N2 \in [Arena -> Record \cup {NoArena}] /\ N2[a] = r2
        /\ \A c \in Arena \ {a} : N2[c] = N[c] /\ Mems(N2)[c] = Mems(N)[c]
        /\ Real(N2) = Real(N) \cup {a} /\ Mems(N2)[a] = r2.mem
        /\ \A c \in Arena \ {a} : Lists(N2, F)[c] = Lists(N, F)[c]
        /\ a \notin Wk(F) => Lists(N2, F)[a] = r2.blocks
    <3>1. a \in Arena
      BY <1>1
    <3>2. r2 \in Record
      BY <1>2
    <3>3. N \in [Arena -> Record \cup {NoArena}]
      BY <1>2
    <3> QED BY <3>1, <3>2, <3>3, Changed
  <2> QED BY <2>1
<1>4. E \cup {a} = E /\ Real(N2) = E
  BY <1>3
<1>5. /\ ListOK(r2.blocks, N[a].mem) /\ RefsIn(r2.blocks) = RefsIn(N[a].blocks)
      /\ BlocksIn(r2.blocks) = BlocksIn(N[a].blocks) \cup got
      /\ got \subseteq BlockSet /\ \A b, c \in got : b = c
  BY <1>1, GrownList
<1>6. Others(E, L, M, L2, M2, a)
  BY <1>3 DEF Others, Real
<1>7. Books(E, L, M, H) /\ Counts(AllRefs(E, L), E, W, count, own) /\ Local(N, W, V) /\ Frees(F, E)
  BY DEF Core
<1> HIDE DEF E, L, L2, M, M2, W
<1>8. ListOK(L2[a], M2[a]) /\ M2[a] = M[a] /\ BlocksIn(L2[a]) = BlocksIn(L[a]) \cup got
      /\ RefsIn(L2[a]) = RefsIn(L[a]) /\ a \in E
  BY <1>1, <1>2, <1>3, <1>5 DEF E
<1>9. Books(E \cup {a}, L2, M2, H2)
  <2>1. \A b \in got : BlockUnits(b) \cap Used(E, M, H) = {}
    BY DEF E, M
  <2>2. Adds(E, L, M, H, L2, M2, a, got)
    BY <1>5, <1>6, <1>8, <2>1 DEF Adds
  <2> QED BY <1>7, <2>2, BooksAdd
<1>10. AllRefs(E, L2) = AllRefs(E, L)
  <2>1. \A c \in E \ {a} : L2[c] = L[c]
    BY <1>6 DEF Others
  <2>2. \A c \in E : RefsIn(L2[c]) = RefsIn(L[c])
    BY <1>8, <2>1
  <2> QED BY <2>2 DEF AllRefs
<1>11. Local(N2, W, V2)
  <2>1. \A x \in V2 : x.arena \in E \ W
    BY <1>7 DEF Local, E, W
  <2>2. ASSUME NEW c \in E \ W PROVE RecordOK(N2[c], Of(V2, c))
    <3>1. CASE c = a
      BY <1>3, <3>1
    <3>2. CASE c # a
      <4>1. Of(V2, c) = Of(V, c)
        BY <3>2 DEF Of
      <4>2. N2[c] = N[c]
        BY <1>3, <3>2 DEF E, Real
      <4> QED BY <1>7, <4>1, <4>2 DEF Local, E
    <3> QED BY <3>1, <3>2
  <2> QED BY <1>4, <2>1, <2>2 DEF Local
<1> QED BY <1>3, <1>4, <1>7, <1>9, <1>10, <1>11 DEF Core, E, L, L2, M, M2, W

\* An arena takes a reference.
LEMMA CoreRef ==
    ASSUME NEW N, NEW F, NEW V, NEW H, NEW count, NEW own, Core(N, F, V, H, count, own),
           NEW a \in Real(N) \ Wk(F), NEW to \in Real(N) \ Wk(F), NEW o,
           Served(o, N[a], AllocSpan(RefReserve), Used(Real(N), Mems(N), H)),
           NEW b, b = RefTo(o.p, to), NEW r2, r2 = WithRef(o.arena, b),
           NEW N2, N2 = Put(N, a, r2), NEW H2, H2 = H \cup o.got
    PROVE  Core(N2, F, V, H2, [count EXCEPT ![to] = @ + 1], own)
<1> DEFINE E == Real(N)
           L == Lists(N, F)
           L2 == Lists(N2, F)
           M == Mems(N)
           M2 == Mems(N2)
           W == Wk(F)
           got == o.got
           s == o.arena
           r == N[a]
<1>1. /\ a \in Arena /\ r \in Record /\ L[a] = r.blocks /\ M[a] = r.mem
      /\ ListOK(r.blocks, r.mem) /\ Whole(r) \subseteq Used(E, M, H) /\ RecordOK(r, Of(V, a))
  BY CoreAt
<1>2. to \in Arena /\ N \in [Arena -> Record \cup {NoArena}]
  BY DEF Core, Real
<1>3. Grown(s, r, got) /\ \A c \in got : BlockUnits(c) \cap Used(E, M, H) = {}
  BY DEF Served
<1>4. /\ RecordOK(r2, Of(V, a)) /\ r2.mem = r.mem /\ b \in RefSet /\ r2.blocks = <<b>> \o s.blocks
      /\ b \notin RefsIn(s.blocks) /\ RefPlace(b) \subseteq Whole(s)
  <2> DEFINE X == Of(V, a)
             U == Used(E, M, H)
  <2>1. Served(o, r, AllocSpan(RefReserve), U) /\ RecordOK(r, X) /\ Whole(r) \subseteq U
    BY <1>1
  <2> HIDE DEF X, U, r
  <2>2. /\ RecordOK(r2, X) /\ r2.mem = r.mem /\ b \in RefSet /\ r2.blocks = <<b>> \o o.arena.blocks
        /\ b \notin RefsIn(o.arena.blocks) /\ RefPlace(b) \subseteq Whole(o.arena)
    <3>1. Backed(r, X, U)
      BY <2>1 DEF Backed
    <3>2. Served(o, r, AllocSpan(RefReserve), U)
      BY <2>1
    <3>3. to \in Arena
      BY <1>2
    <3>4. RefGiven(r, X, U, o, to, b, r2)
      BY <3>1, <3>2, <3>3 DEF RefGiven
    <3>5. RefTaken(r, X, o, b, r2)
      BY <3>4, RefOK
    <3> QED BY <3>5 DEF RefTaken
  <2> QED BY <2>2 DEF X
<1>5. /\ ListOK(s.blocks, r.mem) /\ RefsIn(s.blocks) = RefsIn(r.blocks)
      /\ BlocksIn(s.blocks) = BlocksIn(r.blocks) \cup got
      /\ got \subseteq BlockSet /\ \A c, d \in got : c = d
  <2>1. \A c \in got : BlockUnits(c) \cap Whole(r) = {}
    BY <1>1, <1>3
  <2> HIDE DEF s, got, r
  <2> QED BY <1>1, <1>3, <2>1, GrownList
<1>6. b.to = to /\ IsRef(b) /\ b \in Listed
  BY <1>4 DEF RefTo, IsRef, Listed
<1>7. r2 \in Record /\ s.mem = r.mem
  BY <1>3, <1>4 DEF RecordOK, Grown
<1>8. /\ N2 \in [Arena -> Record \cup {NoArena}] /\ N2[a] = r2
      /\ \A c \in Arena \ {a} : N2[c] = N[c] /\ Mems(N2)[c] = Mems(N)[c]
      /\ Real(N2) = Real(N) \cup {a} /\ Mems(N2)[a] = r2.mem
      /\ \A c \in Arena \ {a} : Lists(N2, F)[c] = Lists(N, F)[c]
      /\ a \notin Wk(F) => Lists(N2, F)[a] = r2.blocks
  <2>1. a \in Arena /\ r2 \in Record /\ N \in [Arena -> Record \cup {NoArena}]
    BY <1>1, <1>2, <1>7
  <2> QED BY <2>1, Changed
<1>9. Books(E, L, M, H) /\ Counts(AllRefs(E, L), E, W, count, own) /\ Local(N, W, V) /\ Frees(F, E)
  BY DEF Core
<1>10. /\ ListOK(r2.blocks, r.mem) /\ BlocksIn(r2.blocks) = BlocksIn(s.blocks)
       /\ RefsIn(r2.blocks) = RefsIn(s.blocks) \cup {b}
  <2> DEFINE l == s.blocks
             l2 == r2.blocks
             m == r.mem
  <2>1. b \notin ToSet(l)
    BY <1>4, <1>6 DEF RefsIn
  <2>2. RefPlace(b) \subseteq HeldBy(l, m)
    BY <1>4, <1>7 DEF Whole, HeldBy
  <2>3. ListOK(l, m) /\ l2 = <<b>> \o l
    BY <1>4, <1>5
  <2> HIDE DEF l, l2, m
  <2>4. /\ ListOK(l2, m)
        /\ BlocksIn(l2) = BlocksIn(l) \cup (IF IsRef(b) THEN {} ELSE {b})
        /\ RefsIn(l2) = RefsIn(l) \cup (IF IsRef(b) THEN {b} ELSE {})
    BY <1>6, <2>1, <2>2, <2>3, ListPrepend
  <2> QED BY <1>6, <2>4 DEF l, l2, m
<1>11. /\ ListOK(L2[a], M2[a]) /\ M2[a] = M[a] /\ BlocksIn(L2[a]) = BlocksIn(L[a]) \cup got
       /\ RefsIn(L2[a]) = RefsIn(L[a]) \cup {b} /\ a \in E /\ E \cup {a} = E /\ Real(N2) = E
  BY <1>1, <1>4, <1>5, <1>8, <1>10
<1>12. Others(E, L, M, L2, M2, a)
  BY <1>8 DEF Others, Real
<1> HIDE DEF E, L, L2, M, M2, W, got, s, r
<1>13. Books(E \cup {a}, L2, M2, H2)
  <2>1. H2 = H \cup got
    BY DEF got
  <2>2. Adds(E, L, M, H, L2, M2, a, got)
    BY <1>3, <1>5, <1>11, <1>12 DEF Adds
  <2> QED BY <1>9, <2>1, <2>2, BooksAdd
<1>14. AllRefs(E \cup {a}, L2) = AllRefs(E, L) \cup {b}
  <2>1. \A c \in E \ {a} : L2[c] = L[c]
    BY <1>12 DEF Others
  <2>2. RefsIn(L2[a]) = (IF a \in E THEN RefsIn(L[a]) \cup {b} ELSE {b})
    BY <1>11
  <2> DEFINE R == {b}
  <2> HIDE DEF R
  <2>3. RefsIn(L2[a]) = (IF a \in E THEN RefsIn(L[a]) \cup R ELSE R)
    BY <2>2 DEF R
  <2>4. AllRefs(E \cup {a}, L2) = AllRefs(E, L) \cup R
    <3>1. Gains(E, L, L2, a, R)
      BY <2>1, <2>3 DEF Gains
    <3> QED BY <3>1, RefsGained
  <2> QED BY <2>4 DEF R
<1>15. b \notin AllRefs(E, L)
  <2>1. b \notin RefsIn(L[a])
    BY <1>1, <1>4, <1>5
  <2>2. ASSUME NEW c \in E, c # a PROVE b \notin RefsIn(L[c])
    <3>1. RefsIn(L2[a]) \cap RefsIn(L2[c]) = {}
      <4>1. Books(E, L2, M2, H2) /\ a \in E
        BY <1>11, <1>13
      <4> QED BY <2>2, <4>1, HeldApart
    <3>2. L2[c] = L[c] /\ b \in RefsIn(L2[a])
      BY <1>11, <1>12, <2>2 DEF Others
    <3> QED BY <3>1, <3>2
  <2> QED BY <2>1, <2>2 DEF AllRefs
<1>16. Counts(AllRefs(E, L) \cup {b}, E, W, [count EXCEPT ![to] = @ + 1], own)
  <2>1. b.to \in E \ W
    BY <1>6 DEF E, W
  <2>2. Counts(AllRefs(E, L) \cup {b}, E, W, [count EXCEPT ![b.to] = @ + 1], own)
    BY <1>9, <1>15, <2>1, CountsRef
  <2> QED BY <1>6, <2>2
<1>17. Local(N2, W, V)
  <2>1. \A x \in V : x.arena \in E \ W
    BY <1>9 DEF Local, E
  <2>2. ASSUME NEW c \in E \ W PROVE RecordOK(N2[c], Of(V, c))
    <3>1. CASE c = a
      BY <1>4, <1>8, <3>1
    <3>2. CASE c # a
      <4>1. N2[c] = N[c]
        BY <1>8, <3>2 DEF E, Real
      <4> QED BY <1>9, <4>1 DEF Local, E
    <3> QED BY <3>1, <3>2
  <2> QED BY <1>9, <1>11, <2>1, <2>2 DEF Local
<1> QED BY <1>8, <1>9, <1>11, <1>13, <1>14, <1>16, <1>17 DEF Core, E, L, L2, M, M2, W

\* An arena is made.
LEMMA CoreNew ==
    ASSUME NEW N, NEW F, NEW V, NEW H, NEW count, NEW own, Core(N, F, V, H, count, own),
           NEW a \in Arena, a \notin Real(N), NEW r, RecordOK(r, {}), ListOK(r.blocks, r.mem),
           RefsIn(r.blocks) = {}, NEW got, BlocksIn(r.blocks) = got,
           got \subseteq BlockSet, \A b, c \in got : b = c,
           \A b \in got : /\ BlockUnits(b) \cap Used(Real(N), Mems(N), H) = {}
                          /\ BlockUnits(b) \cap BlockUnits(r.mem) = {},
           BlockUnits(r.mem) \cap Used(Real(N), Mems(N), H) = {},
           NEW N2, N2 = Put(N, a, r), NEW H2, H2 = H \cup got
    PROVE  Core(N2, F, V, H2, [count EXCEPT ![a] = 1], own \cup {a})
<1> DEFINE E == Real(N)
           L == Lists(N, F)
           L2 == Lists(N2, F)
           M == Mems(N)
           M2 == Mems(N2)
           W == Wk(F)
<1>1. Books(E, L, M, H) /\ Counts(AllRefs(E, L), E, W, count, own) /\ Local(N, W, V) /\ Frees(F, E)
      /\ N \in [Arena -> Record \cup {NoArena}]
  BY DEF Core
<1>2. r \in Record
  BY DEF RecordOK
<1>3. /\ N2 \in [Arena -> Record \cup {NoArena}] /\ N2[a] = r
      /\ \A c \in Arena \ {a} : N2[c] = N[c] /\ Mems(N2)[c] = Mems(N)[c]
      /\ Real(N2) = Real(N) \cup {a} /\ Mems(N2)[a] = r.mem
      /\ \A c \in Arena \ {a} : Lists(N2, F)[c] = Lists(N, F)[c]
      /\ a \notin Wk(F) => Lists(N2, F)[a] = r.blocks
  <2>1. N \in [Arena -> Record \cup {NoArena}]
    BY <1>1
  <2> QED BY <1>2, <2>1, Changed
<1>4. a \notin W /\ W \subseteq E
  BY <1>1 DEF Frees
<1>5. Others(E, L, M, L2, M2, a) /\ a \notin E /\ L2[a] = r.blocks /\ M2[a] = r.mem
  BY <1>3, <1>4 DEF Others, Real
<1>6. /\ \A b \in got : BlockUnits(b) \cap Used(E, M, H) = {} /\ BlockUnits(b) \cap BlockUnits(M2[a]) = {}
      /\ BlockUnits(M2[a]) \cap Used(E, M, H) = {}
  BY <1>5
<1> HIDE DEF E, L, L2, M, M2, W
<1>7. Books(E \cup {a}, L2, M2, H2)
  <2>1. Adds(E, L, M, H, L2, M2, a, got)
    BY <1>5, <1>6 DEF Adds
  <2> QED BY <1>1, <2>1, BooksAdd
<1>8. AllRefs(E \cup {a}, L2) = AllRefs(E, L)
  <2>1. \A c \in E \ {a} : L2[c] = L[c]
    BY <1>5 DEF Others
  <2> DEFINE R == {}
  <2>2. RefsIn(L2[a]) = (IF a \in E THEN RefsIn(L[a]) \cup R ELSE R)
    BY <1>5
  <2> HIDE DEF R
  <2>3. AllRefs(E \cup {a}, L2) = AllRefs(E, L) \cup R
    <3>1. Gains(E, L, L2, a, R)
      BY <2>1, <2>2 DEF Gains
    <3> QED BY <3>1, RefsGained
  <2> QED BY <2>3 DEF R
<1>9. Counts(AllRefs(E, L), E \cup {a}, W, [count EXCEPT ![a] = 1], own \cup {a})
  BY <1>1, <1>4, <1>5, CountsNew
<1>10. Local(N2, W, V)
  <2>1. \A x \in V : x.arena \in (E \cup {a}) \ W /\ x.arena # a
    BY <1>1, <1>5 DEF Local, E
  <2>2. ASSUME NEW c \in (E \cup {a}) \ W PROVE RecordOK(N2[c], Of(V, c))
    <3>1. CASE c = a
      <4>1. Of(V, a) = {}
        BY <2>1 DEF Of
      <4> QED BY <1>3, <3>1, <4>1
    <3>2. CASE c # a
      <4>1. N2[c] = N[c] /\ c \in E \ W
        BY <1>3, <3>2 DEF E, Real
      <4> QED BY <1>1, <4>1 DEF Local, E
    <3> QED BY <3>1, <3>2
  <2> QED BY <1>1, <1>3, <2>1, <2>2 DEF Local, E
<1>11. Frees(F, E \cup {a})
  BY <1>1 DEF Frees
<1> QED BY <1>3, <1>7, <1>8, <1>9, <1>10, <1>11 DEF Core, E, L, L2, M, M2, W

\* What is left of the allocations when a reference to t goes.
Kept(V, t, count) == {x \in V : x.arena # t \/ count[t] > 1}

LEMMA LocalWalk ==
    ASSUME NEW N, NEW W, NEW V, Local(N, W, V), NEW t, NEW count, count[t] = 1
    PROVE  Local(N, W \cup {t}, Kept(V, t, count))
<1>1. Kept(V, t, count) = {x \in V : x.arena # t}
  BY DEF Kept
<1>2. \A c \in Real(N) \ (W \cup {t}) : Of(Kept(V, t, count), c) = Of(V, c)
  BY <1>1 DEF Of
<1> QED BY <1>1, <1>2 DEF Local

LEMMA KeptAll ==
    ASSUME NEW V, NEW t, NEW count, count[t] > 1
    PROVE  Kept(V, t, count) = V
BY DEF Kept

\* An arena is freed by its creator.
LEMMA CoreFree ==
    ASSUME NEW N, NEW F, NEW V, NEW H, NEW count, NEW own, Core(N, F, V, H, count, own),
           NEW a \in own
    PROVE  /\ count[a] = 1 => Core(N, Begun(F, N, a), Kept(V, a, count), H, count, own \ {a})
           /\ count[a] # 1 => Core(N, F, Kept(V, a, count), H, Minus(count, a), own \ {a})
<1> DEFINE E == Real(N)
           L == Lists(N, F)
           M == Mems(N)
           W == Wk(F)
           F2 == Begun(F, N, a)
<1>1. /\ Books(E, L, M, H) /\ Counts(AllRefs(E, L), E, W, count, own) /\ Local(N, W, V) /\ Frees(F, E)
      /\ N \in [Arena -> Record \cup {NoArena}]
  BY DEF Core
<1>2. a \in E \ W
  BY <1>1 DEF Counts
<1>3. a \in Arena /\ N[a] \in Record
  BY <1>2, CoreAt
<1>4. N[a].blocks \in Seq(Listed)
  BY <1>3, Fields
<1>5. Frees(F2, E) /\ Wk(F2) = W \cup {a} /\ Lists(N, F2) = L
  <2> HIDE DEF E
  <2> QED BY <1>1, <1>2, <1>3, <1>4, WalkBegins
<1>6. /\ count[a] = 1 => Counts(AllRefs(E, L), E, W \cup {a}, count, own \ {a})
      /\ count[a] # 1 => Counts(AllRefs(E, L), E, W, Minus(count, a), own \ {a}) /\ count[a] > 1
  <2> DEFINE A == AllRefs(E, L)
  <2> HIDE DEF A, E, W
  <2>1. Counts(A, E, W, count, own)
    BY <1>1 DEF A
  <2> QED BY <2>1, CountsFree DEF A
<1> HIDE DEF F2
<1>7. ASSUME count[a] = 1 PROVE Core(N, F2, Kept(V, a, count), H, count, own \ {a})
  <2>1. Local(N, W \cup {a}, Kept(V, a, count))
    BY <1>1, <1>7, LocalWalk
  <2> QED BY <1>1, <1>5, <1>6, <1>7, <2>1 DEF Core
<1>8. ASSUME count[a] # 1
      PROVE  Core(N, F, Kept(V, a, count), H, Minus(count, a), own \ {a})
  <2>1. Kept(V, a, count) = V
    BY <1>6, <1>8, KeptAll
  <2> QED BY <1>1, <1>6, <1>8, <2>1 DEF Core
<1> QED BY <1>7, <1>8 DEF F2

\* A walk passes an entry: what happens to the books.
LEMMA BooksPop ==
    ASSUME NEW N, NEW F, NEW V, NEW H, NEW count, NEW own, Core(N, F, V, H, count, own),
           F # <<>>, Last(F).rest # <<>>, NEW b, b = Head(Last(F).rest),
           NEW F2, F2 = Popped(F), NEW H2, H2 = (IF IsRef(b) THEN H ELSE H \ {b})
    PROVE  /\ Books(Real(N), Lists(N, F2), Mems(N), H2) /\ Frees(F2, Real(N)) /\ Wk(F2) = Wk(F)
           /\ b \in Listed
           /\ IF IsRef(b) THEN /\ b \in AllRefs(Real(N), Lists(N, F))
                               /\ AllRefs(Real(N), Lists(N, F2)) = AllRefs(Real(N), Lists(N, F)) \ {b}
              ELSE AllRefs(Real(N), Lists(N, F2)) = AllRefs(Real(N), Lists(N, F))
<1> DEFINE E == Real(N)
           L == Lists(N, F)
           L2 == Lists(N, F2)
           M == Mems(N)
           a == Last(F).arena
           R == IF IsRef(b) THEN {b} ELSE {}
           gone == IF IsRef(b) THEN {} ELSE {b}
<1>1. Books(E, L, M, H) /\ Frees(F, E)
  BY DEF Core
<1>2. /\ Frees(F2, E) /\ Wk(F2) = Wk(F) /\ a \in Wk(F) /\ a \in Arena
      /\ L[a] = Last(F).rest
      /\ L2[a] = Tail(Last(F).rest)
      /\ \A c \in Arena \ {a} : L2[c] = L[c]
  <2>1. Passes(E, F, N, F2, a)
    BY <1>1 DEF Passes
  <2> HIDE DEF a, E
  <2>2. Frees(F2, E) /\ Wk(F2) = Wk(F) /\ a \in Wk(F) /\ a \in Arena
    BY <2>1, WalkStep
  <2>3. Lists(N, F)[a] = Last(F).rest /\ Lists(N, F2)[a] = Tail(Last(F).rest)
    BY <2>1, WalkStep
  <2>4. \A c \in Arena \ {a} : Lists(N, F2)[c] = Lists(N, F)[c]
    BY <2>1, WalkStep
  <2> QED BY <2>2, <2>3, <2>4
<1>3. a \in E /\ E \subseteq Arena
  BY <1>1, <1>2 DEF Frees, Real
<1>4. ListOK(L[a], M[a])
  BY <1>1, <1>3 DEF Books
<1>5. L[a] # <<>> /\ L2[a] = Tail(L[a]) /\ b = Head(L[a])
  BY <1>2
<1> HIDE DEF E, L, L2, M, a
<1>6. /\ ListOK(L2[a], M[a]) /\ b \in Listed
      /\ BlocksIn(L2[a]) = BlocksIn(L[a]) \ {b} /\ RefsIn(L2[a]) = RefsIn(L[a]) \ {b}
      /\ IF IsRef(b) THEN b \in RefsIn(L[a]) /\ b \notin BlocksIn(L[a])
         ELSE b \in BlocksIn(L[a]) /\ b \notin RefsIn(L[a])
  <2> DEFINE s == L[a]
             t == L2[a]
             m == M[a]
  <2>1. ListOK(s, m) /\ s # <<>> /\ t = Tail(s) /\ b = Head(s)
    BY <1>4, <1>5
  <2> HIDE DEF s, t, m
  <2>2. /\ ListOK(t, m) /\ b \in Listed
        /\ BlocksIn(t) = BlocksIn(s) \ {b} /\ RefsIn(t) = RefsIn(s) \ {b}
        /\ IF IsRef(b) THEN b \in RefsIn(s) /\ b \notin BlocksIn(s)
           ELSE b \in BlocksIn(s) /\ b \notin RefsIn(s)
    BY <2>1, ListTail
  <2> QED BY <2>2 DEF s, t, m
<1>7. /\ gone \subseteq BlocksIn(L[a]) /\ BlocksIn(L2[a]) = BlocksIn(L[a]) \ gone /\ H2 = H \ gone
      /\ R \subseteq RefsIn(L[a]) /\ RefsIn(L2[a]) = RefsIn(L[a]) \ R
  BY <1>6
<1>8. Others(E, L, M, L2, M, a)
  BY <1>2, <1>3 DEF Others
<1> HIDE DEF R, gone
<1>9. Books(E, L2, M, H2)
  BY <1>1, <1>3, <1>6, <1>7, <1>8, BooksTake
<1>10. AllRefs(E, L2) = AllRefs(E, L) \ R /\ R \subseteq AllRefs(E, L)
  <2>1. \A c \in E \ {a} : RefsIn(L[a]) \cap RefsIn(L[c]) = {}
    BY <1>1, <1>3, HeldApart
  <2>2. \A c \in E \ {a} : L2[c] = L[c]
    BY <1>2, <1>3
  <2>3. Loses(E, L, L2, a, R)
    BY <1>3, <1>7, <2>1, <2>2 DEF Loses
  <2> QED BY <2>3, RefsLost
<1> QED BY <1>2, <1>6, <1>9, <1>10 DEF R, E, L, L2, M

\* A walk gives a block back.
LEMMA CoreFreeBlock ==
    ASSUME NEW N, NEW F, NEW V, NEW H, NEW count, NEW own, Core(N, F, V, H, count, own),
           F # <<>>, Last(F).rest # <<>>, NEW b, b = Head(Last(F).rest), ~ IsRef(b)
    PROVE  Core(N, Popped(F), V, H \ {b}, count, own)
<1> DEFINE F2 == Popped(F)
           H2 == H \ {b}
           E == Real(N)
<1>1. H2 = (IF IsRef(b) THEN H ELSE H \ {b})
  OBVIOUS
<1> HIDE DEF F2, H2
<1>2. /\ Books(Real(N), Lists(N, F2), Mems(N), H2) /\ Frees(F2, Real(N)) /\ Wk(F2) = Wk(F)
      /\ b \in Listed
      /\ IF IsRef(b) THEN /\ b \in AllRefs(Real(N), Lists(N, F))
                          /\ AllRefs(Real(N), Lists(N, F2)) = AllRefs(Real(N), Lists(N, F)) \ {b}
         ELSE AllRefs(Real(N), Lists(N, F2)) = AllRefs(Real(N), Lists(N, F))
  <2>1. F2 = Popped(F)
    BY DEF F2
  <2> QED BY <1>1, <2>1, BooksPop
<1>3. Core(N, F2, V, H2, count, own)
  BY <1>2 DEF Core
<1> QED BY <1>3 DEF F2, H2

\* The next entry of the innermost walk is the reference b to t.
AtRef(F, b, t) ==
    F # <<>> /\ Last(F).rest # <<>> /\ b = Head(Last(F).rest) /\ IsRef(b) /\ t = b.to

\* A walk releases a reference to t.
LEMMA CoreRelease ==
    ASSUME NEW N, NEW F, NEW V, NEW H, NEW count, NEW own, Core(N, F, V, H, count, own),
           NEW b, NEW t, AtRef(F, b, t)
    PROVE  /\ t \in Real(N) \ Wk(F)
           /\ count[t] = 1 => /\ Core(N, Begun(Popped(F), N, t), Kept(V, t, count), H, count, own)
                              /\ t \notin own
           /\ count[t] # 1 => Core(N, Popped(F), Kept(V, t, count), H, Minus(count, t), own)
<1> DEFINE F2 == Popped(F)
           F3 == Begun(F2, N, t)
           E == Real(N)
           L == Lists(N, F)
           L2 == Lists(N, F2)
           M == Mems(N)
           W == Wk(F)
           A == AllRefs(E, L)
           A2 == AllRefs(E, L2)
<1>1. H = (IF IsRef(b) THEN H ELSE H \ {b}) /\ F2 = Popped(F)
  BY DEF AtRef
<1> HIDE DEF F2
<1>2. Books(E, L2, M, H) /\ Frees(F2, E) /\ Wk(F2) = W /\ b \in Listed /\ b \in A /\ A2 = A \ {b}
  BY <1>1, BooksPop DEF AtRef
<1>3. t \in Arena
  BY <1>2, Kinds DEF AtRef
<1>4. Counts(A, E, W, count, own) /\ Local(N, W, V) /\ N \in [Arena -> Record \cup {NoArena}]
  BY DEF Core
<1> HIDE DEF E, L, L2, M, W, A, A2, F3
<1>5. /\ t \in E \ W
      /\ count[t] = 1 => Counts(A \ {b}, E, W \cup {t}, count, own) /\ t \notin own
      /\ count[t] # 1 => Counts(A \ {b}, E, W, Minus(count, t), own) /\ count[t] > 1
  <2>1. Releases(A, E, W, count, own, b, t)
    BY <1>2, <1>3, <1>4 DEF Releases, AtRef
  <2>2. /\ t \in E \ W
        /\ One(count, t) => Counts(A \ {b}, E, W \cup {t}, count, own) /\ t \notin own
        /\ ~ One(count, t) => Counts(A \ {b}, E, W, Minus(count, t), own) /\ Many(count, t)
    BY <2>1, CountsRelease
  <2> QED BY <2>2 DEF One, Many
<1>6. N[t].blocks \in Seq(Listed)
  <2>1. N[t] \in Record
    BY <1>5, CoreAt DEF E, W
  <2> QED BY <2>1, Fields
<1>7. Frees(F3, E) /\ Wk(F3) = W \cup {t} /\ Lists(N, F3) = L2
  <2>1. t \in E /\ t \notin Wk(F2) /\ F3 = Begun(F2, N, t)
    BY <1>2, <1>5 DEF F3
  <2> QED BY <1>2, <1>3, <1>6, <2>1, WalkBegins DEF L2
<1>8. ASSUME count[t] = 1 PROVE Core(N, F3, Kept(V, t, count), H, count, own) /\ t \notin own
  <2>1. Local(N, W \cup {t}, Kept(V, t, count))
    BY <1>4, <1>8, LocalWalk
  <2>2. Counts(A2, E, W \cup {t}, count, own) /\ t \notin own
    BY <1>2, <1>5, <1>8
  <2> QED BY <1>2, <1>4, <1>7, <2>1, <2>2 DEF Core, E, M, A2
<1>9. ASSUME count[t] # 1
      PROVE  Core(N, F2, Kept(V, t, count), H, Minus(count, t), own)
  <2>1. Kept(V, t, count) = V
    BY <1>5, <1>9, KeptAll
  <2>2. Counts(A2, E, W, Minus(count, t), own)
    BY <1>2, <1>5, <1>9
  <2> QED BY <1>2, <1>4, <2>1, <2>2 DEF Core, E, M, A2, L2
<1> QED BY <1>5, <1>8, <1>9 DEF F2, F3, E, W

\* A walk ends, and its arena is gone.
LEMMA CoreDone ==
    ASSUME NEW N, NEW F, NEW V, NEW H, NEW count, NEW own, Core(N, F, V, H, count, own),
           F # <<>>, Last(F).rest = <<>>, NEW a, a = Last(F).arena
    PROVE  /\ Core(Put(N, a, NoArena), Front(F), V, H, [count EXCEPT ![a] = 0], own)
           /\ a \in Real(N) /\ a \in Wk(F)
<1> DEFINE N2 == Put(N, a, NoArena)
           F2 == Front(F)
           E == Real(N)
           L == Lists(N, F)
           L2 == Lists(N2, F2)
           M == Mems(N)
           M2 == Mems(N2)
           W == Wk(F)
           A == AllRefs(E, L)
<1>1. /\ Books(E, L, M, H) /\ Counts(A, E, W, count, own) /\ Local(N, W, V) /\ Frees(F, E)
      /\ N \in [Arena -> Record \cup {NoArena}]
  BY DEF Core
<1>2. a \in Arena
  <2>1. Len(F) \in DOMAIN F /\ F \in Seq(WalkSet)
    BY <1>1 DEF Frees
  <2>2. F[Len(F)] \in WalkSet /\ Last(F) = F[Len(F)]
    BY <2>1 DEF Last
  <2> QED BY <2>2 DEF WalkSet
<1> HIDE DEF NoArena
<1>3. /\ N2 \in [Arena -> Record \cup {NoArena}] /\ N2[a] = NoArena
      /\ \A c \in Arena \ {a} : N2[c] = N[c]
  BY <1>1, <1>2 DEF Put
<1> HIDE DEF N2, F2
<1>4. Real(N2) = E \ {a} /\ E \subseteq Arena
  BY <1>3 DEF Real
<1>5. /\ Frees(F2, E \ {a}) /\ Wk(F2) = Wk(F) \ {a} /\ a \in Wk(F) /\ a \in Arena
      /\ L[a] = Last(F).rest
      /\ \A c \in Arena \ {a} : L2[c] = L[c]
  <2>1. F2 = Front(F) /\ Frees(F, E) /\ \A c \in Arena \ {a} : N2[c] = N[c]
    BY <1>1, <1>3 DEF F2
  <2> HIDE DEF E
  <2> QED BY <2>1, WalkEnds
<1>6. a \in E
  BY <1>1, <1>5 DEF Frees
<1>7. L[a] = <<>> /\ ToSet(L[a]) = {} /\ BlocksIn(L[a]) = {} /\ RefsIn(L[a]) = {}
  BY <1>5 DEF ToSet, BlocksIn, RefsIn
<1>8. Others(E, L, M, L2, M2, a)
  BY <1>3, <1>4, <1>5 DEF Others, Mems
<1> HIDE DEF E, L, L2, M, M2, W, A
<1>9. Books(E \ {a}, L2, M2, H)
  BY <1>1, <1>6, <1>7, <1>8, BooksDrop
<1>10. AllRefs(E \ {a}, L2) = A
  <2>1. \A c \in E \ {a} : L2[c] = L[c]
    BY <1>8 DEF Others
  <2>2. \A b : b \in AllRefs(E \ {a}, L2) <=> \E c \in E \ {a} : b \in RefsIn(L[c])
    BY <2>1 DEF AllRefs
  <2>3. \A b : b \in A <=> \E c \in E : b \in RefsIn(L[c])
    BY DEF AllRefs, A
  <2> QED BY <1>7, <2>2, <2>3
<1>11. Counts(A, E \ {a}, W \ {a}, [count EXCEPT ![a] = 0], own)
  BY <1>1, <1>5, CountsDrop DEF W
<1>12. Local(N2, W \ {a}, V)
  <2>1. (E \ {a}) \ (W \ {a}) = E \ W /\ a \in W
    BY <1>5 DEF W
  <2>2. \A c \in E \ W : N2[c] = N[c]
    BY <1>3, <1>4, <2>1
  <2> QED BY <1>1, <1>4, <2>1, <2>2 DEF Local, E
<1>13. Core(N2, F2, V, H, [count EXCEPT ![a] = 0], own)
  BY <1>3, <1>4, <1>5, <1>9, <1>10, <1>11, <1>12 DEF Core, L2, M2, W
<1> QED BY <1>5, <1>6, <1>13 DEF N2, F2, E

-----------------------------------------------------------------------------
(* The invariant.  Now is the state of each arena as its callers see it,   *)
(* through the innermost decoder's copy if there is one.                   *)

Now == [a \in Arena |-> Current(a)]

View ==
    /\ arena \in [Arena -> Record \cup {NoArena}] /\ decoders \in Seq(Record)
    /\ decoding = {} <=> decoders = <<>>
    /\ \A a \in decoding : /\ decoding = {a} /\ a \in Arena /\ a \in owned /\ Exists(a)
                           /\ \A i \in DOMAIN decoders : decoders[i].mem = arena[a].mem

AllocInv ==
    View /\ max_block_size \in Nat /\ Core(Now, freeing, live, heap, refcount, owned)

\* What SwitchGains says of one arena.
Gain(r, r2) == r.blocks # <<>> /\ r2.end # r.end => ArenaHas(r2) > ArenaHas(r)

Steady == \A c \in Arena : Exists(c) /\ Exists(c)' => Gain(Now[c], Now'[c])

LEMMA Decoding ==
    ASSUME View, NEW a \in decoding
    PROVE  /\ a \in Arena /\ Exists(a) /\ decoding = {a} /\ a \in owned
           /\ Len(decoders) \in Nat /\ Len(decoders) \in DOMAIN decoders /\ decoders # <<>>
           /\ Last(decoders) \in Record /\ Last(decoders) = decoders[Len(decoders)]
           /\ Last(decoders).mem = arena[a].mem /\ arena[a] \in Record
<1>1. /\ a \in Arena /\ Exists(a) /\ decoding = {a} /\ a \in owned /\ decoders # <<>>
      /\ decoders \in Seq(Record) /\ arena \in [Arena -> Record \cup {NoArena}]
      /\ \A i \in DOMAIN decoders : decoders[i].mem = arena[a].mem
  BY DEF View
<1> HIDE DEF Exists
<1>2. Len(decoders) \in Nat /\ Len(decoders) \in DOMAIN decoders
  BY <1>1
<1>3. Last(decoders) = decoders[Len(decoders)]
  BY DEF Last
<1>4. decoders[Len(decoders)] \in Record
  BY <1>1, <1>2
<1>5. arena[a] \in Record
  BY <1>1 DEF Exists
<1> QED BY <1>1, <1>2, <1>3, <1>4, <1>5

LEMMA NowIs ==
    ASSUME View
    PROVE  /\ Now \in [Arena -> Record \cup {NoArena}]
           /\ \A a \in Arena : Now[a] = Current(a)
           /\ \A a \in Arena : Now[a] # NoArena <=> Exists(a)
           /\ \A a \in Arena : Exists(a) => Now[a] \in Record /\ Now[a].mem = arena[a].mem
<1>1. \A a \in Arena : Now[a] = Current(a)
  BY DEF Now
<1>2. ASSUME NEW a \in Arena
      PROVE  /\ Current(a) \in Record \cup {NoArena} /\ (Current(a) # NoArena <=> Exists(a))
             /\ Exists(a) => Current(a) \in Record /\ Current(a).mem = arena[a].mem
  <2>1. CASE a \in decoding
    <3>1. Current(a) = Last(decoders)
      BY <2>1 DEF Current
    <3> QED BY <2>1, <3>1, Decoding, NotNoArena
  <2>2. CASE a \notin decoding
    <3>1. Current(a) = arena[a]
      BY <2>2 DEF Current
    <3>2. arena[a] \in Record \cup {NoArena}
      BY DEF View
    <3> QED BY <3>1, <3>2 DEF Exists
  <2> QED BY <2>1, <2>2
<1>3. Now \in [Arena -> Record \cup {NoArena}]
  BY <1>2 DEF Now
<1> QED BY <1>1, <1>2, <1>3

LEMMA RealNow == ASSUME View PROVE Real(Now) = Existing
BY NowIs DEF Real, Existing

LEMMA InUseNow == ASSUME View PROVE InUse = Used(Real(Now), Mems(Now), heap)
<1>1. \A a \in Existing : a \in Arena /\ Mems(Now)[a] = arena[a].mem
  BY NowIs DEF Existing, Mems
<1>2. {BlockUnits(arena[a].mem) : a \in Existing} = {BlockUnits(Mems(Now)[a]) : a \in Existing}
  BY <1>1
<1>3. InUse = (UNION {BlockUnits(b) : b \in heap}) \cup (UNION {BlockUnits(arena[a].mem) : a \in Existing})
  BY DEF InUse, Existing
<1> QED BY <1>2, <1>3, RealNow DEF Used

\* A change to an arena is seen by its callers, whether or not it is decoded into.
LEMMA Updated ==
    ASSUME View, NEW a \in Arena, Exists(a), NEW r \in Record, r.mem = Now[a].mem, Update(a, r),
           decoding' = decoding, owned' = owned
    PROVE  View' /\ Now' = Put(Now, a, r)
<1>1. Now[a] = Current(a) /\ r.mem = arena[a].mem /\ arena \in [Arena -> Record \cup {NoArena}]
  BY NowIs DEF View
<1>2. \A c \in decoding : c = a => decoding = {a}
  BY Decoding
<1>3. CASE a \in decoding
  <2> DEFINE n == Len(decoders)
  <2>1. decoders' = [decoders EXCEPT ![n] = r] /\ arena' = arena
    BY <1>3 DEF Update
  <2>2. /\ decoders \in Seq(Record) /\ n \in DOMAIN decoders /\ decoding = {a} /\ decoders # <<>>
        /\ a \in owned
        /\ \A i \in DOMAIN decoders : decoders[i].mem = arena[a].mem
    BY <1>3, Decoding DEF View
  <2>3. decoders' \in Seq(Record)
    <3>1. [decoders EXCEPT ![n] = r] \in Seq(Record)
      BY <2>2, ChangedAt
    <3> QED BY <2>1, <3>1
  <2>4. Len(decoders') = n /\ DOMAIN decoders' = DOMAIN decoders
    BY <2>1, <2>2
  <2> HIDE DEF n
  <2>5. decoders'[n] = r /\ \A i \in DOMAIN decoders : i # n => decoders'[i] = decoders[i]
    BY <2>1, <2>2
  <2>6. \A i \in DOMAIN decoders' : decoders'[i].mem = arena[a].mem
    BY <1>1, <2>2, <2>4, <2>5
  <2>7. decoders' # <<>>
    BY <2>2, <2>4
  <2>8. View'
    BY <1>1, <2>1, <2>2, <2>3, <2>6, <2>7 DEF View, Exists
  <2>9. Last(decoders') = r
    BY <2>4, <2>5 DEF Last
  <2>10. \A c \in Arena : Current(c)' = IF c = a THEN r ELSE Current(c)
    BY <2>1, <2>2, <2>9 DEF Current
  <2>11. Now' = Put(Now, a, r)
    BY <2>10 DEF Now, Put
  <2> QED BY <2>8, <2>11
<1>4. CASE a \notin decoding
  <2>1. arena' = [arena EXCEPT ![a] = r] /\ decoders' = decoders
    BY <1>4 DEF Update
  <2>2. arena' \in [Arena -> Record \cup {NoArena}] /\ \A c \in decoding : c \in Arena => arena'[c] = arena[c]
    BY <1>1, <1>4, <2>1
  <2>3. View'
    <3>1. ASSUME NEW c \in decoding
          PROVE  /\ decoding = {c} /\ c \in Arena /\ c \in owned /\ Exists(c)
                 /\ \A i \in DOMAIN decoders : decoders[i].mem = arena[c].mem
      BY DEF View
    <3>2. \A c \in decoding : Exists(c)'
      BY <2>2, <3>1 DEF Exists
    <3>3. decoders \in Seq(Record) /\ (decoding = {} <=> decoders = <<>>)
      BY DEF View
    <3> QED BY <2>1, <2>2, <3>1, <3>2, <3>3 DEF View
  <2>4. \A c \in Arena : Current(c)' = IF c = a THEN r ELSE Current(c)
    BY <1>1, <1>4, <2>1 DEF Current
  <2>5. Now' = Put(Now, a, r)
    BY <2>4 DEF Now, Put
  <2> QED BY <2>3, <2>5
<1> QED BY <1>3, <1>4

LEMMA PutSame ==
    ASSUME NEW N \in [Arena -> Record \cup {NoArena}], NEW a \in Arena
    PROVE  Put(N, a, N[a]) = N
BY DEF Put

LEMMA SteadyPut ==
    ASSUME View, NEW a \in Arena, NEW r, Now' = Put(Now, a, r), Gain(Now[a], r)
    PROVE  Steady
<1>1. Now'[a] = r /\ \A c \in Arena : c # a => Now'[c] = Now[c]
  BY NowIs DEF Put
<1>2. \A c \in Arena : c # a => Gain(Now[c], Now'[c])
  BY <1>1 DEF Gain
<1> QED BY <1>1, <1>2 DEF Steady

LEMMA SteadySame == ASSUME View, Now' = Now PROVE Steady
BY DEF Steady, Gain

-----------------------------------------------------------------------------
(* The steps.  First, what the invariant says of an arena its creator has. *)

LEMMA OwnedIs ==
    ASSUME AllocInv, NEW a \in owned
    PROVE  /\ a \in Arena /\ Exists(a) /\ a \in Real(Now) \ Wk(freeing)
           /\ Now[a] = Current(a) /\ Now[a] \in Record /\ Now[a].ptr <= Now[a].end
           /\ Now[a].mem = arena[a].mem
           /\ Backed(Now[a], In(a), InUse) /\ FreeOf(Now[a]) \subseteq InUse
           /\ In(a) \subseteq AllocSet /\ In(a) = Of(live, a)
<1>1. View /\ Core(Now, freeing, live, heap, refcount, owned)
  BY DEF AllocInv
<1>2. owned \subseteq Real(Now) \ Wk(freeing)
  BY <1>1 DEF Core, Counts
<1>3. a \in Real(Now) \ Wk(freeing)
  BY <1>2
<1>4. In(a) = Of(live, a)
  BY DEF In, Of
<1>5. /\ a \in Arena /\ Now[a] \in Record /\ RecordOK(Now[a], Of(live, a)) /\ Of(live, a) \subseteq AllocSet
      /\ Whole(Now[a]) \subseteq Used(Real(Now), Mems(Now), heap)
      /\ FreeOf(Now[a]) \subseteq Used(Real(Now), Mems(Now), heap)
  BY <1>1, <1>3, CoreAt
<1>6. InUse = Used(Real(Now), Mems(Now), heap)
  BY <1>1, InUseNow
<1>7. a \in Existing
  BY <1>1, <1>3, RealNow
<1>8. Exists(a)
  BY <1>7 DEF Existing
<1>9. Now[a] = Current(a) /\ Now[a].mem = arena[a].mem
  BY <1>1, <1>5, <1>8, NowIs
<1>10. Now[a].ptr <= Now[a].end
  BY <1>5 DEF RecordOK
<1>11. Backed(Now[a], In(a), InUse)
  BY <1>4, <1>5, <1>6 DEF Backed
<1>12. FreeOf(Now[a]) \subseteq InUse
  BY <1>5, <1>6
<1> QED BY <1>3, <1>4, <1>5, <1>8, <1>9, <1>10, <1>11, <1>12

\* Arena a becomes r2 with the new blocks got, and the allocations become V2.
Growth(a, r2, got, V2) ==
    /\ Grown(r2, Now[a], got) /\ Gain(Now[a], r2)
    /\ \A b \in got : BlockUnits(b) \cap InUse = {}
    /\ V2 \subseteq AllocSet /\ \A x \in V2 : x.arena = a \/ x \in live
    /\ \A x \in live : x.arena # a => x \in V2
    /\ RecordOK(r2, Of(V2, a))

Same == <<decoding, refcount, owned, max_block_size, freeing>>

LEMMA GrowStep ==
    ASSUME AllocInv, NEW a \in owned, NEW r2, NEW got, Growth(a, r2, got, live'),
           Update(a, r2), heap' = heap \cup got, UNCHANGED Same
    PROVE  AllocInv' /\ Steady
<1>1. /\ a \in Arena /\ Exists(a) /\ a \in Real(Now) \ Wk(freeing)
  BY OwnedIs
<1>2. /\ View /\ max_block_size \in Nat /\ Core(Now, freeing, live, heap, refcount, owned)
  BY DEF AllocInv
<1>3. Grown(r2, Now[a], got) /\ Gain(Now[a], r2)
  BY DEF Growth
<1>4. /\ decoding' = decoding /\ refcount' = refcount /\ owned' = owned
      /\ max_block_size' = max_block_size /\ freeing' = freeing
  BY DEF Same
<1>5. r2 \in Record /\ r2.mem = Now[a].mem
  BY <1>3 DEF Grown
<1>6. View' /\ Now' = Put(Now, a, r2)
  BY <1>1, <1>2, <1>4, <1>5, Updated
<1>7. \A b \in got : BlockUnits(b) \cap Used(Real(Now), Mems(Now), heap) = {}
  BY <1>2, InUseNow DEF Growth
<1>8. Core(Now', freeing, live', heap', refcount, owned)
  <2> DEFINE N2 == Now'
             V2 == live'
             H2 == heap'
  <2>1. /\ V2 \subseteq AllocSet /\ \A x \in V2 : x.arena = a \/ x \in live
        /\ \A x \in live : x.arena # a => x \in V2
        /\ RecordOK(r2, Of(V2, a))
    BY DEF Growth
  <2>2. N2 = Put(Now, a, r2) /\ H2 = heap \cup got
    BY <1>6
  <2> HIDE DEF N2, V2, H2
  <2>3. Core(N2, freeing, V2, H2, refcount, owned)
    BY <1>1, <1>2, <1>3, <1>7, <2>1, <2>2, CoreGrow
  <2> QED BY <2>3 DEF N2, V2, H2
<1>9. AllocInv'
  BY <1>2, <1>4, <1>6, <1>8 DEF AllocInv
<1>10. Steady
  BY <1>1, <1>2, <1>3, <1>6, SteadyPut
<1> QED BY <1>9, <1>10

\* A step that leaves everything but last and crashed as it was.
LEMMA SameStep ==
    ASSUME AllocInv, Now' = Now, View', heap' = heap, live' = live, refcount' = refcount,
           owned' = owned, freeing' = freeing, max_block_size' \in Nat
    PROVE  AllocInv' /\ Steady
<1>1. View /\ Core(Now, freeing, live, heap, refcount, owned)
  BY DEF AllocInv
<1>2. Core(Now', freeing', live', heap', refcount', owned')
  BY <1>1
<1> QED BY <1>1, <1>2, SteadySame DEF AllocInv

LEMMA RefusedStep ==
    ASSUME AllocInv, NEW a \in owned, Update(a, Now[a]), heap' = heap \cup {}, live' = live, UNCHANGED Same
    PROVE  AllocInv' /\ Steady
<1>1. View /\ max_block_size \in Nat /\ a \in Arena /\ Exists(a) /\ Now[a] \in Record
  BY OwnedIs DEF AllocInv
<1>2. /\ decoding' = decoding /\ refcount' = refcount /\ owned' = owned
      /\ max_block_size' = max_block_size /\ freeing' = freeing
  BY DEF Same
<1>3. View' /\ Now' = Put(Now, a, Now[a])
  BY <1>1, <1>2, Updated
<1>4. Put(Now, a, Now[a]) = Now
  BY <1>1, NowIs, PutSame
<1>5. heap' = heap
  OBVIOUS
<1> QED BY <1>1, <1>2, <1>3, <1>4, <1>5, SameStep

\* An allocation y, of n bytes, takes the place of those in D.
LEMMA ServedStep ==
    ASSUME AllocInv, NEW a \in owned, NEW n \in Nat, NEW o, NEW D, D \subseteq In(a),
           Served(o, Now[a], AllocSpan(n), InUse), Update(a, o.arena), heap' = heap \cup o.got,
           live' = (live \ D) \cup {Alloc(a, o.p, n)}, UNCHANGED Same
    PROVE  AllocInv' /\ Steady
<1> DEFINE y == Alloc(a, o.p, n)
           V2 == live'
<1>1. a \in Arena /\ Backed(Now[a], In(a), InUse) /\ In(a) \subseteq AllocSet
  BY OwnedIs
<1>2. /\ o.p \in Nat /\ Grown(o.arena, Now[a], o.got)
      /\ \A b \in o.got : BlockUnits(b) \cap InUse = {}
      /\ Gain(Now[a], o.arena)
  BY DEF Served, Gain
<1>3. y \in AllocSet /\ y.arena = a /\ y.at = o.p /\ y.size = n
  BY <1>1, <1>2 DEF Alloc, AllocSet
<1>4. PlaceOf(y) = Units(o.p, AllocSpan(n))
  BY <1>3 DEF PlaceOf
<1>5. RecordOK(o.arena, (In(a) \ D) \cup {y})
  <2> HIDE DEF y, V2
  <2> QED BY <1>1, <1>4, ServedOK
<1>6. live \subseteq AllocSet
  BY DEF AllocInv, Core, Local
<1>7. V2 = (live \ D) \cup {y} /\ \A x \in D : x.arena = a
  BY DEF In
<1> HIDE DEF y, V2
<1>8. Of(V2, a) = (In(a) \ D) \cup {y}
  BY <1>3, <1>7 DEF Of, In
<1>9. /\ V2 \subseteq AllocSet /\ \A x \in V2 : x.arena = a \/ x \in live
      /\ \A x \in live : x.arena # a => x \in V2
  BY <1>3, <1>6, <1>7
<1>10. Growth(a, o.arena, o.got, V2)
  BY <1>2, <1>5, <1>8, <1>9 DEF Growth
<1> QED BY <1>10, GrowStep DEF V2

\* Allocation x of arena a is resized to y where it is; the arena becomes r2.
LEMMA InPlaceStep ==
    ASSUME AllocInv, NEW a \in owned, NEW x \in In(a), NEW y \in AllocSet, y.arena = a, NEW r2,
           RecordOK(r2, (In(a) \ {x}) \cup {y}), r2.mem = Now[a].mem, r2.blocks = Now[a].blocks,
           r2.end = Now[a].end, Update(a, r2), heap' = heap \cup {},
           live' = (live \ {x}) \cup {y}, UNCHANGED Same
    PROVE  AllocInv' /\ Steady
<1> DEFINE V2 == live'
<1>1. live \subseteq AllocSet /\ x.arena = a
  BY DEF AllocInv, Core, Local, In
<1>2. V2 = (live \ {x}) \cup {y}
  OBVIOUS
<1> HIDE DEF V2
<1>3. Of(V2, a) = (In(a) \ {x}) \cup {y}
  BY <1>2 DEF Of, In
<1>4. /\ V2 \subseteq AllocSet /\ \A z \in V2 : z.arena = a \/ z \in live
      /\ \A z \in live : z.arena # a => z \in V2
  BY <1>1, <1>2
<1>5. r2.space_allocated = Now[a].space_allocated /\ r2 \in Record
  BY OwnedIs DEF RecordOK, Backed
<1>6. Grown(r2, Now[a], {}) /\ Gain(Now[a], r2)
  BY <1>5 DEF Grown, Gain
<1>7. Growth(a, r2, {}, V2)
  BY <1>3, <1>4, <1>6 DEF Growth
<1> QED BY <1>7, GrowStep DEF V2

\* What the caller receives: nothing, and then nothing has changed, or memory.
LEMMA ReceivedStep ==
    ASSUME AllocInv, NEW a \in owned, NEW n \in Nat, NEW o, NEW D, D \subseteq In(a),
           Denied(o, Now[a]) \/ Served(o, Now[a], AllocSpan(n), InUse), Received(a, o, D, n)
    PROVE  AllocInv' /\ Steady
<1>1. Update(a, o.arena) /\ heap' = heap \cup o.got /\ UNCHANGED Same
  BY DEF Received, Same
<1>2. CASE Denied(o, Now[a])
  <2>1. o.p = -1 /\ o.arena = Now[a] /\ o.got = {}
    BY <1>2 DEF Denied
  <2>2. live' = live
    BY <2>1 DEF Received
  <2>3. Update(a, Now[a]) /\ heap' = heap \cup {}
    BY <1>1, <2>1
  <2> QED BY <1>1, <2>2, <2>3, RefusedStep
<1>3. CASE Served(o, Now[a], AllocSpan(n), InUse)
  <2>1. o.p # -1
    BY <1>3 DEF Served
  <2>2. live' = (live \ D) \cup {Alloc(a, o.p, n)}
    BY <2>1 DEF Received
  <2> QED BY <1>1, <1>3, <2>2, ServedStep
<1> QED BY <1>2, <1>3

LEMMA MallocStep ==
    ASSUME AllocInv, NEW a \in Arena, NEW n \in Sizes, upb_Arena_Malloc(a, n)
    PROVE  AllocInv' /\ Steady
<1>1. a \in owned
  BY DEF upb_Arena_Malloc, Usable
<1>2. /\ Now[a] = Current(a) /\ Now[a] \in Record /\ Now[a].ptr <= Now[a].end
      /\ FreeOf(Now[a]) \subseteq InUse
  BY <1>1, OwnedIs
<1>3. PICK o \in Malloc(Now[a], n) : Received(a, o, {}, n)
  BY <1>2 DEF upb_Arena_Malloc
<1>4. n \in Nat /\ max_block_size \in Nat
  BY Sizing DEF AllocInv
<1>5. Denied(o, Now[a]) \/ Served(o, Now[a], AllocSpan(n), InUse)
  BY <1>2, <1>3, <1>4, MallocOutcomes
<1> QED BY <1>1, <1>3, <1>4, <1>5, ReceivedStep

\* An allocation resized in place: the arena moves its pointer, if it was the last.
LEMMA ResizedAt ==
    ASSUME AllocInv, NEW a \in owned, NEW x \in In(a), NEW n \in Nat, NEW y, y = Alloc(a, x.at, n),
           NEW r2, \/ CanExtend(Now[a], x, n) /\ r2 = Resized(Now[a], x, n)
                   \/ n <= x.size /\ r2 = ShrinkLast(Now[a], x, n)
    PROVE  /\ RecordOK(r2, (In(a) \ {x}) \cup {y}) /\ r2.mem = Now[a].mem
           /\ r2.blocks = Now[a].blocks /\ r2.end = Now[a].end
           /\ y \in AllocSet /\ y.arena = a /\ x.at \in Nat
<1>1. a \in Arena /\ RecordOK(Now[a], In(a)) /\ In(a) \subseteq AllocSet /\ Now[a] \in Record
  BY OwnedIs DEF Backed
<1>2. x.at \in Nat /\ x.size \in Nat
  BY <1>1 DEF AllocSet
<1>3. y \in AllocSet /\ y.arena = a /\ y.at = x.at /\ y.size = n
  BY <1>1, <1>2 DEF Alloc, AllocSet
<1>4. ASSUME WasLastAllocFromCurrentBlock(Now[a], x),
             ArenaHas(Now[a]) >= AllocSpan(n) - AllocSpan(x.size), r2 = Resized(Now[a], x, n)
      PROVE  /\ RecordOK(r2, (In(a) \ {x}) \cup {y}) /\ r2.mem = Now[a].mem
             /\ r2.blocks = Now[a].blocks /\ r2.end = Now[a].end
  BY <1>1, <1>3, <1>4, ResizedOK
<1>5. CASE CanExtend(Now[a], x, n) /\ r2 = Resized(Now[a], x, n)
  BY <1>2, <1>3, <1>4, <1>5 DEF CanExtend
<1>6. CASE n <= x.size /\ r2 = ShrinkLast(Now[a], x, n)
  <2>1. CASE WasLastAllocFromCurrentBlock(Now[a], x)
    <3>1. AllocSpan(n) <= AllocSpan(x.size) /\ AllocSpan(n) \in Nat /\ AllocSpan(x.size) \in Nat
      BY <1>2, <1>6, Spans
    <3>2. Now[a].ptr \in Nat /\ Now[a].end \in Nat /\ Now[a].ptr <= Now[a].end
      BY <1>1, Fields DEF RecordOK
    <3>3. ArenaHas(Now[a]) >= AllocSpan(n) - AllocSpan(x.size)
      BY <3>1, <3>2 DEF ArenaHas
    <3> QED BY <1>2, <1>3, <1>4, <1>6, <2>1, <3>3 DEF ShrinkLast
  <2>2. CASE ~ WasLastAllocFromCurrentBlock(Now[a], x)
    <3>1. r2 = Now[a]
      BY <1>6, <2>2 DEF ShrinkLast
    <3>2. RecordOK(Now[a], (In(a) \ {x}) \cup {y})
      BY <1>1, <1>3, <1>6, KeptOK
    <3> QED BY <1>2, <1>3, <3>1, <3>2
  <2> QED BY <2>1, <2>2
<1> QED BY <1>5, <1>6

LEMMA ReallocStep ==
    ASSUME AllocInv, NEW a \in Arena, NEW n \in Sizes, upb_Arena_Realloc(a, n)
    PROVE  AllocInv' /\ Steady
<1>1. a \in owned
  BY DEF upb_Arena_Realloc, Usable
<1>2. /\ Now[a] = Current(a) /\ Now[a] \in Record /\ Now[a].ptr <= Now[a].end
      /\ FreeOf(Now[a]) \subseteq InUse
  BY <1>1, OwnedIs
<1>3. PICK x \in In(a) : \E o \in Realloc(Now[a], x, n) : Received(a, o, {x}, n)
  BY <1>2 DEF upb_Arena_Realloc
<1>4. PICK o \in Realloc(Now[a], x, n) : Received(a, o, {x}, n)
  BY <1>3
<1>5. n \in Nat /\ max_block_size \in Nat
  BY Sizing DEF AllocInv
<1>6. ASSUME NEW r2, o = [Bump(r2, 0, {}) EXCEPT !.p = x.at],
             \/ CanExtend(Now[a], x, n) /\ r2 = Resized(Now[a], x, n)
             \/ n <= x.size /\ r2 = ShrinkLast(Now[a], x, n)
      PROVE  AllocInv' /\ Steady
  <2> DEFINE y == Alloc(a, x.at, n)
  <2>1. /\ RecordOK(r2, (In(a) \ {x}) \cup {y}) /\ r2.mem = Now[a].mem
        /\ r2.blocks = Now[a].blocks /\ r2.end = Now[a].end
        /\ y \in AllocSet /\ y.arena = a /\ x.at \in Nat
    <3> HIDE DEF y
    <3>1. y = Alloc(a, x.at, n)
      BY DEF y
    <3> QED BY <1>1, <1>5, <1>6, <3>1, ResizedAt
  <2>2. r2 \in Record
    BY <2>1 DEF RecordOK
  <2>3. o.arena = [r2 EXCEPT !.ptr = @ + 0] /\ o.p = x.at /\ o.got = {}
    BY <1>6 DEF Bump
  <2>4. [r2 EXCEPT !.ptr = @ + 0] = r2
    BY <2>2 DEF Record
  <2>5. Update(a, r2) /\ heap' = heap \cup {} /\ UNCHANGED Same
    BY <1>4, <2>3, <2>4 DEF Received, Same
  <2>6. o.p # -1
    BY <2>1, <2>3
  <2>7. live' = (live \ {x}) \cup {y}
    BY <1>4, <2>3, <2>6 DEF Received
  <2> HIDE DEF y
  <2> QED BY <1>1, <2>1, <2>5, <2>7, InPlaceStep
<1>7. CASE n <= x.size
  <2>1. o = [Bump(ShrinkLast(Now[a], x, n), 0, {}) EXCEPT !.p = x.at]
    BY <1>4, <1>7 DEF Realloc
  <2> QED BY <1>6, <1>7, <2>1
<1>8. CASE ~ (n <= x.size) /\ CanExtend(Now[a], x, n)
  <2>1. o = [Bump(Resized(Now[a], x, n), 0, {}) EXCEPT !.p = x.at]
    BY <1>4, <1>8 DEF Realloc
  <2> QED BY <1>6, <1>8, <2>1
<1>9. CASE ~ (n <= x.size) /\ ~ CanExtend(Now[a], x, n)
  <2>1. o \in Malloc(Now[a], n)
    BY <1>4, <1>9 DEF Realloc
  <2>2. Denied(o, Now[a]) \/ Served(o, Now[a], AllocSpan(n), InUse)
    BY <1>2, <1>5, <2>1, MallocOutcomes
  <2>3. {x} \subseteq In(a)
    OBVIOUS
  <2> QED BY <1>1, <1>4, <1>5, <2>2, <2>3, ReceivedStep
<1> QED BY <1>7, <1>8, <1>9

LEMMA ResizeStep ==
    ASSUME AllocInv, NEW a \in owned, NEW x \in In(a), NEW n \in Nat, NEW r2,
           \/ CanExtend(Now[a], x, n) /\ r2 = Resized(Now[a], x, n)
           \/ n <= x.size /\ r2 = ShrinkLast(Now[a], x, n),
           Update(a, r2), heap' = heap, live' = (live \ {x}) \cup {[x EXCEPT !.size = n]}, UNCHANGED Same
    PROVE  AllocInv' /\ Steady
<1> DEFINE y == Alloc(a, x.at, n)
<1>1. y = Alloc(a, x.at, n) /\ heap' = heap \cup {}
  OBVIOUS
<1>2. x \in AllocSet /\ x.arena = a
  BY OwnedIs DEF In
<1>3. [x EXCEPT !.size = n] = y
  BY <1>2 DEF AllocSet, Alloc
<1>4. live' = (live \ {x}) \cup {y}
  BY <1>3
<1> HIDE DEF y
<1>5. /\ RecordOK(r2, (In(a) \ {x}) \cup {y}) /\ r2.mem = Now[a].mem
      /\ r2.blocks = Now[a].blocks /\ r2.end = Now[a].end
      /\ y \in AllocSet /\ y.arena = a
  BY <1>1, ResizedAt
<1> QED BY <1>1, <1>4, <1>5, InPlaceStep

LEMMA TryExtendStep ==
    ASSUME AllocInv, NEW a \in Arena, NEW n \in Sizes, upb_Arena_TryExtend(a, n)
    PROVE  AllocInv' /\ Steady
<1>1. a \in owned /\ heap' = heap /\ UNCHANGED Same
  BY DEF upb_Arena_TryExtend, Usable, Same
<1>2. Now[a] = Current(a) /\ n \in Nat
  BY <1>1, OwnedIs, Sizing
<1>3. PICK x \in In(a) : /\ CanExtend(Now[a], x, n) /\ Update(a, Resized(Now[a], x, n))
                         /\ live' = (live \ {x}) \cup {[x EXCEPT !.size = n]}
  BY <1>2 DEF upb_Arena_TryExtend
<1> QED BY <1>1, <1>2, <1>3, ResizeStep

LEMMA ShrinkLastStep ==
    ASSUME AllocInv, NEW a \in Arena, NEW n \in Sizes, upb_Arena_ShrinkLast(a, n)
    PROVE  AllocInv' /\ Steady
<1>1. a \in owned /\ heap' = heap /\ UNCHANGED Same /\ a \notin decoding
  BY DEF upb_Arena_ShrinkLast, Usable, Same
<1>2. Now[a] = Current(a) /\ n \in Nat
  BY <1>1, OwnedIs, Sizing
<1>3. Now[a] = arena[a]
  BY <1>1, <1>2 DEF Current
<1>4. PICK x \in In(a) : /\ n <= x.size /\ Update(a, ShrinkLast(Now[a], x, n))
                         /\ live' = (live \ {x}) \cup {[x EXCEPT !.size = n]}
  BY <1>3 DEF upb_Arena_ShrinkLast
<1> QED BY <1>1, <1>2, <1>4, ResizeStep

-----------------------------------------------------------------------------
(* Arenas begin.                                                           *)

\* Arena a, which did not exist, begins as r with the blocks got.
Fresh(r, got) ==
    /\ RecordOK(r, {}) /\ ListOK(r.blocks, r.mem) /\ RefsIn(r.blocks) = {} /\ BlocksIn(r.blocks) = got
    /\ got \subseteq BlockSet /\ \A b, c \in got : b = c
    /\ \A b \in got : BlockUnits(b) \cap InUse = {} /\ BlockUnits(b) \cap BlockUnits(r.mem) = {}
    /\ BlockUnits(r.mem) \cap InUse = {}

LEMMA FreshStep ==
    ASSUME AllocInv, NEW a \in Arena, ~ Exists(a), NEW r, NEW got, Fresh(r, got),
           arena' = [arena EXCEPT ![a] = r], heap' = heap \cup got,
           refcount' = [refcount EXCEPT ![a] = 1], owned' = owned \cup {a},
           UNCHANGED <<decoders, decoding, max_block_size, freeing, live>>
    PROVE  AllocInv' /\ Steady
<1>1. View /\ max_block_size \in Nat /\ Core(Now, freeing, live, heap, refcount, owned)
  BY DEF AllocInv
<1>2. r \in Record
  BY DEF Fresh, RecordOK
<1>3. a \notin Real(Now)
  BY <1>1, RealNow DEF Existing
<1>4. \A c \in decoding : /\ c \in Arena /\ Exists(c) /\ decoding = {c} /\ c \in owned /\ c # a
                          /\ \A i \in DOMAIN decoders : decoders[i].mem = arena[c].mem
  BY <1>1 DEF View
<1>5. arena \in [Arena -> Record \cup {NoArena}] /\ decoders \in Seq(Record)
      /\ (decoding = {} <=> decoders = <<>>)
  BY <1>1 DEF View
<1>6. arena' \in [Arena -> Record \cup {NoArena}] /\ arena'[a] = r
      /\ \A c \in Arena : c # a => arena'[c] = arena[c]
  BY <1>2, <1>5
<1>7. View'
  <2>1. \A c \in decoding' : /\ c \in Arena /\ Exists(c)' /\ decoding' = {c} /\ c \in owned'
                             /\ \A i \in DOMAIN decoders' : decoders'[i].mem = arena'[c].mem
    BY <1>4, <1>6 DEF Exists
  <2> QED BY <1>5, <1>6, <2>1 DEF View
<1>8. Now' = Put(Now, a, r)
  <2>1. \A c \in Arena : Current(c)' = IF c = a THEN r ELSE Current(c)
    BY <1>4, <1>6 DEF Current
  <2> QED BY <2>1 DEF Now, Put
<1>9. Core(Now', freeing, live, heap', [refcount EXCEPT ![a] = 1], owned \cup {a})
  <2> DEFINE N2 == Now'
             H2 == heap'
             U == Used(Real(Now), Mems(Now), heap)
  <2>1. N2 = Put(Now, a, r) /\ H2 = heap \cup got
    BY <1>8
  <2>2. InUse = U
    BY <1>1, InUseNow
  <2>3. /\ RecordOK(r, {}) /\ ListOK(r.blocks, r.mem) /\ RefsIn(r.blocks) = {} /\ BlocksIn(r.blocks) = got
        /\ got \subseteq BlockSet /\ \A b, c \in got : b = c
        /\ \A b \in got : BlockUnits(b) \cap U = {} /\ BlockUnits(b) \cap BlockUnits(r.mem) = {}
        /\ BlockUnits(r.mem) \cap U = {}
    BY <2>2 DEF Fresh
  <2> HIDE DEF N2, H2
  <2>4. Core(N2, freeing, live, H2, [refcount EXCEPT ![a] = 1], owned \cup {a})
    BY <1>1, <1>3, <2>1, <2>3, CoreNew
  <2> QED BY <2>4 DEF N2, H2
<1>10. AllocInv'
  BY <1>1, <1>7, <1>9 DEF AllocInv
<1>11. Steady
  <2>1. \A c \in Arena : c # a => Now'[c] = Now[c]
    BY <1>1, <1>8, NowIs DEF Put
  <2>2. \A c \in Arena : c # a => Gain(Now[c], Now'[c])
    BY <2>1 DEF Gain
  <2> QED BY <2>2 DEF Steady
<1> QED BY <1>10, <1>11

LEMMA EmptyList == ToSet(<<>>) = {} /\ BlocksIn(<<>>) = {} /\ RefsIn(<<>>) = {} /\ Total({}) = 0
<1>1. ToSet(<<>>) = {}
  BY DEF ToSet
<1>2. Total({}) = 0
  BY TotalEquation, FS_EmptySet
<1> QED BY <1>1, <1>2 DEF BlocksIn, RefsIn

LEMMA InitStep ==
    ASSUME AllocInv, NEW a \in Arena, upb_Arena_Init(a)
    PROVE  AllocInv' /\ Steady
<1> DEFINE mem == [at |-> Min(Fitting(InitialSize)), size |-> InitialSize]
           r == [mem |-> mem, alloc |-> a \notin Fixed, blocks |-> <<>>,
                 last_block_size |-> InitialHint, size_hint |-> InitialHint,
                 space_allocated |-> 0,
                 ptr |-> mem.at + StateSize, end |-> mem.at + mem.size]
<1>1. /\ ~ Exists(a) /\ Fitting(InitialSize) # {}
      /\ refcount' = [refcount EXCEPT ![a] = 1] /\ owned' = owned \cup {a}
      /\ UNCHANGED <<decoders, decoding, max_block_size, freeing, live>> /\ heap' = heap
  BY DEF upb_Arena_Init
<1>2. arena' = [arena EXCEPT ![a] = r]
  BY DEF upb_Arena_Init
<1>3. Fitting(InitialSize) \subseteq Nat
  BY DEF Fitting
<1>4. Min(Fitting(InitialSize)) \in Fitting(InitialSize)
  BY <1>1, <1>3, MinIsLeast
<1>5. Min(Fitting(InitialSize)) \in Nat /\ Units(Min(Fitting(InitialSize)), InitialSize) \cap InUse = {}
  BY <1>3, <1>4 DEF Fitting
<1>6. mem \in [at : Nat, size : Nat] /\ mem.at \in Nat /\ mem.size = InitialSize
      /\ BlockUnits(mem) \cap InUse = {}
  BY <1>5, Sizing DEF BlockUnits
<1>7. InitialSize \in Nat /\ InitialSize >= StateSize /\ StateSize \in Nat /\ StateSize >= 1 /\ InitialHint \in Nat
  BY Sizing
<1> HIDE DEF mem
<1>8. /\ r \in Record /\ r.mem = mem /\ r.blocks = <<>> /\ r.space_allocated = 0
      /\ r.ptr = mem.at + StateSize /\ r.end = mem.at + InitialSize
  BY <1>6, <1>7 DEF Record
<1> HIDE DEF r
<1>9. HasInitialBlock(r)
  BY <1>6, <1>7, <1>8 DEF HasInitialBlock, NoMem
<1>10. Home(r) /\ r.ptr <= r.end /\ StateOf(r) = Units(mem.at, StateSize)
  BY <1>6, <1>7, <1>8, <1>9 DEF Home, StateOf
<1>11. Ground(r) = BlockUnits(mem) \ Units(mem.at, StateSize)
  BY <1>8, <1>10, EmptyList DEF Ground
<1>12. FreeOf(r) \subseteq Ground(r)
  BY <1>6, <1>7, <1>8, <1>11 DEF FreeOf, ArenaHas, Units, BlockUnits
<1>13. Tidy({}, RefsIn(r.blocks), FreeOf(r), Ground(r))
  BY <1>8, <1>12, EmptyList DEF Tidy
<1>14. RecordOK(r, {})
  BY <1>8, <1>10, <1>13, EmptyList DEF RecordOK
<1>15. Fresh(r, {})
  BY <1>6, <1>8, <1>14, EmptyList, ListEmpty DEF Fresh
<1>16. heap' = heap \cup {}
  BY <1>1
<1> QED BY <1>1, <1>2, <1>15, <1>16, FreshStep

LEMMA InitSlowStep ==
    ASSUME AllocInv, NEW a \in Arena, NEW n \in Sizes, upb_Arena_InitSlow(a, n)
    PROVE  AllocInv' /\ Steady
<1> DEFINE z == Reserve + StateSize + Max({FirstSize, AllocSpan(n)})
<1>1. /\ ~ Exists(a)
      /\ refcount' = [refcount EXCEPT ![a] = 1] /\ owned' = owned \cup {a}
      /\ UNCHANGED <<decoders, decoding, max_block_size, freeing, live>>
  BY DEF upb_Arena_InitSlow
<1>2. PICK b \in upb_SizeReturningMalloc(z) :
          LET size == Min({b.size, UINT32 - 1})
              r == [mem |-> NoMem, alloc |-> TRUE, blocks |-> <<>>,
                    last_block_size |-> size, size_hint |-> size,
                    space_allocated |-> 0, ptr |-> 0, end |-> 0]
          IN  /\ arena' = [arena EXCEPT ![a] = UseBlockInternal(AddBlock(r, b), b, StateSize)]
              /\ heap' = heap \cup {b}
  BY DEF upb_Arena_InitSlow
<1>3. z \in Nat /\ z >= Reserve + StateSize /\ z >= Reserve
  <2>1. FirstSize \in Nat /\ AllocSpan(n) \in Nat /\ Reserve \in Nat /\ StateSize \in Nat
    BY Sizing, Spans
  <2>2. Max({FirstSize, AllocSpan(n)}) \in Nat
    BY <2>1, MaxOfTwo
  <2> HIDE DEF AllocSpan
  <2> QED BY <2>1, <2>2
<1> HIDE DEF z
<1>4. b \in BlockSet /\ b.size >= z /\ BlockUnits(b) \cap InUse = {}
  BY <1>2, <1>3, Offers
<1> DEFINE size == Min({b.size, UINT32 - 1})
           r == [mem |-> NoMem, alloc |-> TRUE, blocks |-> <<>>,
                 last_block_size |-> size, size_hint |-> size,
                 space_allocated |-> 0, ptr |-> 0, end |-> 0]
           s == AddBlock(r, b)
           t == UseBlockInternal(s, b, StateSize)
<1>5. arena' = [arena EXCEPT ![a] = t] /\ heap' = heap \cup {b}
  BY <1>2
<1>6. b.at \in Nat /\ b.size \in Nat /\ Reserve \in Nat /\ StateSize \in Nat /\ b.size >= Reserve + StateSize
  BY <1>3, <1>4, Sizing DEF BlockSet
<1>7. size \in Nat
  <2>1. UINT32 - 1 \in Nat
    BY Sizing
  <2>2. {b.size, UINT32 - 1} \subseteq Nat /\ {b.size, UINT32 - 1} # {}
    BY <1>6, <2>1
  <2>3. size \in {b.size, UINT32 - 1}
    BY <2>2, MinIsLeast
  <2> QED BY <2>2, <2>3
<1> HIDE DEF size
<1>8. NoMem \in [at : Nat, size : Nat] /\ NoMem.at = 0 /\ NoMem.size = 0 /\ BlockUnits(NoMem) = {}
  BY DEF NoMem, BlockUnits, Units
<1>9. r \in Record /\ r.mem = NoMem /\ r.blocks = <<>> /\ r.space_allocated = 0
  BY <1>7, <1>8 DEF Record
<1> HIDE DEF r
<1>10. /\ s \in Record /\ s.mem = NoMem /\ s.blocks = <<b>> \o <<>> /\ s.space_allocated = b.size
  <2>1. s \in Record /\ s.mem = r.mem /\ s.blocks = <<b>> \o r.blocks
        /\ s.space_allocated = r.space_allocated + b.size
    BY <1>4, <1>9, AddBlockIs
  <2> QED BY <1>6, <1>9, <2>1
<1> HIDE DEF s
<1>11. /\ t \in Record /\ t.mem = NoMem /\ t.blocks = <<b>> \o <<>> /\ t.space_allocated = b.size
       /\ t.ptr = b.at + Reserve + StateSize /\ t.end = b.at + b.size
  <2> DEFINE q == b.at + Reserve + StateSize
             e == b.at + b.size
  <2>1. q \in Nat /\ e \in Nat /\ t = [s EXCEPT !.ptr = q, !.end = e]
    BY <1>6 DEF UseBlockInternal
  <2> HIDE DEF q, e, t
  <2>2. /\ t \in Record /\ t.mem = s.mem /\ t.blocks = s.blocks
        /\ t.space_allocated = s.space_allocated /\ t.ptr = q /\ t.end = e
    BY <1>10, <2>1 DEF Record
  <2> QED BY <1>10, <2>2 DEF q, e
<1> HIDE DEF t
<1>12. ListOK(t.blocks, t.mem) /\ BlocksIn(t.blocks) = {b} /\ RefsIn(t.blocks) = {}
  <2>1. b \in Listed /\ ~ IsRef(b) /\ b \notin ToSet(<<>>)
    BY <1>4, Kinds, EmptyList DEF Listed
  <2>2. ListOK(<<>>, NoMem)
    BY <1>8, ListEmpty
  <2> DEFINE l == t.blocks
             e == <<>>
  <2>3. l = <<b>> \o e /\ ListOK(e, NoMem) /\ b \notin ToSet(e)
    BY <1>11, <2>1, <2>2
  <2> HIDE DEF l, e
  <2>4. /\ ListOK(l, NoMem)
        /\ BlocksIn(l) = BlocksIn(e) \cup (IF IsRef(b) THEN {} ELSE {b})
        /\ RefsIn(l) = RefsIn(e) \cup (IF IsRef(b) THEN {b} ELSE {})
    BY <2>1, <2>3, ListPrepend
  <2> QED BY <1>11, <2>1, <2>4, EmptyList DEF l, e
<1>13. t.blocks # <<>> /\ Last(t.blocks) = b
  <2>1. t.blocks = <<b>>
    BY <1>11
  <2> QED BY <2>1 DEF Last
<1>14. ~ HasInitialBlock(t) /\ Home(t) /\ StateOf(t) = Units(b.at + Reserve, StateSize) /\ t.ptr <= t.end
  BY <1>4, <1>6, <1>11, <1>13 DEF HasInitialBlock, Home, StateOf
<1>15. Ground(t) = Usual(b) \ Units(b.at + Reserve, StateSize)
  BY <1>8, <1>11, <1>12, <1>14 DEF Ground
<1>16. FreeOf(t) \subseteq Ground(t)
  BY <1>6, <1>11, <1>15 DEF FreeOf, ArenaHas, Units, BlockUnits, Usual
<1>17. Total({b}) = b.size
  <2>1. Sized({}) /\ {} \cup {b} = {b}
    BY FS_EmptySet DEF Sized
  <2>2. Total({} \cup {b}) = b.size + Total({})
    BY <1>6, <2>1, TotalAdd
  <2> QED BY <1>6, <2>1, <2>2, EmptyList
<1>18. RecordOK(t, {})
  BY <1>11, <1>12, <1>14, <1>16, <1>17 DEF RecordOK, Tidy
<1>19. Fresh(t, {b})
  BY <1>4, <1>8, <1>11, <1>12, <1>18 DEF Fresh
<1> QED BY <1>1, <1>5, <1>19, FreshStep

-----------------------------------------------------------------------------
(* References, and the release of arenas.                                  *)

LEMMA Unmoved ==
    ASSUME View, arena' = arena, decoders' = decoders, decoding' = decoding, decoding \subseteq owned'
    PROVE  View' /\ Now' = Now
<1>1. View'
  BY DEF View, Exists
<1>2. Now' = Now
  BY DEF Now, Current
<1> QED BY <1>1, <1>2

LEMMA RefArenaStep ==
    ASSUME AllocInv, NEW a \in Arena, NEW to \in Arena, upb_Arena_RefArena(a, to)
    PROVE  AllocInv' /\ Steady
<1>1. /\ a \in owned /\ to \in owned /\ a \notin decoding
      /\ UNCHANGED <<decoders, decoding, owned, max_block_size, freeing, live>>
  BY DEF upb_Arena_RefArena, Usable
<1>2. /\ Now[a] = Current(a) /\ Now[a] \in Record /\ Now[a].ptr <= Now[a].end
      /\ FreeOf(Now[a]) \subseteq InUse /\ a \in Real(Now) \ Wk(freeing) /\ Exists(a)
      /\ Backed(Now[a], In(a), InUse)
  BY <1>1, OwnedIs
<1>3. to \in Real(Now) \ Wk(freeing)
  BY <1>1, OwnedIs
<1>4. Now[a] = arena[a]
  BY <1>1, <1>2 DEF Current
<1>5. PICK o \in Malloc(Now[a], RefReserve) :
          IF o.p = -1 THEN UNCHANGED <<arena, heap, refcount, last>>
          ELSE /\ arena' = [arena EXCEPT ![a] = [o.arena EXCEPT !.blocks = <<RefTo(o.p, to)>> \o @]]
               /\ heap' = heap \cup o.got
               /\ refcount' = [refcount EXCEPT ![to] = @ + 1]
  BY <1>4 DEF upb_Arena_RefArena, IncRefFor
<1>6. /\ View /\ max_block_size \in Nat /\ Core(Now, freeing, live, heap, refcount, owned)
      /\ RefReserve \in Nat
  BY Sizing DEF AllocInv
<1>7. Denied(o, Now[a]) \/ Served(o, Now[a], AllocSpan(RefReserve), InUse)
  BY <1>2, <1>5, <1>6, MallocOutcomes
<1>8. decoding \subseteq owned
  BY <1>6, Decoding
<1>9. CASE Denied(o, Now[a])
  <2>1. arena' = arena /\ heap' = heap /\ refcount' = refcount
    BY <1>5, <1>9 DEF Denied
  <2>2. View' /\ Now' = Now
    BY <1>1, <1>6, <1>8, <2>1, Unmoved
  <2> QED BY <1>1, <1>6, <2>1, <2>2, SameStep
<1>10. CASE Served(o, Now[a], AllocSpan(RefReserve), InUse)
  <2> DEFINE b == RefTo(o.p, to)
             r2 == WithRef(o.arena, b)
             N2 == Now'
             H2 == heap'
  <2>1. o.p # -1
    BY <1>10 DEF Served
  <2>2. arena' = [arena EXCEPT ![a] = r2] /\ heap' = heap \cup o.got
        /\ refcount' = [refcount EXCEPT ![to] = @ + 1]
    BY <1>5, <2>1 DEF WithRef
  <2>3. b = RefTo(o.p, to) /\ r2 = WithRef(o.arena, b)
    OBVIOUS
  <2> HIDE DEF b, r2, N2, H2
  <2>4. RecordOK(r2, In(a)) /\ r2.mem = Now[a].mem /\ r2.ptr = o.arena.ptr /\ r2.end = o.arena.end
    <3> DEFINE r == Now[a]
               X == In(a)
               U == InUse
    <3>1. RefGiven(r, X, U, o, to, b, r2)
      BY <1>2, <1>10, <2>3 DEF RefGiven
    <3> HIDE DEF r, X, U
    <3>2. RefTaken(r, X, o, b, r2)
      BY <3>1, RefOK
    <3> QED BY <3>2 DEF r, X, RefTaken
  <2>5. r2 \in Record
    BY <2>4 DEF RecordOK
  <2>6. Update(a, r2)
    BY <1>1, <2>2 DEF Update
  <2>7. View' /\ Now' = Put(Now, a, r2)
    BY <1>1, <1>2, <1>6, <2>4, <2>5, <2>6, Updated
  <2>8. InUse = Used(Real(Now), Mems(Now), heap)
    BY <1>6, InUseNow
  <2>9. Core(N2, freeing, live, H2, [refcount EXCEPT ![to] = @ + 1], owned)
    <3>1. N2 = Put(Now, a, r2) /\ H2 = heap \cup o.got
      BY <2>2, <2>7 DEF N2, H2
    <3>2. Served(o, Now[a], AllocSpan(RefReserve), Used(Real(Now), Mems(Now), heap))
      BY <1>10, <2>8
    <3> QED BY <1>2, <1>3, <1>6, <2>3, <3>1, <3>2, CoreRef
  <2>10. AllocInv'
    BY <1>1, <1>6, <2>2, <2>7, <2>9 DEF AllocInv, N2, H2
  <2>11. Gain(Now[a], r2)
    BY <1>10, <2>4 DEF Gain, Served, ArenaHas
  <2>12. Steady
    BY <1>6, <2>7, <2>11, SteadyPut
  <2> QED BY <2>10, <2>12
<1> QED BY <1>7, <1>9, <1>10

\* A step that leaves every arena as it was.
LEMMA StillStep ==
    ASSUME AllocInv, arena' = arena, decoders' = decoders, decoding' = decoding,
           decoding \subseteq owned', max_block_size' = max_block_size,
           Core(Now, freeing', live', heap', refcount', owned')
    PROVE  AllocInv' /\ Steady
<1>1. View /\ max_block_size \in Nat
  BY DEF AllocInv
<1>2. View' /\ Now' = Now
  BY <1>1, Unmoved
<1>3. Core(Now', freeing', live', heap', refcount', owned')
  BY <1>2
<1> QED BY <1>1, <1>2, <1>3, SteadySame DEF AllocInv

LEMMA WalkIs ==
    ASSUME View, NEW a \in Arena, a \notin decoding
    PROVE  Walk(a) = [arena |-> a, rest |-> Now[a].blocks]
BY NowIs DEF Walk, Current

LEMMA FreeStep ==
    ASSUME AllocInv, NEW a \in Arena, upb_Arena_Free(a)
    PROVE  AllocInv' /\ Steady
<1>1. /\ a \in owned /\ a \notin decoding /\ freeing = <<>> /\ owned' = owned \ {a}
      /\ arena' = arena /\ decoders' = decoders /\ decoding' = decoding
      /\ max_block_size' = max_block_size /\ heap' = heap
  BY DEF upb_Arena_Free, Usable, Idle
<1>2. View /\ Core(Now, freeing, live, heap, refcount, owned)
  BY DEF AllocInv
<1>3. live' = Kept(live, a, refcount)
  BY DEF upb_Arena_Free, Kept
<1>4. decoding \subseteq owned'
  BY <1>1, <1>2, Decoding
<1>5. /\ refcount[a] = 1 => Core(Now, Begun(freeing, Now, a), Kept(live, a, refcount), heap, refcount, owned \ {a})
      /\ refcount[a] # 1 => Core(Now, freeing, Kept(live, a, refcount), heap, Minus(refcount, a), owned \ {a})
  BY <1>1, <1>2, CoreFree
<1>6. CASE refcount[a] = 1
  <2>1. freeing' = <<Walk(a)>> /\ refcount' = refcount
    BY <1>6 DEF upb_Arena_Free
  <2>2. freeing' = Begun(freeing, Now, a)
    BY <1>1, <1>2, <2>1, WalkIs DEF Begun
  <2>3. Core(Now, freeing', live', heap', refcount', owned')
    BY <1>1, <1>3, <1>5, <1>6, <2>1, <2>2
  <2> QED BY <1>1, <1>4, <2>3, StillStep
<1>7. CASE refcount[a] # 1
  <2>1. freeing' = freeing /\ refcount' = Minus(refcount, a)
    BY <1>7 DEF upb_Arena_Free, Minus
  <2>2. Core(Now, freeing', live', heap', refcount', owned')
    BY <1>1, <1>3, <1>5, <1>7, <2>1
  <2> QED BY <1>1, <1>4, <2>2, StillStep
<1> QED BY <1>6, <1>7

LEMMA FreeBlockStep ==
    ASSUME AllocInv, FreeBlock
    PROVE  AllocInv' /\ Steady
<1> DEFINE b == Head(Last(freeing).rest)
<1>1. /\ freeing # <<>> /\ Last(freeing).rest # <<>> /\ ~ IsRef(b) /\ heap' = heap \ {b}
      /\ freeing' = Popped(freeing)
      /\ arena' = arena /\ decoders' = decoders /\ decoding' = decoding /\ owned' = owned
      /\ max_block_size' = max_block_size /\ refcount' = refcount /\ live' = live
  BY DEF FreeBlock, Popped
<1>2. View /\ Core(Now, freeing, live, heap, refcount, owned)
  BY DEF AllocInv
<1>3. b = Head(Last(freeing).rest)
  OBVIOUS
<1> HIDE DEF b
<1>4. Core(Now, Popped(freeing), live, heap \ {b}, refcount, owned)
  BY <1>1, <1>2, <1>3, CoreFreeBlock
<1>5. Core(Now, freeing', live', heap', refcount', owned')
  BY <1>1, <1>4
<1>6. decoding \subseteq owned'
  BY <1>1, <1>2, Decoding
<1> QED BY <1>1, <1>5, <1>6, StillStep

LEMMA ReleaseRefStep ==
    ASSUME AllocInv, ReleaseRef
    PROVE  AllocInv' /\ Steady
<1> DEFINE b == Head(Last(freeing).rest)
           t == b.to
<1>1. /\ arena' = arena /\ decoders' = decoders /\ decoding' = decoding /\ owned' = owned
      /\ max_block_size' = max_block_size /\ heap' = heap
  BY DEF ReleaseRef
<1>2. AtRef(freeing, b, t)
  BY DEF ReleaseRef, AtRef
<1>3. /\ IF refcount[t] = 1 THEN freeing' = Append(Popped(freeing), Walk(t)) /\ refcount' = refcount
         ELSE freeing' = Popped(freeing) /\ refcount' = Minus(refcount, t)
      /\ live' = Kept(live, t, refcount)
  BY DEF ReleaseRef, Popped, Minus, Kept
<1> HIDE DEF b, t
<1>4. View /\ Core(Now, freeing, live, heap, refcount, owned)
  BY DEF AllocInv
<1>5. /\ t \in Real(Now) \ Wk(freeing)
      /\ refcount[t] = 1 => /\ Core(Now, Begun(Popped(freeing), Now, t), Kept(live, t, refcount), heap, refcount, owned)
                            /\ t \notin owned
      /\ refcount[t] # 1 => Core(Now, Popped(freeing), Kept(live, t, refcount), heap, Minus(refcount, t), owned)
  BY <1>2, <1>4, CoreRelease
<1>6. decoding \subseteq owned' /\ decoding \subseteq owned
  BY <1>1, <1>4, Decoding
<1>7. CASE refcount[t] = 1
  <2>1. t \in Arena /\ t \notin decoding
    BY <1>5, <1>6, <1>7 DEF Real
  <2>2. freeing' = Begun(Popped(freeing), Now, t)
    BY <1>3, <1>4, <1>7, <2>1, WalkIs DEF Begun
  <2>3. Core(Now, freeing', live', heap', refcount', owned')
    BY <1>1, <1>3, <1>5, <1>7, <2>2
  <2> QED BY <1>1, <1>6, <2>3, StillStep
<1>8. CASE refcount[t] # 1
  <2>1. Core(Now, freeing', live', heap', refcount', owned')
    BY <1>1, <1>3, <1>5, <1>8
  <2> QED BY <1>1, <1>6, <2>1, StillStep
<1> QED BY <1>7, <1>8

LEMMA WalkDoneStep ==
    ASSUME AllocInv, WalkDone
    PROVE  AllocInv' /\ Steady
<1> DEFINE a == Last(freeing).arena
<1>1. /\ freeing # <<>> /\ Last(freeing).rest = <<>> /\ freeing' = Front(freeing)
      /\ arena' = [arena EXCEPT ![a] = NoArena] /\ refcount' = [refcount EXCEPT ![a] = 0]
      /\ decoders' = decoders /\ decoding' = decoding /\ owned' = owned
      /\ max_block_size' = max_block_size /\ heap' = heap /\ live' = live
  BY DEF WalkDone
<1>2. a = Last(freeing).arena
  OBVIOUS
<1> HIDE DEF a, NoArena
<1>3. View /\ max_block_size \in Nat /\ Core(Now, freeing, live, heap, refcount, owned)
  BY DEF AllocInv
<1>4. /\ Core(Put(Now, a, NoArena), Front(freeing), live, heap, [refcount EXCEPT ![a] = 0], owned)
      /\ a \in Real(Now) /\ a \in Wk(freeing)
  BY <1>1, <1>2, <1>3, CoreDone
<1>5. a \in Arena /\ a \notin owned
  BY <1>3, <1>4 DEF Core, Counts, Real
<1>6. \A c \in decoding : /\ c \in Arena /\ Exists(c) /\ decoding = {c} /\ c \in owned /\ c # a
                          /\ \A i \in DOMAIN decoders : decoders[i].mem = arena[c].mem
  BY <1>3, <1>5 DEF View
<1>7. arena \in [Arena -> Record \cup {NoArena}] /\ decoders \in Seq(Record)
      /\ (decoding = {} <=> decoders = <<>>)
  BY <1>3 DEF View
<1>8. arena' \in [Arena -> Record \cup {NoArena}] /\ arena'[a] = NoArena
      /\ \A c \in Arena : c # a => arena'[c] = arena[c]
  BY <1>1, <1>5, <1>7
<1>9. View'
  <2>1. \A c \in decoding' : /\ c \in Arena /\ Exists(c)' /\ decoding' = {c} /\ c \in owned'
                             /\ \A i \in DOMAIN decoders' : decoders'[i].mem = arena'[c].mem
    BY <1>1, <1>6, <1>8 DEF Exists
  <2> QED BY <1>1, <1>7, <1>8, <2>1 DEF View
<1>10. Now' = Put(Now, a, NoArena)
  <2>1. \A c \in Arena : Current(c)' = IF c = a THEN NoArena ELSE Current(c)
    BY <1>1, <1>6, <1>8 DEF Current
  <2> QED BY <2>1 DEF Now, Put
<1>11. AllocInv'
  BY <1>1, <1>3, <1>4, <1>9, <1>10 DEF AllocInv
<1>12. Steady
  <2>1. \A c \in Arena : c # a => Now'[c] = Now[c]
    BY <1>3, <1>10, NowIs DEF Put
  <2>2. \A c \in Arena : c # a => Gain(Now[c], Now'[c])
    BY <2>1 DEF Gain
  <2>3. ASSUME NEW c \in Arena, c = a PROVE ~ Exists(c)'
    BY <1>8, <2>3 DEF Exists
  <2> QED BY <2>2, <2>3 DEF Steady
<1> QED BY <1>11, <1>12

-----------------------------------------------------------------------------
(* Decoders, and the specification as a whole.                             *)

\* t ends in x, and has no other new element.
Lasting(t, s, x, S) ==
    /\ t \in Seq(S) /\ t # <<>> /\ Last(t) = x
    /\ \A i \in DOMAIN t : t[i] = x \/ (i \in DOMAIN s /\ t[i] = s[i])

LEMMA Appended ==
    ASSUME NEW S, NEW s \in Seq(S), NEW x \in S
    PROVE  Lasting(Append(s, x), s, x, S)
<1> DEFINE t == Append(s, x)
<1>1. /\ t \in Seq(S) /\ Len(t) = Len(s) + 1 /\ t[Len(s) + 1] = x /\ Len(s) \in Nat
      /\ DOMAIN t = 1..(Len(s) + 1) /\ DOMAIN s = 1..Len(s)
      /\ \A i \in 1..Len(s) : t[i] = s[i]
  OBVIOUS
<1> HIDE DEF t
<1>2. t # <<>>
  BY <1>1
<1>3. Last(t) = x
  BY <1>1 DEF Last
<1>4. \A i \in DOMAIN t : t[i] = x \/ (i \in DOMAIN s /\ t[i] = s[i])
  <2>1. \A i \in 1..(Len(s) + 1) : i = Len(s) + 1 \/ i \in 1..Len(s)
    BY <1>1
  <2> HIDE DEF t
  <2> QED BY <1>1, <2>1, Zenon
<1> QED BY <1>1, <1>2, <1>3, <1>4 DEF Lasting, t

LEMMA DecoderInitStep ==
    ASSUME AllocInv, NEW a \in Arena, upb_Decoder_Init(a)
    PROVE  AllocInv' /\ Steady
<1>1. /\ a \in owned /\ decoding \in {{}, {a}} /\ decoders' = Append(decoders, Current(a))
      /\ decoding' = {a} /\ arena' = arena /\ owned' = owned /\ refcount' = refcount
      /\ heap' = heap /\ freeing' = freeing /\ live' = live /\ max_block_size' = max_block_size
  BY DEF upb_Decoder_Init, Usable
<1>2. View /\ max_block_size \in Nat
  BY DEF AllocInv
<1>3. Exists(a) /\ Now[a] \in Record /\ Now[a] = Current(a) /\ Now[a].mem = arena[a].mem
  BY <1>1, OwnedIs
<1>4. /\ arena \in [Arena -> Record \cup {NoArena}] /\ decoders \in Seq(Record)
      /\ (decoding = {} <=> decoders = <<>>)
      /\ a \in decoding => \A i \in DOMAIN decoders : decoders[i].mem = arena[a].mem
  BY <1>2 DEF View
<1>5. /\ decoders' \in Seq(Record) /\ decoders' # <<>> /\ Last(decoders') = Now[a]
      /\ \A i \in DOMAIN decoders' : decoders'[i] = Now[a] \/ (i \in DOMAIN decoders /\ decoders'[i] = decoders[i])
  <2>1. Lasting(Append(decoders, Now[a]), decoders, Now[a], Record)
    BY <1>3, <1>4, Appended
  <2>2. decoders' = Append(decoders, Now[a])
    BY <1>1, <1>3
  <2> QED BY <2>1, <2>2 DEF Lasting
<1>6. \A i \in DOMAIN decoders : decoders[i].mem = arena[a].mem
  BY <1>1, <1>4
<1>7. \A i \in DOMAIN decoders' : decoders'[i].mem = arena[a].mem
  BY <1>3, <1>5, <1>6
<1>8. View'
  BY <1>1, <1>3, <1>4, <1>5, <1>7 DEF View, Exists
<1>9. \A c \in Arena : Current(c)' = Current(c)
  BY <1>1, <1>3, <1>5 DEF Current
<1>10. Now' = Now
  BY <1>9 DEF Now
<1> QED BY <1>1, <1>2, <1>8, <1>10, SameStep

LEMMA Fronted ==
    ASSUME NEW S, NEW s \in Seq(S), Len(s) > 1, NEW x \in S
    PROVE  Lasting([Front(s) EXCEPT ![Len(s) - 1] = x], s, x, S)
<1> DEFINE m == Len(s) - 1
           f == SubSeq(s, 1, m)
           t == [f EXCEPT ![m] = x]
<1>1. m \in Nat /\ m >= 1 /\ DOMAIN s = 1..Len(s) /\ \A i \in 1..m : i \in DOMAIN s /\ s[i] \in S
  OBVIOUS
<1>2. f \in Seq(S) /\ Len(f) = m /\ DOMAIN f = 1..m /\ \A i \in 1..m : f[i] = s[i]
  BY <1>1
<1>3. [Front(s) EXCEPT ![Len(s) - 1] = x] = t
  BY DEF Front
<1> HIDE DEF m, f
<1>4. m \in DOMAIN f
  BY <1>1, <1>2
<1>5. t \in Seq(S)
  BY <1>2, <1>4, ChangedAt
<1>6. DOMAIN t = DOMAIN f /\ t[m] = x /\ \A i \in 1..m : i # m => t[i] = f[i]
  BY <1>2, <1>4
<1> HIDE DEF t
<1>7. Len(t) = m
  BY <1>1, <1>2, <1>5, <1>6
<1>8. t # <<>>
  BY <1>1, <1>7
<1>9. Last(t) = x
  BY <1>6, <1>7 DEF Last
<1>10. \A i \in DOMAIN t : t[i] = x \/ (i \in DOMAIN s /\ t[i] = s[i])
  <2>1. ASSUME NEW i \in DOMAIN t PROVE t[i] = x \/ (i \in DOMAIN s /\ t[i] = s[i])
    <3>1. i \in 1..m
      BY <1>2, <1>6
    <3>2. i \in DOMAIN s /\ f[i] = s[i]
      BY <1>1, <1>2, <3>1
    <3>3. i = m => t[i] = x
      BY <1>6
    <3>4. i # m => t[i] = f[i]
      BY <1>6, <3>1
    <3> QED BY <3>2, <3>3, <3>4
  <2> QED BY <2>1
<1>11. Lasting(t, s, x, S)
  BY <1>5, <1>8, <1>9, <1>10 DEF Lasting
<1> QED BY <1>3, <1>11

LEMMA DecoderDestroyStep ==
    ASSUME AllocInv, upb_Decoder_Destroy
    PROVE  AllocInv' /\ Steady
<1> DEFINE n == Len(decoders)
           copy == Last(decoders)
<1>1. /\ n > 0 /\ owned' = owned /\ refcount' = refcount
      /\ heap' = heap /\ freeing' = freeing /\ live' = live /\ max_block_size' = max_block_size
  BY DEF upb_Decoder_Destroy
<1>2. IF n = 1
         THEN /\ arena' = [c \in Arena |-> IF c \in decoding THEN copy ELSE arena[c]]
              /\ decoders' = <<>> /\ decoding' = {}
         ELSE /\ decoders' = [Front(decoders) EXCEPT ![n - 1] = copy]
              /\ arena' = arena /\ decoding' = decoding
  BY DEF upb_Decoder_Destroy, SwapOut
<1>3. View /\ max_block_size \in Nat
  BY DEF AllocInv
<1>4. /\ arena \in [Arena -> Record \cup {NoArena}] /\ decoders \in Seq(Record)
      /\ (decoding = {} <=> decoders = <<>>)
  BY <1>3 DEF View
<1>5. PICK a : a \in decoding
  <2>1. decoders # <<>>
    BY <1>1
  <2> QED BY <1>4, <2>1
<1>6. /\ a \in Arena /\ Exists(a) /\ decoding = {a} /\ a \in owned /\ copy \in Record
      /\ copy.mem = arena[a].mem /\ n \in Nat
      /\ \A i \in DOMAIN decoders : decoders[i].mem = arena[a].mem
  BY <1>3, <1>5, Decoding DEF View
<1> HIDE DEF n, copy
<1>7. \A c \in Arena : Current(c) = IF c = a THEN copy ELSE arena[c]
  BY <1>6 DEF Current, copy
<1>8. CASE n = 1
  <2>1. /\ arena' = [c \in Arena |-> IF c \in decoding THEN copy ELSE arena[c]]
        /\ decoders' = <<>> /\ decoding' = {}
    BY <1>2, <1>8
  <2>2. View'
    <3>1. arena' \in [Arena -> Record \cup {NoArena}]
      BY <1>4, <1>6, <2>1
    <3> QED BY <2>1, <3>1 DEF View
  <2>3. \A c \in Arena : Current(c)' = Current(c)
    BY <1>6, <1>7, <2>1 DEF Current
  <2>4. Now' = Now
    BY <2>3 DEF Now
  <2> QED BY <1>1, <1>3, <2>2, <2>4, SameStep
<1>9. CASE n # 1
  <2>1. /\ decoders' = [Front(decoders) EXCEPT ![n - 1] = copy]
        /\ arena' = arena /\ decoding' = decoding
    BY <1>2, <1>9
  <2>2. n > 1
    BY <1>1, <1>6, <1>9
  <2>3. /\ decoders' \in Seq(Record) /\ decoders' # <<>> /\ Last(decoders') = copy
        /\ \A i \in DOMAIN decoders' : decoders'[i] = copy \/ (i \in DOMAIN decoders /\ decoders'[i] = decoders[i])
    <3>1. Lasting([Front(decoders) EXCEPT ![n - 1] = copy], decoders, copy, Record)
      BY <1>4, <1>6, <2>2, Fronted DEF n
    <3> QED BY <2>1, <3>1 DEF Lasting
  <2>4. \A i \in DOMAIN decoders' : decoders'[i].mem = arena[a].mem
    BY <1>6, <2>3
  <2>5. View'
    BY <1>1, <1>4, <1>6, <2>1, <2>3, <2>4 DEF View, Exists
  <2>6. \A c \in Arena : Current(c)' = Current(c)
    BY <1>6, <1>7, <2>1, <2>3 DEF Current
  <2>7. Now' = Now
    BY <2>6 DEF Now
  <2> QED BY <1>1, <1>3, <2>5, <2>7, SameStep
<1> QED BY <1>8, <1>9

LEMMA SetMaxBlockSizeStep ==
    ASSUME AllocInv, NEW max \in MaxBlockSizes, upb_Arena_SetMaxBlockSize(max)
    PROVE  AllocInv' /\ Steady
<1>1. /\ arena' = arena /\ decoders' = decoders /\ decoding' = decoding /\ refcount' = refcount
      /\ owned' = owned /\ heap' = heap /\ freeing' = freeing /\ live' = live
      /\ max_block_size' \in Nat
  BY Sizing DEF upb_Arena_SetMaxBlockSize
<1>2. View /\ decoding \subseteq owned
  BY Decoding DEF AllocInv
<1>3. View' /\ Now' = Now
  BY <1>1, <1>2, Unmoved
<1> QED BY <1>1, <1>3, SameStep

LEMMA Begins == ASSUME Init PROVE AllocInv
<1>1. /\ arena = [a \in Arena |-> NoArena] /\ decoders = <<>> /\ decoding = {}
      /\ refcount = [a \in Arena |-> 0] /\ owned = {} /\ max_block_size \in MaxBlockSizes
      /\ heap = {} /\ freeing = <<>> /\ live = {}
  BY DEF Init
<1>2. View
  BY <1>1 DEF View
<1>3. max_block_size \in Nat
  BY <1>1, Sizing
<1>4. \A a \in Arena : arena[a] = NoArena
  BY <1>1
<1>5. Existing = {}
  BY <1>4 DEF Existing, Exists
<1>6. Real(Now) = {}
  BY <1>2, <1>5, RealNow
<1>7. Now \in [Arena -> Record \cup {NoArena}]
  BY <1>2, NowIs
<1>8. Wk(freeing) = {} /\ Frees(freeing, Real(Now))
  BY <1>1, NoWalks
<1>9. Local(Now, Wk(freeing), live)
  BY <1>1, <1>6 DEF Local
<1>10. Books(Real(Now), Lists(Now, freeing), Mems(Now), heap)
  BY <1>1, <1>6 DEF Books
<1>11. AllRefs(Real(Now), Lists(Now, freeing)) = {}
  BY <1>6 DEF AllRefs
<1>12. \A a \in Arena : To({}, a) = {}
  BY DEF To
<1>13. Counts({}, {}, Wk(freeing), refcount, owned)
  BY <1>1, <1>12, FS_EmptySet DEF Counts
<1>14. Core(Now, freeing, live, heap, refcount, owned)
  BY <1>6, <1>7, <1>8, <1>9, <1>10, <1>11, <1>13 DEF Core
<1> QED BY <1>2, <1>3, <1>14 DEF AllocInv

LEMMA Goes == ASSUME AllocInv, [Next]_vars PROVE AllocInv' /\ Steady
<1>1. CASE UNCHANGED vars
  <2>1. /\ arena' = arena /\ decoders' = decoders /\ decoding' = decoding /\ refcount' = refcount
        /\ owned' = owned /\ heap' = heap /\ freeing' = freeing /\ live' = live
        /\ max_block_size' = max_block_size
    BY <1>1 DEF vars
  <2>2. View /\ decoding \subseteq owned /\ max_block_size \in Nat
    BY Decoding DEF AllocInv
  <2>3. View' /\ Now' = Now
    BY <2>1, <2>2, Unmoved
  <2> QED BY <2>1, <2>2, <2>3, SameStep
<1>2. CASE Next
  <2>1. ASSUME NEW a \in Arena, upb_Arena_Init(a) PROVE AllocInv' /\ Steady
    BY <2>1, InitStep
  <2>2. ASSUME NEW a \in Arena, upb_Arena_Free(a) PROVE AllocInv' /\ Steady
    BY <2>2, FreeStep
  <2>3. ASSUME NEW a \in Arena, upb_Decoder_Init(a) PROVE AllocInv' /\ Steady
    BY <2>3, DecoderInitStep
  <2>4. ASSUME NEW a \in Arena, NEW n \in Sizes, upb_Arena_InitSlow(a, n) PROVE AllocInv' /\ Steady
    BY <2>4, InitSlowStep
  <2>5. ASSUME NEW a \in Arena, NEW n \in Sizes, upb_Arena_Malloc(a, n) PROVE AllocInv' /\ Steady
    BY <2>5, MallocStep
  <2>6. ASSUME NEW a \in Arena, NEW n \in Sizes, upb_Arena_Realloc(a, n) PROVE AllocInv' /\ Steady
    BY <2>6, ReallocStep
  <2>7. ASSUME NEW a \in Arena, NEW n \in Sizes, upb_Arena_TryExtend(a, n) PROVE AllocInv' /\ Steady
    BY <2>7, TryExtendStep
  <2>8. ASSUME NEW a \in Arena, NEW n \in Sizes, upb_Arena_ShrinkLast(a, n) PROVE AllocInv' /\ Steady
    BY <2>8, ShrinkLastStep
  <2>9. ASSUME NEW a \in Arena, NEW b \in Arena, upb_Arena_RefArena(a, b) PROVE AllocInv' /\ Steady
    BY <2>9, RefArenaStep
  <2>10. ASSUME NEW max \in MaxBlockSizes, upb_Arena_SetMaxBlockSize(max) PROVE AllocInv' /\ Steady
    BY <2>10, SetMaxBlockSizeStep
  <2>11. CASE FreeBlock
    BY <2>11, FreeBlockStep
  <2>12. CASE ReleaseRef
    BY <2>12, ReleaseRefStep
  <2>13. CASE WalkDone
    BY <2>13, WalkDoneStep
  <2>14. CASE upb_Decoder_Destroy
    BY <2>14, DecoderDestroyStep
  <2> QED BY <1>2, <2>1, <2>2, <2>3, <2>4, <2>5, <2>6, <2>7, <2>8, <2>9, <2>10, <2>11, <2>12,
             <2>13, <2>14 DEF Next
<1> QED BY <1>1, <1>2

-----------------------------------------------------------------------------
(* What the runs check follows from the invariant.                         *)

Rests(a) == {w \in ToSet(freeing) : w.arena = a}

LEMMA WalkingIs ==
    ASSUME AllocInv
    PROVE  /\ Walking = Wk(freeing) /\ Existing = Real(Now)
           /\ \A a \in Walking : \E w \in ToSet(freeing) :
                 Rests(a) = {w} /\ w.rest = Lists(Now, freeing)[a]
<1>1. View /\ Frees(freeing, Real(Now))
  BY DEF AllocInv, Core
<1>2. Walking = Wk(freeing)
  BY DEF Walking, Wk, ToSet
<1>3. ASSUME NEW a \in Walking
      PROVE  \E w \in ToSet(freeing) : Rests(a) = {w} /\ w.rest = Lists(Now, freeing)[a]
  <2>1. PICK i \in DOMAIN freeing : freeing[i].arena = a
    BY <1>2 DEF Wk
  <2>2. \A j \in DOMAIN freeing : freeing[j].arena = a => j = i
    BY <1>1, <2>1 DEF Frees
  <2>3. \A w \in ToSet(freeing) : w.arena = a => w = freeing[i]
    BY <2>2 DEF ToSet
  <2>4. freeing[i] \in ToSet(freeing)
    BY DEF ToSet
  <2>5. Rests(a) = {freeing[i]}
    BY <2>1, <2>3, <2>4 DEF Rests
  <2>6. freeing[i].rest = Lists(Now, freeing)[a]
    BY <1>1, <2>1, ListOfWalk
  <2> QED BY <2>4, <2>5, <2>6
<1> QED BY <1>1, <1>2, <1>3, RealNow

LEMMA InventoryIs ==
    ASSUME AllocInv, NEW a \in Existing \ Walking
    PROVE  /\ a \in Arena /\ Current(a) = Now[a] /\ RecordOK(Now[a], In(a))
           /\ Blocks(a) = BlocksIn(Now[a].blocks) /\ Refs(a) = RefsIn(Now[a].blocks)
           /\ Lists(Now, freeing)[a] = Now[a].blocks
           /\ Blocks(a) \subseteq heap
<1>1. View /\ Core(Now, freeing, live, heap, refcount, owned)
  BY DEF AllocInv
<1>2. a \in Real(Now) \ Wk(freeing) /\ a \in Arena
  BY WalkingIs DEF Existing
<1>3. /\ RecordOK(Now[a], Of(live, a)) /\ Lists(Now, freeing)[a] = Now[a].blocks
      /\ BlocksIn(Now[a].blocks) \subseteq heap
  BY <1>1, <1>2, CoreAt
<1>4. Current(a) = Now[a]
  BY <1>1, <1>2, NowIs
<1>5. Blocks(a) = BlocksIn(Now[a].blocks) /\ Refs(a) = RefsIn(Now[a].blocks)
  BY <1>4 DEF Blocks, Refs, BlocksIn, RefsIn
<1>6. In(a) = Of(live, a)
  BY DEF In, Of
<1> QED BY <1>2, <1>3, <1>4, <1>5, <1>6

\* Pieces with a common unit are one piece.
LEMMA PiecesApart ==
    ASSUME AllocInv, NEW a \in Existing \ Walking
    PROVE  /\ \A p \in Pieces(a) : p[2] \subseteq Territory(a)
           /\ \A p, q \in Pieces(a) : p # q => p[2] \cap q[2] = {}
<1> DEFINE X == In(a)
           R == RefsIn(Now[a].blocks)
           f == FreeOf(Now[a])
           G == Ground(Now[a])
<1>1. /\ a \in Arena /\ Current(a) = Now[a] /\ RecordOK(Now[a], X)
      /\ Blocks(a) = BlocksIn(Now[a].blocks) /\ Refs(a) = R
  BY InventoryIs
<1>2. Tidy(X, R, f, G)
  BY <1>1 DEF RecordOK
<1>3. StateUnits(a) = StateOf(Now[a])
  BY <1>1 DEF StateUnits, StateOf
<1>4. Territory(a) = G
  BY <1>1, <1>3 DEF Territory, Ground, Usual
<1>5. ASSUME NEW p \in Pieces(a)
      PROVE  \/ \E x \in X : p = <<x, PlaceOf(x)>>
             \/ \E b \in R : p = <<b, RefPlace(b)>>
             \/ p = <<None, f>>
  BY <1>1 DEF Pieces, PlaceOf, RefPlace, FreeOf
<1> HIDE DEF X, R, f, G
<1>6. ASSUME NEW p \in Pieces(a) PROVE p[2] \subseteq Territory(a)
  BY <1>2, <1>4, <1>5 DEF Tidy
<1>7. ASSUME NEW p \in Pieces(a), NEW q \in Pieces(a), p # q PROVE p[2] \cap q[2] = {}
  <2>1. CASE \E x \in X : p = <<x, PlaceOf(x)>>
    <3>1. PICK x \in X : p = <<x, PlaceOf(x)>>
      BY <2>1
    <3>2. CASE \E y \in X : q = <<y, PlaceOf(y)>>
      <4>1. PICK y \in X : q = <<y, PlaceOf(y)>>
        BY <3>2
      <4>2. x # y
        BY <1>7, <3>1, <4>1
      <4> QED BY <1>2, <3>1, <4>1, <4>2 DEF Tidy
    <3> QED BY <1>2, <1>5, <3>1, <3>2 DEF Tidy
  <2>2. CASE \E b \in R : p = <<b, RefPlace(b)>>
    <3>1. PICK b \in R : p = <<b, RefPlace(b)>>
      BY <2>2
    <3>2. CASE \E c \in R : q = <<c, RefPlace(c)>>
      <4>1. PICK c \in R : q = <<c, RefPlace(c)>>
        BY <3>2
      <4>2. b # c
        BY <1>7, <3>1, <4>1
      <4> QED BY <1>2, <3>1, <4>1, <4>2 DEF Tidy
    <3> QED BY <1>2, <1>5, <3>1, <3>2 DEF Tidy
  <2>3. CASE p = <<None, f>>
    <3>1. q # <<None, f>>
      BY <1>7, <2>3
    <3> QED BY <1>2, <1>5, <2>3, <3>1 DEF Tidy
  <2> QED BY <1>5, <2>1, <2>2, <2>3
<1> QED BY <1>6, <1>7

LEMMA SafeNow == ASSUME AllocInv PROVE AllocationsSafe
BY PiecesApart, InventoryIs DEF AllocationsSafe

LEMMA AccountedNow == ASSUME AllocInv PROVE BlocksAccounted
<1> DEFINE L == Lists(Now, freeing)
           Held(a) == IF a \in Walking
                         THEN UNION {{b \in ToSet(w.rest) : ~ IsRef(b)} : w \in Rests(a)}
                         ELSE Blocks(a)
<1>1. Books(Existing, L, Mems(Now), heap)
  BY WalkingIs DEF AllocInv, Core
<1>2. ASSUME NEW a \in Existing PROVE Held(a) = BlocksIn(L[a])
  <2>1. CASE a \in Walking
    <3>1. PICK w : Rests(a) = {w} /\ w.rest = L[a]
      BY <2>1, WalkingIs
    <3>2. Held(a) = {b \in ToSet(L[a]) : ~ IsRef(b)}
      BY <2>1, <3>1
    <3> QED BY <3>2 DEF BlocksIn
  <2>2. CASE a \notin Walking
    BY <2>2, InventoryIs
  <2> QED BY <2>1, <2>2
<1>3. \A a \in Existing \ Walking : Current(a).space_allocated = Total(Blocks(a))
  BY InventoryIs DEF RecordOK
<1> HIDE DEF L, Held
<1>4. heap = UNION {Held(a) : a \in Existing}
  <2>1. heap = UNION {BlocksIn(L[a]) : a \in Existing}
    BY <1>1 DEF Books
  <2> QED BY <1>2, <2>1
<1>5. \A a, b \in Existing : a # b => Held(a) \cap Held(b) = {}
  BY <1>1, <1>2 DEF Books
<1> QED BY <1>3, <1>4, <1>5 DEF BlocksAccounted, Held, Total, Rests

LEMMA OrderedNow == ASSUME AllocInv PROVE ReleaseOrder
<1> DEFINE L == Lists(Now, freeing)
           Rest(a) == IF a \in Walking
                         THEN UNION {ToSet(w.rest) : w \in Rests(a)}
                         ELSE ToSet(Current(a).blocks)
           Held(a) == BlockUnits(Current(a).mem) \cup
                      UNION {BlockUnits(b) : b \in {b \in Rest(a) : ~ IsRef(b)}}
           RefsTo(a) == {b \in UNION {Rest(c) : c \in Existing} : IsRef(b) /\ b.to = a}
           A == AllRefs(Existing, L)
<1>1. /\ Books(Existing, L, Mems(Now), heap)
      /\ Counts(A, Existing, Walking, refcount, owned)
      /\ View
  BY WalkingIs DEF AllocInv, Core
<1>2. ASSUME NEW a \in Existing PROVE Rest(a) = ToSet(L[a])
  <2>1. CASE a \in Walking
    <3>1. PICK w : Rests(a) = {w} /\ w.rest = L[a]
      BY <2>1, WalkingIs
    <3> QED BY <2>1, <3>1
  <2>2. CASE a \notin Walking
    BY <2>2, InventoryIs
  <2> QED BY <2>1, <2>2
<1>3. ASSUME NEW a \in Existing PROVE Held(a) = HeldBy(L[a], Mems(Now)[a])
  <2>1. Current(a).mem = Mems(Now)[a]
    BY <1>1, NowIs DEF Existing, Mems
  <2>2. {b \in Rest(a) : ~ IsRef(b)} = BlocksIn(L[a])
    BY <1>2 DEF BlocksIn
  <2> HIDE DEF Rest
  <2> QED BY <2>1, <2>2 DEF HeldBy
<1> HIDE DEF L, Rest
<1>4. ASSUME NEW a \in Arena PROVE RefsTo(a) = To(A, a)
  <2>1. \A c \in Existing : RefsIn(L[c]) = {b \in Rest(c) : IsRef(b)}
    BY <1>2 DEF RefsIn
  <2>2. \A b : b \in A <=> \E c \in Existing : b \in Rest(c) /\ IsRef(b)
    BY <2>1 DEF AllRefs
  <2>3. \A b : b \in RefsTo(a) <=> \E c \in Existing : b \in Rest(c) /\ IsRef(b) /\ b.to = a
    OBVIOUS
  <2> HIDE DEF A, RefsTo
  <2>4. \A b : b \in RefsTo(a) <=> b \in A /\ b.to = a
    BY <2>2, <2>3
  <2>5. \A b : b \in To(A, a) <=> b \in A /\ b.to = a
    BY DEF To
  <2> QED BY <2>4, <2>5
<1> HIDE DEF Held, A, RefsTo
<1>5. ASSUME NEW a \in Existing, NEW b \in Rest(a), IsRef(b)
      PROVE  Units(b.at, AllocSpan(RefReserve)) \subseteq Held(a)
  <2>1. b \in RefsIn(L[a])
    BY <1>2, <1>5 DEF RefsIn
  <2>2. ListOK(L[a], Mems(Now)[a])
    BY <1>1 DEF Books
  <2>3. RefPlace(b) \subseteq HeldBy(L[a], Mems(Now)[a])
    BY <2>1, <2>2, RefsHeld
  <2> QED BY <1>3, <2>3 DEF RefPlace
<1>6. ASSUME NEW a \in Existing \ Walking
      PROVE  refcount[a] = Cardinality(RefsTo(a)) + (IF a \in owned THEN 1 ELSE 0)
  <2>1. refcount[a] = Cardinality(To(A, a)) + Own(owned, a) /\ a \in Arena
    BY <1>1 DEF Counts
  <2> QED BY <1>4, <2>1 DEF Own
<1>7. ASSUME NEW a \in Arena, RefsTo(a) # {} PROVE Exists(a) /\ a \notin Walking
  <2>1. To(A, a) # {}
    BY <1>4, <1>7
  <2>2. a \in Existing \ Walking
    BY <1>1, <2>1 DEF Counts
  <2> QED BY <2>2 DEF Existing
<1> QED BY <1>5, <1>6, <1>7 DEF ReleaseOrder, RefsTo, Held, Rest, Rests

LEMMA GainsNow ==
    ASSUME AllocInv, AllocInv', Steady
    PROVE  \A a \in Arena :
               (/\ Exists(a) /\ Exists(a)' /\ decoding = decoding'
                /\ Current(a).blocks # <<>>
                /\ Current(a)'.end # Current(a).end)
               => ArenaHas(Current(a)') > ArenaHas(Current(a))
<1>1. \A a \in Arena : Now[a] = Current(a) /\ Now'[a] = Current(a)'
  BY DEF Now
<1>2. \A a \in Arena : Exists(a) /\ Exists(a)' => Gain(Current(a), Current(a)')
  BY <1>1 DEF Steady
<1> QED BY <1>2 DEF Gain

-----------------------------------------------------------------------------
(* The theorems.                                                           *)

\* The invariant: each arena is tidy, every block is in the books of one arena,
\* every reference is counted, and a decoder's copy is what its arena's callers
\* see.
THEOREM AllocInvariant == Spec => []AllocInv
<1>1. Init => AllocInv
  BY Begins
<1>2. AllocInv /\ [Next]_vars => AllocInv'
  BY Goes
<1> QED BY <1>1, <1>2, PTL DEF Spec

\* What upb_Arena_Malloc, upb_Arena_Realloc, upb_Arena_TryExtend and
\* upb_Arena_RefArena hand out never overlaps, and lies in the arena's own
\* blocks.
THEOREM AllocationsAreSafe == Spec => []AllocationsSafe
<1>1. AllocInv => AllocationsSafe
  BY SafeNow
<1> QED BY <1>1, AllocInvariant, PTL

\* Every block held from the allocator is on one list, and counted once in
\* space_allocated.
THEOREM BlocksAreAccounted == Spec => []BlocksAccounted
<1>1. AllocInv => BlocksAccounted
  BY AccountedNow
<1> QED BY <1>1, AllocInvariant, PTL

\* _upb_Arena_DoFree reads only what is still allocated, and an arena outlives
\* the references to it.
THEOREM ReleaseIsOrdered == Spec => []ReleaseOrder
<1>1. AllocInv => ReleaseOrder
  BY OrderedNow
<1> QED BY <1>1, AllocInvariant, PTL

\* _upb_Arena_SlowMalloc makes a new block the current one only if that gains
\* free space.
THEOREM SwitchesGain == Spec => SwitchGains
<1>1. AllocInv /\ AllocInv' /\ [Next]_vars =>
          [\A a \in Arena :
              (/\ Exists(a) /\ Exists(a)' /\ decoding = decoding'
               /\ Current(a).blocks # <<>>
               /\ Current(a)'.end # Current(a).end)
              => ArenaHas(Current(a)') > ArenaHas(Current(a))]_vars
  BY Goes, GainsNow
<1> QED BY <1>1, AllocInvariant, PTL DEF Spec, SwitchGains
=============================================================================
