-------------------------- MODULE ArenaRefsProofs --------------------------
(***************************************************************************)
(* Proofs about the references of ArenaFuse: no reference is lost or       *)
(* invented, no freed memory is touched, the lock-free algorithm           *)
(* implements the atomic promise of ArenaGroups, a list holds its whole    *)
(* group, a group is freed as a whole, and its space is counted exactly.   *)
(***************************************************************************)
EXTENDS ArenaFuseProofs, FiniteSetTheorems

----------------------------------------------------------------------------
(***************************************************************************)
(* Sums over finite sets.  Sums(I, w, S) says that I maps each subset of S *)
(* to the sum of the weights w of its elements.                            *)
(***************************************************************************)
Pick(s) == CHOOSE x \in s : TRUE
Sums(I, w, S) ==
    I = [s \in SUBSET S |-> IF s = {} THEN 0 ELSE w[Pick(s)] + I[s \ {Pick(s)}]]
Total(w, S) == (CHOOSE I : Sums(I, w, S))[S]

LEMMA PickIn == \A s : s # {} => Pick(s) \in s
BY DEF Pick

\* Sets of size below n.
Small(S, n) == {s \in SUBSET S : Cardinality(s) < n}
SumsBelow(I, w, S, n) ==
    I = [s \in Small(S, n) |-> IF s = {} THEN 0 ELSE w[Pick(s)] + I[s \ {Pick(s)}]]

LEMMA Smaller ==
    ASSUME NEW S, IsFiniteSet(S), NEW s \in SUBSET S, s # {}
    PROVE  /\ IsFiniteSet(s) /\ Pick(s) \in s
           /\ s \ {Pick(s)} \in SUBSET S
           /\ Cardinality(s) \in Nat /\ Cardinality(s \ {Pick(s)}) \in Nat
           /\ Cardinality(s \ {Pick(s)}) = Cardinality(s) - 1
<1>1. IsFiniteSet(s)
  BY FS_Subset
<1>2. Pick(s) \in s
  BY PickIn
<1>3. Cardinality(s \ {Pick(s)}) = Cardinality(s) - 1 /\ IsFiniteSet(s \ {Pick(s)})
  BY <1>1, <1>2, FS_RemoveElement
<1>4. Cardinality(s) \in Nat /\ Cardinality(s \ {Pick(s)}) \in Nat
  BY <1>1, <1>3, FS_CardinalityType
<1> QED BY <1>1, <1>2, <1>3, <1>4

LEMMA FiniteSize == \A S : IsFiniteSet(S) => Cardinality(S) \in Nat
BY FS_CardinalityType

\* A property of finite sets, given as the set of its instances, by induction
\* over their size.
LEMMA SizeInduction ==
    ASSUME NEW S, IsFiniteSet(S), NEW Q,
           \A s \in SUBSET S : (\A r \in SUBSET S : Cardinality(r) < Cardinality(s) => r \in Q)
                                   => s \in Q
    PROVE  \A s \in SUBSET S : s \in Q
<1> DEFINE N == {n \in Nat : \E s \in SUBSET S : s \notin Q /\ Cardinality(s) = n}
<1> SUFFICES ASSUME NEW z \in SUBSET S, z \notin Q PROVE FALSE
  OBVIOUS
<1>1. \A s \in SUBSET S : Cardinality(s) \in Nat
  BY FS_Subset, FiniteSize
<1>2. N \subseteq Nat /\ Cardinality(z) \in N
  BY <1>1
<1> HIDE DEF N
<1>3. PICK n \in N : \A m \in N : n <= m
  BY <1>2, LeastElement
<1> USE DEF N
<1>4. PICK s \in SUBSET S : s \notin Q /\ n = Cardinality(s)
  BY <1>3
<1>5. \A r \in SUBSET S : Cardinality(r) < Cardinality(s) => r \in Q
  <2> SUFFICES ASSUME NEW r \in SUBSET S, Cardinality(r) < Cardinality(s), r \notin Q PROVE FALSE
    OBVIOUS
  <2>1. Cardinality(r) \in Nat /\ Cardinality(s) \in Nat
    BY <1>1
  <2>2. Cardinality(r) \in N
    BY <2>1
  <2> HIDE DEF N
  <2>3. Cardinality(s) <= Cardinality(r)
    BY <1>3, <1>4, <2>2
  <2> QED BY <2>1, <2>3
<1> QED BY <1>4, <1>5

LEMMA OneSumBelow ==
    ASSUME NEW S, IsFiniteSet(S), NEW w, NEW n \in Nat, NEW m \in Nat, n <= m,
           NEW I, SumsBelow(I, w, S, n), NEW J, SumsBelow(J, w, S, m)
    PROVE  \A s \in Small(S, n) : I[s] = J[s]
<1> DEFINE Q == {s \in SUBSET S : s \in Small(S, n) => I[s] = J[s]}
<1>1. ASSUME NEW s \in SUBSET S,
             \A r \in SUBSET S : Cardinality(r) < Cardinality(s) => r \in Q
      PROVE  s \in Q
  <2> SUFFICES ASSUME s \in Small(S, n) PROVE I[s] = J[s]
    OBVIOUS
  <2>1. Cardinality(s) < n /\ Cardinality(s) \in Nat /\ s \in Small(S, m)
    <3>1. Cardinality(s) < n /\ Cardinality(s) \in Nat
      BY FS_Subset, FiniteSize DEF Small
    <3> QED BY <3>1 DEF Small
  <2>2. CASE s = {}
    BY <2>1, <2>2 DEF SumsBelow
  <2>3. CASE s # {}
    <3> DEFINE r == s \ {Pick(s)}
    <3>1. r \in SUBSET S /\ Cardinality(r) \in Nat /\ Cardinality(r) = Cardinality(s) - 1
      BY <2>3, Smaller
    <3>2. Cardinality(r) < Cardinality(s) /\ Cardinality(r) < n
      BY <2>1, <3>1
    <3>3. I[r] = J[r]
      BY <1>1, <3>1, <3>2 DEF Small
    <3>4. I[s] = w[Pick(s)] + I[r] /\ J[s] = w[Pick(s)] + J[r]
      BY <2>1, <2>3 DEF SumsBelow
    <3> QED BY <3>3, <3>4
  <2> QED BY <2>2, <2>3
<1> HIDE DEF Q
<1>2. \A s \in SUBSET S : s \in Q
  BY <1>1, SizeInduction
<1> QED BY <1>2 DEF Q, Small

LEMMA SumBelow ==
    ASSUME NEW S, IsFiniteSet(S), NEW w
    PROVE  \A n \in Nat : \E I : SumsBelow(I, w, S, n)
<1> DEFINE N == {n \in Nat : \E I : SumsBelow(I, w, S, n)}
<1>0. \A s \in SUBSET S : Cardinality(s) \in Nat
  BY FS_Subset, FiniteSize
<1>1. 0 \in N
  <2>1. Small(S, 0) = {}
    BY <1>0 DEF Small
  <2> DEFINE E == [s \in Small(S, 0) |-> 0]
  <2>2. SumsBelow(E, w, S, 0)
    BY <2>1 DEF SumsBelow
  <2> QED BY <2>2
<1>2. ASSUME NEW n \in Nat, n \in N PROVE n + 1 \in N
  <2>1. PICK I : SumsBelow(I, w, S, n)
    BY <1>2
  <2> DEFINE J == [s \in Small(S, n + 1) |-> IF s = {} THEN 0 ELSE w[Pick(s)] + I[s \ {Pick(s)}]]
  <2>2. \A s \in Small(S, n) : s \in Small(S, n + 1) /\ J[s] = I[s]
    <3>1. \A s \in Small(S, n) : s \in Small(S, n + 1)
      BY <1>0 DEF Small
    <3> QED BY <2>1, <3>1 DEF SumsBelow
  <2>3. ASSUME NEW s \in Small(S, n + 1), s # {}
        PROVE  I[s \ {Pick(s)}] = J[s \ {Pick(s)}]
    <3> DEFINE r == s \ {Pick(s)}
    <3>1. s \in SUBSET S /\ Cardinality(s) < n + 1
      BY DEF Small
    <3>2. /\ r \in SUBSET S /\ Cardinality(r) \in Nat /\ Cardinality(s) \in Nat
          /\ Cardinality(r) = Cardinality(s) - 1
      BY <2>3, <3>1, Smaller
    <3>3. Cardinality(r) < n
      BY <3>1, <3>2
    <3>4. r \in Small(S, n)
      BY <3>2, <3>3 DEF Small
    <3> QED BY <2>2, <3>4
  <2>4. J = [s \in Small(S, n + 1) |-> IF s = {} THEN 0 ELSE w[Pick(s)] + J[s \ {Pick(s)}]]
    BY <2>3
  <2> HIDE DEF J
  <2>5. SumsBelow(J, w, S, n + 1)
    BY <2>4 DEF SumsBelow
  <2> QED BY <2>5
<1> HIDE DEF N
<1>3. \A n \in Nat : n \in N
  BY <1>1, <1>2, SetInduction
<1> QED BY <1>3 DEF N

\* There are sums, and only one for each set.
LEMMA SumExists ==
    ASSUME NEW S, IsFiniteSet(S), NEW w
    PROVE  \E I : Sums(I, w, S)
<1>1. PICK I : SumsBelow(I, w, S, Cardinality(S) + 1)
  BY SumBelow, FiniteSize
<1>2. \A s \in SUBSET S : Cardinality(s) < Cardinality(S) + 1
  BY FS_Subset, FiniteSize
<1>3. Small(S, Cardinality(S) + 1) = SUBSET S
  BY <1>2 DEF Small
<1> QED BY <1>1, <1>3 DEF SumsBelow, Sums

LEMMA SumsAgree ==
    ASSUME NEW S, IsFiniteSet(S), NEW T \in SUBSET S, NEW w, NEW v, \A x \in T : w[x] = v[x],
           NEW I, Sums(I, w, S), NEW J, Sums(J, v, T)
    PROVE  \A s \in SUBSET T : I[s] = J[s]
<1> DEFINE Q == {s \in SUBSET T : I[s] = J[s]}
<1>0. IsFiniteSet(T)
  BY FS_Subset
<1>1. ASSUME NEW s \in SUBSET T,
             \A r \in SUBSET T : Cardinality(r) < Cardinality(s) => r \in Q
      PROVE  s \in Q
  <2>0. s \in SUBSET S
    OBVIOUS
  <2>1. CASE s = {}
    BY <2>0, <2>1 DEF Sums
  <2>2. CASE s # {}
    <3> DEFINE r == s \ {Pick(s)}
    <3>1. /\ r \in SUBSET T /\ Cardinality(r) \in Nat /\ Cardinality(s) \in Nat
          /\ Cardinality(r) = Cardinality(s) - 1 /\ Pick(s) \in T
      BY <1>0, <2>2, Smaller
    <3>2. Cardinality(r) < Cardinality(s)
      BY <3>1
    <3>3. I[r] = J[r]
      BY <1>1, <3>1, <3>2
    <3>4. I[s] = w[Pick(s)] + I[r] /\ J[s] = v[Pick(s)] + J[r]
      BY <2>0, <2>2 DEF Sums
    <3> QED BY <3>1, <3>3, <3>4
  <2> QED BY <2>1, <2>2
<1> HIDE DEF Q
<1>2. \A s \in SUBSET T : s \in Q
  BY <1>0, <1>1, SizeInduction
<1> QED BY <1>2 DEF Q

\* The sum over a subset is the same in all of them.
LEMMA TotalIs ==
    ASSUME NEW S, IsFiniteSet(S), NEW T \in SUBSET S, NEW w, NEW I, Sums(I, w, S)
    PROVE  I[T] = Total(w, T)
<1> PICK J : J = CHOOSE K : Sums(K, w, T)
  OBVIOUS
<1>1. IsFiniteSet(T)
  BY FS_Subset
<1>2. Sums(J, w, T)
  BY <1>1, SumExists
<1>3. T \in SUBSET T
  OBVIOUS
<1>4. I[T] = J[T]
  BY <1>2, <1>3, SumsAgree
<1> QED BY <1>4 DEF Total

----------------------------------------------------------------------------
(***************************************************************************)
(* The algebra of sums.                                                    *)
(***************************************************************************)
Weighs(w, S) == \A x \in S : w[x] \in Int

LEMMA TotalEmpty == \A w : Total(w, {}) = 0
<1> SUFFICES ASSUME NEW w PROVE Total(w, {}) = 0
  OBVIOUS
<1>1. PICK I : Sums(I, w, {})
  BY SumExists, FS_EmptySet
<1>2. I[{}] = Total(w, {})
  BY <1>1, TotalIs, FS_EmptySet
<1>3. I[{}] = 0
  BY <1>1 DEF Sums
<1> QED BY <1>2, <1>3

LEMMA TotalPick ==
    ASSUME NEW S, IsFiniteSet(S), S # {}, NEW w
    PROVE  Total(w, S) = w[Pick(S)] + Total(w, S \ {Pick(S)})
<1>1. PICK I : Sums(I, w, S)
  BY SumExists
<1>2. I[S] = Total(w, S) /\ I[S \ {Pick(S)}] = Total(w, S \ {Pick(S)})
  BY <1>1, TotalIs
<1>3. I[S] = w[Pick(S)] + I[S \ {Pick(S)}]
  BY <1>1 DEF Sums
<1> QED BY <1>2, <1>3

LEMMA TotalType ==
    ASSUME NEW S, IsFiniteSet(S), NEW w, Weighs(w, S)
    PROVE  Total(w, S) \in Int
<1> DEFINE Q == {s \in SUBSET S : Total(w, s) \in Int}
<1>1. ASSUME NEW s \in SUBSET S,
             \A r \in SUBSET S : Cardinality(r) < Cardinality(s) => r \in Q
      PROVE  s \in Q
  <2>1. CASE s = {}
    BY <2>1, TotalEmpty
  <2>2. CASE s # {}
    <3> PICK x, r : x = Pick(s) /\ r = s \ {x}
      OBVIOUS
    <3>1. /\ r \in SUBSET S /\ Cardinality(r) \in Nat /\ Cardinality(s) \in Nat
          /\ Cardinality(r) = Cardinality(s) - 1 /\ x \in S /\ IsFiniteSet(s)
      BY <2>2, Smaller
    <3>2. Total(w, r) \in Int
      BY <1>1, <3>1
    <3>3. w[x] \in Int
      BY <3>1 DEF Weighs
    <3>4. Total(w, s) = w[x] + Total(w, r)
      BY <2>2, <3>1, TotalPick
    <3> QED BY <3>2, <3>3, <3>4
  <2> QED BY <2>1, <2>2
<1> HIDE DEF Q
<1>2. \A s \in SUBSET S : s \in Q
  BY <1>1, SizeInduction
<1> QED BY <1>2 DEF Q

\* Any element can be taken out first.
LEMMA TotalRemove ==
    ASSUME NEW S, IsFiniteSet(S), NEW w, Weighs(w, S)
    PROVE  \A y \in S : Total(w, S) = w[y] + Total(w, S \ {y})
<1> DEFINE Q == {s \in SUBSET S : \A y \in s : Total(w, s) = w[y] + Total(w, s \ {y})}
<1>1. ASSUME NEW s \in SUBSET S,
             \A r \in SUBSET S : Cardinality(r) < Cardinality(s) => r \in Q
      PROVE  s \in Q
  <2> SUFFICES ASSUME NEW y \in s PROVE Total(w, s) = w[y] + Total(w, s \ {y})
    OBVIOUS
  <2> PICK x : x = Pick(s)
    OBVIOUS
  <2>1. /\ s \ {x} \in SUBSET S /\ Cardinality(s) \in Nat /\ IsFiniteSet(s) /\ x \in s
        /\ Cardinality(s \ {x}) = Cardinality(s) - 1
    BY Smaller
  <2>2. Total(w, s) = w[x] + Total(w, s \ {x})
    BY <2>1, TotalPick
  <2>3. CASE y = x
    BY <2>2, <2>3
  <2>4. CASE y # x
    <3>1. s \ {y} \in SUBSET S /\ Cardinality(s \ {y}) = Cardinality(s) - 1
      BY <2>1, FS_RemoveElement
    <3>2. s \ {x} \in Q /\ s \ {y} \in Q
      BY <1>1, <2>1, <3>1
    <3>3. PICK z : z = s \ {x, y}
      OBVIOUS
    <3>4. z = (s \ {x}) \ {y} /\ z = (s \ {y}) \ {x}
      BY <3>3
    <3>5. Total(w, s \ {x}) = w[y] + Total(w, z)
      BY <2>4, <3>2, <3>4
    <3>6. Total(w, s \ {y}) = w[x] + Total(w, z)
      BY <2>1, <2>4, <3>2, <3>4
    <3>7. w[x] \in Int /\ w[y] \in Int /\ Total(w, z) \in Int
      <4>1. IsFiniteSet(z) /\ Weighs(w, z)
        BY <3>3, FS_Subset DEF Weighs
      <4> QED BY <2>1, <4>1, TotalType DEF Weighs
    <3> QED BY <2>2, <3>5, <3>6, <3>7
  <2> QED BY <2>3, <2>4
<1> HIDE DEF Q
<1>2. \A s \in SUBSET S : s \in Q
  BY <1>1, SizeInduction
<1> QED BY <1>2 DEF Q

\* Equal weights have equal sums.
LEMMA TotalSame ==
    ASSUME NEW S, IsFiniteSet(S), NEW w, NEW v, \A x \in S : w[x] = v[x]
    PROVE  Total(w, S) = Total(v, S)
<1>1. PICK I : Sums(I, w, S)
  BY SumExists
<1>2. PICK J : Sums(J, v, S)
  BY SumExists
<1>3. S \in SUBSET S
  OBVIOUS
<1>4. IsFiniteSet(S) /\ \A x \in S : w[x] = v[x]
  OBVIOUS
<1>5. \A s \in SUBSET S : I[s] = J[s]
  BY ONLY <1>1, <1>2, <1>3, <1>4, SumsAgree
<1> QED BY <1>1, <1>2, <1>3, <1>5, TotalIs

\* One weight changes.
LEMMA TotalChange ==
    ASSUME NEW S, IsFiniteSet(S), NEW w, Weighs(w, S), NEW v, NEW y \in S, v[y] \in Int,
           \A x \in S \ {y} : v[x] = w[x]
    PROVE  Total(v, S) = Total(w, S) + v[y] - w[y]
<1>0. Weighs(v, S) /\ IsFiniteSet(S \ {y}) /\ Weighs(w, S \ {y})
  BY FS_Subset DEF Weighs
<1>1. Total(v, S) = v[y] + Total(v, S \ {y}) /\ Total(w, S) = w[y] + Total(w, S \ {y})
  BY <1>0, TotalRemove
<1>2. Total(v, S \ {y}) = Total(w, S \ {y})
  BY <1>0, TotalSame
<1>3. Total(w, S \ {y}) \in Int /\ w[y] \in Int
  BY <1>0, TotalType DEF Weighs
<1> QED BY <1>1, <1>2, <1>3

\* Weights add up.
LEMMA TotalPlus ==
    ASSUME NEW S, IsFiniteSet(S), NEW w, Weighs(w, S), NEW v, Weighs(v, S),
           NEW u, \A x \in S : u[x] = w[x] + v[x]
    PROVE  Total(u, S) = Total(w, S) + Total(v, S)
<1> DEFINE Q == {s \in SUBSET S : Total(u, s) = Total(w, s) + Total(v, s)}
<1>1. ASSUME NEW s \in SUBSET S,
             \A r \in SUBSET S : Cardinality(r) < Cardinality(s) => r \in Q
      PROVE  s \in Q
  <2>1. CASE s = {}
    BY <2>1, TotalEmpty
  <2>2. CASE s # {}
    <3> PICK x, r : x = Pick(s) /\ r = s \ {x}
      OBVIOUS
    <3>1. /\ r \in SUBSET S /\ Cardinality(r) \in Nat /\ Cardinality(s) \in Nat
          /\ Cardinality(r) = Cardinality(s) - 1 /\ x \in S /\ IsFiniteSet(s) /\ IsFiniteSet(r)
      BY <2>2, Smaller, FS_Subset
    <3>2. Total(u, r) = Total(w, r) + Total(v, r)
      BY <1>1, <3>1
    <3>3. Weighs(w, r) /\ Weighs(v, r) /\ w[x] \in Int /\ v[x] \in Int /\ u[x] = w[x] + v[x]
      BY <3>1 DEF Weighs
    <3>4. Total(w, r) \in Int /\ Total(v, r) \in Int
      BY <3>1, <3>3, TotalType
    <3>5. /\ Total(u, s) = u[x] + Total(u, r) /\ Total(w, s) = w[x] + Total(w, r)
          /\ Total(v, s) = v[x] + Total(v, r)
      BY <2>2, <3>1, TotalPick
    <3> QED BY <3>2, <3>3, <3>4, <3>5
  <2> QED BY <2>1, <2>2
<1> HIDE DEF Q
<1>2. \A s \in SUBSET S : s \in Q
  BY <1>1, SizeInduction
<1> QED BY <1>2 DEF Q

\* Sums over disjoint sets add up.
LEMMA TotalUnion ==
    ASSUME NEW S, NEW T, IsFiniteSet(S), IsFiniteSet(T), S \cap T = {}, NEW w, Weighs(w, S \cup T)
    PROVE  Total(w, S \cup T) = Total(w, S) + Total(w, T)
<1> DEFINE Q == {s \in SUBSET T : Total(w, S \cup s) = Total(w, S) + Total(w, s)}
<1>1. ASSUME NEW s \in SUBSET T,
             \A r \in SUBSET T : Cardinality(r) < Cardinality(s) => r \in Q
      PROVE  s \in Q
  <2>1. CASE s = {}
    <3>1. S \cup s = S /\ Weighs(w, S)
      BY <2>1 DEF Weighs
    <3>2. Total(w, S) \in Int /\ Total(w, s) = 0
      BY <2>1, <3>1, TotalEmpty, TotalType
    <3>3. Total(w, S \cup s) = Total(w, S)
      BY <3>1
    <3>4. Total(w, S \cup s) = Total(w, S) + Total(w, s)
      BY <3>2, <3>3
    <3> QED BY <3>4
  <2>2. CASE s # {}
    <3> PICK x, r : x = Pick(s) /\ r = s \ {x}
      OBVIOUS
    <3>1. /\ r \in SUBSET T /\ Cardinality(r) \in Nat /\ Cardinality(s) \in Nat
          /\ Cardinality(r) = Cardinality(s) - 1 /\ x \in s /\ IsFiniteSet(s) /\ IsFiniteSet(r)
      <4>1. /\ r \in SUBSET T /\ Cardinality(r) \in Nat /\ Cardinality(s) \in Nat
            /\ Cardinality(r) = Cardinality(s) - 1 /\ x \in s /\ IsFiniteSet(s)
        BY <2>2, Smaller
      <4> QED BY <4>1, FS_Subset
    <3>2. Total(w, S \cup r) = Total(w, S) + Total(w, r)
      BY <1>1, <3>1
    <3>3. Weighs(w, r) /\ Weighs(w, S) /\ Weighs(w, S \cup s) /\ w[x] \in Int
      BY <3>1 DEF Weighs
    <3>4. Total(w, r) \in Int /\ Total(w, S) \in Int
      BY <3>1, <3>3, TotalType
    <3>5. IsFiniteSet(S \cup s)
      BY <3>1, FS_Union
    <3>6. (S \cup s) \ {x} = S \cup r /\ x \in S \cup s
      BY <3>1
    <3>7. Total(w, S \cup s) = w[x] + Total(w, S \cup r)
      BY <3>3, <3>5, <3>6, TotalRemove
    <3>8. Total(w, s) = w[x] + Total(w, r)
      BY <2>2, <3>1, TotalPick
    <3> QED BY <3>2, <3>3, <3>4, <3>7, <3>8
  <2> QED BY <2>1, <2>2
<1> HIDE DEF Q
<1>2. \A s \in SUBSET T : s \in Q
  BY <1>1, SizeInduction
<1> QED BY <1>2 DEF Q

\* Weights that are not negative: neither is the sum, no part exceeds it, and
\* it is zero only if they all are.
LEMMA TotalNat ==
    ASSUME NEW S, IsFiniteSet(S), NEW w, \A x \in S : w[x] \in Nat
    PROVE  Total(w, S) \in Nat /\ \A y \in S : w[y] <= Total(w, S)
<1> DEFINE Q == {s \in SUBSET S : Total(w, s) \in Nat}
<1>0. Weighs(w, S)
  BY DEF Weighs
<1>1. ASSUME NEW s \in SUBSET S,
             \A r \in SUBSET S : Cardinality(r) < Cardinality(s) => r \in Q
      PROVE  s \in Q
  <2>1. CASE s = {}
    BY <2>1, TotalEmpty
  <2>2. CASE s # {}
    <3> PICK x, r : x = Pick(s) /\ r = s \ {x}
      OBVIOUS
    <3>1. /\ r \in SUBSET S /\ Cardinality(r) \in Nat /\ Cardinality(s) \in Nat
          /\ Cardinality(r) = Cardinality(s) - 1 /\ x \in S /\ IsFiniteSet(s)
      BY <2>2, Smaller
    <3>2. Total(w, r) \in Nat /\ w[x] \in Nat
      BY <1>1, <3>1
    <3> QED BY <2>2, <3>1, <3>2, TotalPick
  <2> QED BY <2>1, <2>2
<1> HIDE DEF Q
<1>2. \A s \in SUBSET S : s \in Q
  BY <1>1, SizeInduction
<1>3. ASSUME NEW y \in S PROVE w[y] <= Total(w, S)
  <2>1. Total(w, S \ {y}) \in Nat /\ w[y] \in Nat
    BY <1>2 DEF Q
  <2>2. Total(w, S) = w[y] + Total(w, S \ {y})
    BY <1>0, TotalRemove
  <2> QED BY <2>1, <2>2
<1> QED BY <1>2, <1>3 DEF Q

LEMMA TotalZero ==
    ASSUME NEW S, IsFiniteSet(S), NEW w, \A x \in S : w[x] = 0
    PROVE  Total(w, S) = 0
<1> DEFINE Q == {s \in SUBSET S : Total(w, s) = 0}
<1>1. ASSUME NEW s \in SUBSET S,
             \A r \in SUBSET S : Cardinality(r) < Cardinality(s) => r \in Q
      PROVE  s \in Q
  <2>1. CASE s = {}
    BY <2>1, TotalEmpty
  <2>2. CASE s # {}
    <3> PICK x, r : x = Pick(s) /\ r = s \ {x}
      OBVIOUS
    <3>1. /\ r \in SUBSET S /\ Cardinality(r) \in Nat /\ Cardinality(s) \in Nat
          /\ Cardinality(r) = Cardinality(s) - 1 /\ x \in S /\ IsFiniteSet(s)
      BY <2>2, Smaller
    <3>2. Total(w, r) = 0 /\ w[x] = 0
      BY <1>1, <3>1
    <3> QED BY <2>2, <3>1, <3>2, TotalPick
  <2> QED BY <2>1, <2>2
<1> HIDE DEF Q
<1>2. \A s \in SUBSET S : s \in Q
  BY <1>1, SizeInduction
<1> QED BY <1>2 DEF Q

----------------------------------------------------------------------------
(***************************************************************************)
(* The sums of the specification.                                          *)
(***************************************************************************)
LEMMA FiniteArenas ==
    /\ IsFiniteSet(Arena) /\ \A S \in SUBSET Arena : IsFiniteSet(S)
    /\ IsFiniteSet(Thread) /\ \A S \in SUBSET Thread : IsFiniteSet(S)
BY ArenaAssumption, ThreadAssumption, FS_Subset

LEMMA RefsOnIs ==
    ASSUME NEW S \in SUBSET Arena
    PROVE  RefsOn(S) = Total(refs, S)
<1> DEFINE iter == CHOOSE I : Sums(I, refs, S)
<1>1. Sums(iter, refs, S)
  BY SumExists, FiniteArenas
<1>2. RefsOn(S) = iter[S]
  BY DEF RefsOn, SumOver, MapThenSumSet, MapThenFoldSet, Sums, Pick
<1> HIDE DEF iter
<1> QED BY <1>1, <1>2, TotalIs, FiniteArenas

LEMMA OwedOnIs ==
    ASSUME NEW t \in Thread
    PROVE  SumOver(Arena, LAMBDA a : owed[t][a]) = Total(owed[t], Arena)
<1> DEFINE iter == CHOOSE I : Sums(I, owed[t], Arena)
<1>1. Sums(iter, owed[t], Arena)
  BY SumExists, FiniteArenas
<1>2. SumOver(Arena, LAMBDA a : owed[t][a]) = iter[Arena]
  BY DEF SumOver, MapThenSumSet, MapThenFoldSet, Sums, Pick
<1> HIDE DEF iter
<1> QED BY <1>1, <1>2, TotalIs, FiniteArenas

\* What the threads owe to the arenas of S, thread by thread.
OwedBy(S) == [t \in Thread |-> Total(owed[t], S)]

LEMMA OwedToIs ==
    ASSUME NEW S \in SUBSET Arena
    PROVE  OwedTo(S) = Total(OwedBy(S), Thread)
<1> DEFINE F(t) == SumOver(S, LAMBDA a : owed[t][a])
           G == [t \in Thread |-> F(t)]
           iter == CHOOSE I : I = [s \in SUBSET Thread |-> IF s = {} THEN 0
                              ELSE F(Pick(s)) + I[s \ {Pick(s)}]]
<1>1. \E I : I = [s \in SUBSET Thread |-> IF s = {} THEN 0
                              ELSE F(Pick(s)) + I[s \ {Pick(s)}]]
  <2> HIDE DEF F
  <2>1. PICK I : Sums(I, G, Thread)
    BY SumExists, FiniteArenas
  <2>2. \A s \in SUBSET Thread : s # {} => G[Pick(s)] = F(Pick(s))
    BY PickIn
  <2>3. I = [s \in SUBSET Thread |-> IF s = {} THEN 0
                              ELSE F(Pick(s)) + I[s \ {Pick(s)}]]
    BY <2>1, <2>2 DEF Sums
  <2> QED BY <2>3
<1>2. iter = [s \in SUBSET Thread |-> IF s = {} THEN 0
                              ELSE F(Pick(s)) + iter[s \ {Pick(s)}]]
  <2> HIDE DEF F
  <2> QED BY <1>1
<1>3. OwedTo(S) = iter[Thread]
  BY DEF OwedTo, SumOver, MapThenSumSet, MapThenFoldSet, Pick
<1>4. ASSUME NEW t \in Thread PROVE F(t) = Total(owed[t], S)
  <2> DEFINE it == CHOOSE I : Sums(I, owed[t], S)
  <2>1. Sums(it, owed[t], S)
    BY SumExists, FiniteArenas
  <2>2. F(t) = it[S]
    BY DEF SumOver, MapThenSumSet, MapThenFoldSet, Sums, Pick
  <2> HIDE DEF it, F
  <2> QED BY <2>1, <2>2, TotalIs, FiniteArenas
<1> HIDE DEF F, iter
<1>5. G = OwedBy(S)
  BY <1>4 DEF OwedBy
<1>6. Sums(iter, G, Thread)
  <2>2. \A s \in SUBSET Thread : s # {} => G[Pick(s)] = F(Pick(s))
    BY PickIn
  <2> QED BY <1>2, <2>2 DEF Sums
<1> QED BY <1>3, <1>5, <1>6, TotalIs, FiniteArenas

----------------------------------------------------------------------------
(***************************************************************************)
(* The references that a set G of arenas accounts for: those held, those   *)
(* being given up, and those that fuses have added in excess.              *)
(***************************************************************************)
Freeing == {"free_load", "free_cas", "do_free"}
ReleasingIn(G) == {t \in Thread : pc[t] \in Freeing /\ call[t].a \in G}
Balance(G) == Total(refs, G) + Cardinality(ReleasingIn(G)) + Total(OwedBy(G), Thread)

OwedNat == \A t \in Thread, a \in Arena : owed[t][a] \in Nat

LEMMA BalanceParts ==
    ASSUME OrderInv, OwedNat, NEW G \in SUBSET Arena
    PROVE  /\ Total(refs, G) \in Nat /\ \A a \in G : refs[a] <= Total(refs, G)
           /\ Cardinality(ReleasingIn(G)) \in Nat /\ IsFiniteSet(ReleasingIn(G))
           /\ \A t \in Thread : OwedBy(G)[t] \in Nat /\ OwedBy(G)[t] = Total(owed[t], G)
           /\ Total(OwedBy(G), Thread) \in Nat
           /\ \A t \in Thread : Total(owed[t], G) <= Total(OwedBy(G), Thread)
           /\ Balance(G) \in Nat
<1>1. IsFiniteSet(G) /\ IsFiniteSet(Thread)
  BY FiniteArenas
<1>2. \A a \in G : refs[a] \in Nat
  BY DEF OrderInv, TypeOK
<1>3. Total(refs, G) \in Nat /\ \A a \in G : refs[a] <= Total(refs, G)
  BY <1>1, <1>2, TotalNat
<1>4. IsFiniteSet(ReleasingIn(G)) /\ Cardinality(ReleasingIn(G)) \in Nat
  <2>1. ReleasingIn(G) \in SUBSET Thread
    BY DEF ReleasingIn
  <2> QED BY <2>1, FiniteArenas, FS_CardinalityType
<1>5. \A t \in Thread : OwedBy(G)[t] \in Nat /\ OwedBy(G)[t] = Total(owed[t], G)
  <2> SUFFICES ASSUME NEW t \in Thread PROVE OwedBy(G)[t] \in Nat /\ OwedBy(G)[t] = Total(owed[t], G)
    OBVIOUS
  <2>1. \A a \in G : owed[t][a] \in Nat
    BY DEF OwedNat
  <2>2. Total(owed[t], G) \in Nat
    BY <1>1, <2>1, TotalNat
  <2> QED BY <2>2 DEF OwedBy
<1>6. Total(OwedBy(G), Thread) \in Nat /\ \A t \in Thread : OwedBy(G)[t] <= Total(OwedBy(G), Thread)
  BY <1>1, <1>5, TotalNat
<1> QED BY <1>3, <1>4, <1>5, <1>6 DEF Balance

\* Two disjoint sets account for what their union does.
LEMMA BalanceUnion ==
    ASSUME OrderInv, OwedNat, NEW G \in SUBSET Arena, NEW H \in SUBSET Arena, G \cap H = {}
    PROVE  Balance(G \cup H) = Balance(G) + Balance(H)
<1>1. IsFiniteSet(G) /\ IsFiniteSet(H) /\ IsFiniteSet(Thread)
  BY FiniteArenas
<1>2. Total(refs, G \cup H) = Total(refs, G) + Total(refs, H)
  <2>1. Weighs(refs, G \cup H)
    BY DEF OrderInv, TypeOK, Weighs
  <2> QED BY <1>1, <2>1, TotalUnion
<1>3. Cardinality(ReleasingIn(G \cup H)) = Cardinality(ReleasingIn(G)) + Cardinality(ReleasingIn(H))
  <2>1. ReleasingIn(G \cup H) = ReleasingIn(G) \cup ReleasingIn(H)
    BY DEF ReleasingIn
  <2>2. ReleasingIn(G) \cap ReleasingIn(H) = {}
    BY DEF ReleasingIn
  <2>3. IsFiniteSet(ReleasingIn(G)) /\ IsFiniteSet(ReleasingIn(H))
    BY BalanceParts
  <2>4. Cardinality(ReleasingIn(G)) \in Nat /\ Cardinality(ReleasingIn(H)) \in Nat
    BY BalanceParts
  <2>5. Cardinality(ReleasingIn(G) \cup ReleasingIn(H)) =
          Cardinality(ReleasingIn(G)) + Cardinality(ReleasingIn(H))
              - Cardinality(ReleasingIn(G) \cap ReleasingIn(H))
    BY <2>3, FS_Union
  <2>6. Cardinality({}) = 0
    BY FS_EmptySet
  <2>7. Cardinality(ReleasingIn(G) \cup ReleasingIn(H)) =
          Cardinality(ReleasingIn(G)) + Cardinality(ReleasingIn(H)) - 0
    BY <2>2, <2>5, <2>6
  <2>8. Cardinality(ReleasingIn(G \cup H)) = Cardinality(ReleasingIn(G) \cup ReleasingIn(H))
    BY <2>1, Zenon
  <2>9. PICK m, n, k : /\ m = Cardinality(ReleasingIn(G \cup H))
                       /\ n = Cardinality(ReleasingIn(G)) /\ k = Cardinality(ReleasingIn(H))
    OBVIOUS
  <2>10. m = n + k - 0 /\ n \in Nat /\ k \in Nat
    BY <2>4, <2>7, <2>8, <2>9, Zenon
  <2>11. m = n + k
    BY ONLY <2>10
  <2> QED BY <2>9, <2>11, Zenon
<1>4. Total(OwedBy(G \cup H), Thread) = Total(OwedBy(G), Thread) + Total(OwedBy(H), Thread)
  <2>1. ASSUME NEW t \in Thread
        PROVE  /\ OwedBy(G \cup H)[t] = OwedBy(G)[t] + OwedBy(H)[t]
    <3>1. Weighs(owed[t], G \cup H)
      BY DEF OwedNat, Weighs
    <3>2. Total(owed[t], G \cup H) = Total(owed[t], G) + Total(owed[t], H)
      BY <1>1, <3>1, TotalUnion
    <3> QED BY <3>2 DEF OwedBy
  <2>2. Weighs(OwedBy(G), Thread) /\ Weighs(OwedBy(H), Thread)
    BY BalanceParts DEF Weighs
  <2> QED BY <1>1, <2>1, <2>2, TotalPlus
<1>5. /\ Total(refs, G) \in Nat /\ Cardinality(ReleasingIn(G)) \in Nat /\ Total(OwedBy(G), Thread) \in Nat
      /\ Total(refs, H) \in Nat /\ Cardinality(ReleasingIn(H)) \in Nat /\ Total(OwedBy(H), Thread) \in Nat
  BY BalanceParts
<1> QED BY <1>2, <1>3, <1>4, <1>5 DEF Balance

----------------------------------------------------------------------------
(***************************************************************************)
(* How steps change the parts of a balance.                                *)
(***************************************************************************)
\* The threads that are giving up a reference are the same.
SameReleasing == \A u \in Thread : /\ pc'[u] \in Freeing <=> pc[u] \in Freeing
                                   /\ pc[u] \in Freeing => call'[u].a = call[u].a

LEMMA ReleasingSame ==
    ASSUME NEW G, SameReleasing
    PROVE  ReleasingIn(G)' = ReleasingIn(G)
BY DEF ReleasingIn, SameReleasing

LEMMA OwedSame ==
    ASSUME NEW G, UNCHANGED owed
    PROVE  OwedBy(G)' = OwedBy(G)
BY DEF OwedBy

LEMMA BalanceSame ==
    ASSUME NEW G, SameReleasing, UNCHANGED <<refs, owed>>
    PROVE  Balance(G)' = Balance(G)
<1>1. ReleasingIn(G)' = ReleasingIn(G) /\ OwedBy(G)' = OwedBy(G)
  BY ReleasingSame, OwedSame
<1> QED BY <1>1 DEF Balance

\* A reference held on a changes.
LEMMA RefsChanged ==
    ASSUME OrderInv, NEW G \in SUBSET Arena, NEW a \in Arena, NEW n \in Nat,
           refs' = [refs EXCEPT ![a] = n]
    PROVE  Total(refs', G) = Total(refs, G) + IF a \in G THEN n - refs[a] ELSE 0
<1>1. IsFiniteSet(G) /\ Weighs(refs, G) /\ refs \in [Arena -> Nat]
  BY FiniteArenas DEF OrderInv, TypeOK, Weighs
<1>2. CASE a \in G
  <2>1. refs'[a] = n /\ \A x \in G \ {a} : refs'[x] = refs[x]
    BY <1>1
  <2>a. PICK v : v = refs'
    OBVIOUS
  <2>b. v[a] \in Int /\ \A x \in G \ {a} : v[x] = refs[x]
    BY <2>1, <2>a
  <2>c. Total(v, G) = Total(refs, G) + v[a] - refs[a]
    BY ONLY <1>1, <1>2, <2>b, TotalChange
  <2>2. Total(refs', G) = Total(refs, G) + refs'[a] - refs[a]
    BY <2>a, <2>c
  <2>3. Total(refs, G) \in Int /\ refs[a] \in Int
    BY <1>1, TotalType
  <2> QED BY <1>2, <2>1, <2>2, <2>3
<1>3. CASE a \notin G
  <2>1. \A x \in G : refs'[x] = refs[x]
    BY <1>1, <1>3
  <2>2. Total(refs', G) = Total(refs, G) /\ Total(refs, G) \in Int
    BY <1>1, <2>1, TotalSame, TotalType
  <2> QED BY <1>3, <2>2
<1> QED BY <1>2, <1>3

\* A thread starts to give up a reference, or has given it up.
LEMMA ReleasingAdded ==
    ASSUME NEW G, NEW t \in Thread, \A u \in Thread \ {t} : pc'[u] = pc[u] /\ call'[u] = call[u],
           pc[t] \notin Freeing, pc'[t] \in Freeing
    PROVE  Cardinality(ReleasingIn(G)') = Cardinality(ReleasingIn(G)) +
              IF call'[t].a \in G THEN 1 ELSE 0
<1>1. IsFiniteSet(ReleasingIn(G)) /\ t \notin ReleasingIn(G)
  BY FiniteArenas DEF ReleasingIn
<1>2. Cardinality(ReleasingIn(G)) \in Nat
  BY <1>1, FS_CardinalityType
<1>3. CASE call'[t].a \in G
  <2>1. ReleasingIn(G)' = ReleasingIn(G) \cup {t}
    BY <1>3 DEF ReleasingIn
  <2> QED BY <1>1, <1>3, <2>1, FS_AddElement
<1>4. CASE call'[t].a \notin G
  <2>1. ReleasingIn(G)' = ReleasingIn(G)
    BY <1>4 DEF ReleasingIn
  <2> QED BY <1>2, <1>4, <2>1
<1> QED BY <1>3, <1>4

LEMMA ReleasingRemoved ==
    ASSUME NEW G, NEW t \in Thread, \A u \in Thread \ {t} : pc'[u] = pc[u] /\ call'[u] = call[u],
           pc[t] \in Freeing, pc'[t] \notin Freeing
    PROVE  Cardinality(ReleasingIn(G)') = Cardinality(ReleasingIn(G)) -
              IF call[t].a \in G THEN 1 ELSE 0
<1>1. IsFiniteSet(ReleasingIn(G))
  BY FiniteArenas DEF ReleasingIn
<1>2. Cardinality(ReleasingIn(G)) \in Nat
  BY <1>1, FS_CardinalityType
<1>3. CASE call[t].a \in G
  <2>1. ReleasingIn(G)' = ReleasingIn(G) \ {t} /\ t \in ReleasingIn(G)
    BY <1>3 DEF ReleasingIn
  <2> QED BY <1>1, <1>3, <2>1, FS_RemoveElement
<1>4. CASE call[t].a \notin G
  <2>1. ReleasingIn(G)' = ReleasingIn(G)
    BY <1>4 DEF ReleasingIn
  <2> QED BY <1>2, <1>4, <2>1
<1> QED BY <1>3, <1>4

\* A thread's debts change.
LEMMA OwedChanged ==
    ASSUME OrderInv, OwedNat, NEW G \in SUBSET Arena, NEW t \in Thread, NEW w, Weighs(w, G),
           owed' = [owed EXCEPT ![t] = w]
    PROVE  Total(OwedBy(G)', Thread) = Total(OwedBy(G), Thread) + Total(w, G) - Total(owed[t], G)
<1>1. IsFiniteSet(G) /\ IsFiniteSet(Thread)
  BY FiniteArenas
<1>2. owed'[t] = w /\ \A u \in Thread \ {t} : owed'[u] = owed[u]
  BY DEF OrderInv, TypeOK
<1>3. Total(w, G) \in Int
  BY <1>1, TotalType
<1> PICK v : v = OwedBy(G)'
  OBVIOUS
<1>4. v[t] = Total(w, G) /\ \A u \in Thread \ {t} : v[u] = OwedBy(G)[u]
  BY <1>2 DEF OwedBy
<1>5. Weighs(OwedBy(G), Thread) /\ OwedBy(G)[t] = Total(owed[t], G)
  BY BalanceParts DEF Weighs
<1>6. Total(v, Thread) = Total(OwedBy(G), Thread) + v[t] - OwedBy(G)[t]
  BY <1>1, <1>3, <1>4, <1>5, TotalChange
<1> QED BY <1>4, <1>5, <1>6

LEMMA OwedAtChanged ==
    ASSUME OrderInv, OwedNat, NEW G \in SUBSET Arena, NEW t \in Thread, NEW r \in Arena,
           NEW n \in Int, owed' = [owed EXCEPT ![t][r] = n]
    PROVE  /\ Total(OwedBy(G)', Thread) =
                  Total(OwedBy(G), Thread) + IF r \in G THEN n - owed[t][r] ELSE 0
           /\ Total(owed'[t], G) = Total(owed[t], G) + IF r \in G THEN n - owed[t][r] ELSE 0
<1> DEFINE w == [owed[t] EXCEPT ![r] = n]
<1>1. IsFiniteSet(G) /\ owed[t] \in [Arena -> Int] /\ owed \in [Thread -> [Arena -> Int]]
  BY FiniteArenas DEF OrderInv, TypeOK
<1>2. Weighs(owed[t], G) /\ Weighs(w, G) /\ w \in [Arena -> Int]
  BY <1>1 DEF Weighs
<1>3. owed' = [owed EXCEPT ![t] = w] /\ owed'[t] = w
  BY <1>1
<1>4. w[r] = n /\ \A x \in Arena \ {r} : w[x] = owed[t][x]
  BY <1>1
<1> HIDE DEF w
<1>5. Total(owed[t], G) \in Int /\ owed[t][r] \in Int
  BY <1>1, <1>2, TotalType
<1>6. Total(w, G) = Total(owed[t], G) + IF r \in G THEN n - owed[t][r] ELSE 0
  <2>1. CASE r \in G
    <3>1. Total(w, G) = Total(owed[t], G) + w[r] - owed[t][r]
      BY <1>1, <1>2, <1>4, <2>1, TotalChange
    <3> QED BY <1>4, <1>5, <2>1, <3>1
  <2>2. CASE r \notin G
    <3>1. \A x \in G : w[x] = owed[t][x]
      BY <1>4, <2>2
    <3>2. Total(w, G) = Total(owed[t], G)
      BY <1>1, <3>1, TotalSame
    <3> QED BY <1>5, <2>2, <3>2
  <2> QED BY <2>1, <2>2
<1>7. Total(OwedBy(G)', Thread) = Total(OwedBy(G), Thread) + Total(w, G) - Total(owed[t], G)
  BY <1>2, <1>3, OwedChanged
<1>8. Total(OwedBy(G), Thread) \in Int
  BY BalanceParts
<1> QED BY <1>3, <1>5, <1>6, <1>7, <1>8

----------------------------------------------------------------------------
(***************************************************************************)
(* Callers hold references on the arenas they pass, for as long as the     *)
(* call runs.                                                              *)
(***************************************************************************)
Holds(r, l, c) ==
    /\ l # "idle" /\ c.op \in {"fuse", "isfused"} =>
          c.a \in Arena /\ c.b \in Arena /\ r[c.a] > 0 /\ r[c.b] > 0
    /\ l # "idle" /\ c.op \in {"incref", "space"} => c.a \in Arena /\ r[c.a] > 0
HoldInv == \A t \in Thread : Holds(refs, pc[t], call[t])

\* A step of a call keeps its arguments until it returns.
LEMMA ReturnsCall ==
    ASSUME OrderInv, NEW t \in Thread, NEW root, NEW word, FindRootReturns(t, root, word)
    PROVE  call'[t].op = call[t].op /\ call'[t].a = call[t].a /\ call'[t].b = call[t].b
<1>0. call \in [Thread -> CallFrame]
  BY DEF OrderInv, TypeOK
<1> DEFINE r == [root |-> root, count |-> word.val]
<1> HIDE DEF r
<1>1. CASE \/ GotFirstRoot(t, r) \/ GotSecondRoot(t, r) \/ GotRa(t, r) \/ GotIncRefRoot(t, r)
  BY <1>1 DEF GotFirstRoot, GotSecondRoot, GotRa, GotIncRefRoot
<1>2. CASE GotRb(t, r) \/ GotTmp(t, r)
  BY <1>0, <1>2 DEF GotRb, GotTmp, Finish, CallFrame
<1> QED BY <1>1, <1>2 DEF FindRootReturns, r

LEMMA StepCall ==
    ASSUME OrderInv, NEW t \in Thread, Step(t)
    PROVE  /\ pc[t] # "idle"
           /\ \/ pc'[t] = "idle" /\ Return(t)
              \/ call'[t].op = call[t].op /\ call'[t].a = call[t].a /\ call'[t].b = call[t].b
<1>0. call \in [Thread -> CallFrame] /\ pc \in [Thread -> Label]
  BY DEF OrderInv, TypeOK
<1> USE <1>0 DEF Finish, Retry, WalkTo, FreeWith, CallFrame, At
<1>1. CASE Return(t)
  BY <1>1 DEF Return, Goto
<1>2. CASE FindRootLoad(t) \/ FindRootNext(t)
  BY <1>2, ReturnsCall DEF FindRootLoad, FindRootNext
<1>3. CASE FindRootReload(t) \/ FindRootSplit(t)
  BY <1>3 DEF FindRootReload, FindRootSplit
<1>4. CASE DoFuseAddRefs(t) \/ DoFuseReparent(t)
  BY <1>4 DEF DoFuseAddRefs, DoFuseReparent
<1>5. CASE LinkForwardStart(t) \/ LinkForwardWalk(t) \/ LinkForwardCAS(t)
  BY <1>5 DEF LinkForwardStart, LinkForwardWalk, LinkForwardCAS
<1>6. CASE UpdateTailChild(t) \/ UpdateTailParent(t) \/ UpdateTailCAS(t) \/ LinkBackward(t)
  BY <1>6 DEF UpdateTailChild, UpdateTailParent, UpdateTailCAS, LinkBackward
<1>7. CASE FixupRefsLoad(t) \/ FixupRefsCAS(t)
  BY <1>7 DEF FixupRefsLoad, FixupRefsCAS
<1>8. CASE IncRefCAS(t)
  BY <1>8 DEF IncRefCAS
<1>9. CASE FreeLoad(t) \/ FreeCAS(t)
  BY <1>9 DEF FreeLoad, FreeCAS
<1>10. CASE DoFree(t)
  BY <1>10 DEF DoFree
<1>11. CASE SpaceBackward(t) \/ SpaceForward(t)
  BY <1>11 DEF SpaceBackward, SpaceForward, TurnAround
<1> QED BY <1>1, <1>2, <1>3, <1>4, <1>5, <1>6, <1>7, <1>8, <1>9, <1>10, <1>11 DEF Step

\* Only IncRefFor and the start of Free change the references held.
LEMMA StepRefs ==
    ASSUME NEW t \in Thread, Step(t)
    PROVE  UNCHANGED refs \/ IncRefCAS(t)
<1>1. CASE Return(t) \/ FindRootLoad(t) \/ FindRootNext(t) \/ FindRootReload(t) \/ FindRootSplit(t)
  BY <1>1 DEF Return, FindRootLoad, FindRootNext, FindRootReload, FindRootSplit
<1>2. CASE DoFuseAddRefs(t) \/ DoFuseReparent(t) \/ FixupRefsLoad(t) \/ FixupRefsCAS(t)
  BY <1>2 DEF DoFuseAddRefs, DoFuseReparent, FixupRefsLoad, FixupRefsCAS
<1>3. CASE LinkForwardStart(t) \/ LinkForwardWalk(t) \/ LinkForwardCAS(t)
  BY <1>3 DEF LinkForwardStart, LinkForwardWalk, LinkForwardCAS
<1>4. CASE UpdateTailChild(t) \/ UpdateTailParent(t) \/ UpdateTailCAS(t) \/ LinkBackward(t)
  BY <1>4 DEF UpdateTailChild, UpdateTailParent, UpdateTailCAS, LinkBackward
<1>5. CASE FreeLoad(t) \/ FreeCAS(t) \/ DoFree(t) \/ SpaceBackward(t) \/ SpaceForward(t)
  BY <1>5 DEF FreeLoad, FreeCAS, DoFree, SpaceBackward, SpaceForward
<1> QED BY <1>1, <1>2, <1>3, <1>4, <1>5 DEF Step

LEMMA StepHolds ==
    ASSUME OrderInv, HoldInv, NEW t \in Thread, Step(t)
    PROVE  HoldInv'
<1>0. refs \in [Arena -> Nat] /\ OthersSame(t)
  BY StepOthers DEF OrderInv, TypeOK
<1>1. \A a \in Arena : refs[a] > 0 => refs'[a] > 0
  <2>1. CASE UNCHANGED refs
    BY <2>1
  <2>2. CASE IncRefCAS(t)
    <3>1. UNCHANGED refs \/ \E a : refs' = [refs EXCEPT ![a] = @ + 1]
      BY <2>2 DEF IncRefCAS
    <3> QED BY <1>0, <3>1
  <2> QED BY <2>1, <2>2, StepRefs
<1>2. ASSUME NEW u \in Thread PROVE Holds(refs', pc'[u], call'[u])
  <2>1. Holds(refs, pc[u], call[u])
    BY DEF HoldInv
  <2>2. \/ pc'[u] = "idle"
        \/ /\ pc[u] # "idle" \/ pc'[u] = pc[u]
           /\ call'[u].op = call[u].op /\ call'[u].a = call[u].a /\ call'[u].b = call[u].b
    BY <1>0, StepCall DEF OthersSame
  <2> QED BY <1>1, <2>1, <2>2 DEF Holds
<1> QED BY <1>2 DEF HoldInv

LEMMA StartHolds ==
    ASSUME OrderInv, HoldInv, NEW t \in Thread, Start(t)
    PROVE  HoldInv'
<1>0. refs \in [Arena -> Nat] /\ OthersSame(t) /\ call \in [Thread -> CallFrame] /\ pc \in [Thread -> Label]
  BY StartOthers DEF OrderInv, TypeOK
<1>1. ASSUME Holds(refs', pc'[t], call'[t]),
             \A u \in Thread \ {t} : pc[u] # "idle" /\ call[u].op # "free" =>
                \A a \in {call[u].a, call[u].b} \cap Arena : refs[a] > 0 => refs'[a] > 0
      PROVE  HoldInv'
  <2>1. ASSUME NEW u \in Thread, u # t PROVE Holds(refs', pc'[u], call'[u])
    <3>1. Holds(refs, pc[u], call[u])
      BY DEF HoldInv
    <3>2. pc'[u] = pc[u] /\ call'[u] = call[u]
      BY <1>0, <2>1 DEF OthersSame
    <3> QED BY <1>1, <2>1, <3>1, <3>2 DEF Holds
  <2> QED BY <1>1, <2>1 DEF HoldInv
<1>2. ASSUME NEW p \in Pairs, StartFuse(t, p[1], p[2]) \/ StartIsFused(t, p[1], p[2])
      PROVE  HoldInv'
  <2>1. p[1] \in Arena /\ p[2] \in Arena
    BY OpsAssumption
  <2>2. /\ UNCHANGED refs /\ refs[p[1]] > 0 /\ refs[p[2]] > 0
        /\ call'[t].a = p[1] /\ call'[t].b = p[2] /\ call'[t].op \in {"fuse", "isfused"}
    BY <1>0, <1>2 DEF StartFuse, StartIsFused, CallOf
  <2> QED BY <1>1, <2>1, <2>2 DEF Holds
<1>3. ASSUME NEW a \in Arena, StartIncRef(t, a) \/ StartSpaceAllocated(t, a)
      PROVE  HoldInv'
  <2>1. /\ UNCHANGED refs /\ refs[a] > 0
        /\ call'[t].a = a /\ call'[t].op \in {"incref", "space"}
    BY <1>0, <1>3 DEF StartIncRef, StartSpaceAllocated, CallOf
  <2> QED BY <1>1, <2>1 DEF Holds
<1>4. ASSUME NEW a \in Arena, StartFree(t, a)
      PROVE  HoldInv'
  <2>1. /\ refs' = [refs EXCEPT ![a] = @ - 1] /\ call'[t].op = "free"
        /\ refs[a] > 1 \/ (refs[a] = 1 /\ ~InUse(a))
    BY <1>0, <1>4 DEF StartFree, CallOf
  <2>2. ASSUME NEW u \in Thread \ {t}, pc[u] # "idle", call[u].op # "free", NEW b \in {call[u].a, call[u].b} \cap Arena,
               refs[b] > 0
        PROVE  refs'[b] > 0
    <3>1. b = a => InUse(a)
      BY <2>2 DEF InUse
    <3> QED BY <1>0, <2>1, <2>2, <3>1
  <2>3. Holds(refs', pc'[t], call'[t])
    BY <2>1 DEF Holds
  <2> QED BY <1>1, <2>2, <2>3
<1> QED BY <1>2, <1>3, <1>4 DEF Start

LEMMA NextHolds == OrderInv /\ HoldInv /\ Next => HoldInv'
BY StartHolds, StepHolds DEF Next

----------------------------------------------------------------------------
(***************************************************************************)
(* The invariant of reference counts.  A thread's excess references are in *)
(* the groups of the arenas it fuses, and it knows their number; what it   *)
(* has read of counts is positive; the count of a group that is not freed  *)
(* is its balance.                                                         *)
(***************************************************************************)
Debts(R, l, c, w) ==
    \A a \in Arena : w[a] # 0 => /\ l \notin {"idle", "return"} /\ c.op = "fuse"
                                 /\ R[a] = R[c.a] \/ R[a] = R[c.b]
Delta(l, g, d, w) ==
    /\ l # "reparent" => d = Total(w, Arena)
    /\ l = "reparent" => d + g.r2.count = Total(w, Arena) /\ g.r2.count <= w[g.r1.root]
CountsRead(l, f, g, d) ==
    /\ FindingFor(l, f, {"r2"}) \/ l \in {"add_refs", "reparent"} => g.r1.count >= 1
    /\ l \in {"add_refs", "reparent"} => g.r2.count >= 1
    /\ l \in {"incref_cas", "free_cas"} => f.poc.val >= 1
    /\ l = "free_cas" => f.poc.val # 1
    /\ l = "fixup_cas" => f.poc.val > d
TallyOK(t) ==
    /\ Debts(Root, pc[t], call[t], owed[t])
    /\ Delta(pc[t], fuse[t], ref_delta[t], owed[t])
    /\ CountsRead(pc[t], find[t], fuse[t], ref_delta[t])

CountsPositive == \A a \in Arena : IsTaggedRefcount(parent_or_count[a]) => parent_or_count[a].val >= 1
Conserved ==
    \A r \in Arena \ freed : IsTaggedRefcount(parent_or_count[r]) =>
                                 parent_or_count[r].val = Balance(Group(r))
CountInv == OwedNat /\ CountsPositive /\ Conserved /\ \A t \in Thread : TallyOK(t)

(***************************************************************************)
(* The invariant of freeing.  A group is freed from its root on, along its *)
(* list, by one thread, when its count said that this thread gives up the  *)
(* last reference.                                                         *)
(***************************************************************************)
FreedOK ==
    \A x \in freed : /\ Root[x] \in freed
                     /\ \A b \in Arena : Root[b] = Root[x] => refs[b] = 0
FreedPredecessor == \A x \in freed : Root[x] = x \/ \E p \in freed : next[p] = x
FreeingOK(t) ==
    LET ai == find[t].ai
        r == Root[call[t].a]
    IN  /\ pc[t] \in {"free_load", "free_cas"} => r \notin freed
        /\ pc[t] = "do_free" =>
              /\ ai \notin freed /\ Root[ai] = r
              /\ r \in freed \/ (ai = r /\ parent_or_count[r] = TaggedFromRefcount(1))
              /\ ai = r \/ \E p \in freed : next[p] = ai
OneFrees ==
    \A t, u \in Thread : (/\ pc[t] = "do_free" /\ pc[u] = "do_free"
                          /\ Root[call[t].a] = Root[call[u].a]) => t = u
FreedInv == FreedOK /\ FreedPredecessor /\ OneFrees /\ \A t \in Thread : FreeingOK(t)

RefInv == CountInv /\ FreedInv

\* A root whose group nobody has begun to free.
Live(r) == /\ \A x \in freed : Root[x] # r
           /\ \A u \in Thread : pc[u] = "do_free" => Root[call[u].a] # r

----------------------------------------------------------------------------
(***************************************************************************)
(* What the invariant says about a state.                                  *)
(***************************************************************************)
LEMMA FreerFacts ==
    ASSUME OrderInv, GroupInv, NEW t \in Thread, pc[t] \in Freeing
    PROVE  /\ call[t].op = "free" /\ call[t].a \in Arena /\ find[t].ai \in Arena
           /\ Root[call[t].a] \in Arena
           /\ pc[t] # "do_free" => Root[find[t].ai] = Root[call[t].a]
<1>1. WalkOrdered(t) /\ CountInGroup(Root, pc[t], call[t], find[t])
  BY DEF OrderInv, GroupInv, ThreadInGroups, InGroups
<1>2. call[t].op = "free" /\ call[t].a \in Arena /\ find[t].ai \in Arena
  BY <1>1 DEF WalkOrdered, CountInGroup, Freeing
<1>3. Root[call[t].a] \in Arena
  BY <1>2, RootsNow
<1>4. pc[t] # "do_free" => Root[find[t].ai] = Root[call[t].a]
  BY <1>1 DEF CountInGroup, Freeing
<1> QED BY <1>2, <1>3, <1>4

\* The count of a group that is not freed is at least what one member and any
\* thread in it account for.
LEMMA CountOf ==
    ASSUME OrderInv, CountInv, NEW r \in Arena \ freed, Root[r] = r
    PROVE  /\ IsTaggedRefcount(parent_or_count[r])
           /\ parent_or_count[r].val = Balance(Group(r))
           /\ parent_or_count[r].val \in Nat
           /\ \A a \in Arena : Root[a] = r =>
                refs[a] + Cardinality(ReleasingIn(Group(r))) <= parent_or_count[r].val
           /\ \A a \in Arena, t \in Thread : Root[a] = r =>
                refs[a] + Total(owed[t], Group(r)) <= parent_or_count[r].val
<1>1. IsTaggedRefcount(parent_or_count[r]) /\ parent_or_count[r].val = Balance(Group(r))
  BY RootsNow DEF CountInv, Conserved
<1> PICK G : G = Group(r)
  OBVIOUS
<1>2. G \in SUBSET Arena /\ OwedNat
  BY DEF Group, CountInv
<1>3. /\ Total(refs, G) \in Nat /\ \A a \in G : refs[a] <= Total(refs, G)
      /\ Cardinality(ReleasingIn(G)) \in Nat
      /\ Total(OwedBy(G), Thread) \in Nat
      /\ \A t \in Thread : OwedBy(G)[t] \in Nat /\ OwedBy(G)[t] = Total(owed[t], G)
      /\ \A t \in Thread : Total(owed[t], G) <= Total(OwedBy(G), Thread)
      /\ Balance(G) \in Nat
  BY <1>2, BalanceParts
<1>4. Balance(G) = Total(refs, G) + Cardinality(ReleasingIn(G)) + Total(OwedBy(G), Thread)
  BY DEF Balance
<1>5. \A a \in Arena : refs[a] \in Nat
  BY DEF OrderInv, TypeOK
<1>6. \A a \in Arena : Root[a] = r => a \in G
  BY DEF Group
<1>7. ASSUME NEW a \in Arena, Root[a] = r
      PROVE  refs[a] + Cardinality(ReleasingIn(G)) <= Balance(G)
  <2>1. refs[a] <= Total(refs, G)
    BY <1>3, <1>6, <1>7
  <2> QED BY <1>3, <1>4, <1>5, <2>1
<1>8. ASSUME NEW a \in Arena, NEW t \in Thread, Root[a] = r
      PROVE  refs[a] + Total(owed[t], G) <= Balance(G)
  <2>1. refs[a] <= Total(refs, G) /\ Total(owed[t], G) <= Total(OwedBy(G), Thread)
    BY <1>3, <1>6, <1>8
  <2>2. Total(owed[t], G) \in Nat
    BY <1>3
  <2> QED BY <1>3, <1>4, <1>5, <2>1, <2>2
<1> QED BY <1>1, <1>3, <1>7, <1>8

\* Threads that release references on a group are counted.
LEMMA ReleasersCount ==
    ASSUME NEW G, NEW t \in Thread, pc[t] \in Freeing, call[t].a \in G
    PROVE  /\ Cardinality(ReleasingIn(G)) \in Nat /\ Cardinality(ReleasingIn(G)) >= 1
           /\ \A u \in Thread : /\ u # t /\ pc[u] \in Freeing /\ call[u].a \in G
                                => Cardinality(ReleasingIn(G)) >= 2
<1>1. IsFiniteSet(ReleasingIn(G)) /\ t \in ReleasingIn(G)
  BY FiniteArenas DEF ReleasingIn
<1>2. IsFiniteSet(ReleasingIn(G) \ {t}) /\ Cardinality(ReleasingIn(G) \ {t}) = Cardinality(ReleasingIn(G)) - 1
  BY <1>1, FS_RemoveElement
<1>3. Cardinality(ReleasingIn(G)) \in Nat /\ Cardinality(ReleasingIn(G) \ {t}) \in Nat
  BY <1>1, <1>2, FS_CardinalityType
<1>4. ASSUME NEW u \in Thread, u # t, pc[u] \in Freeing, call[u].a \in G
      PROVE  Cardinality(ReleasingIn(G)) >= 2
  <2>1. u \in ReleasingIn(G) \ {t}
    BY <1>4 DEF ReleasingIn
  <2>2. Cardinality(ReleasingIn(G) \ {t}) # 0
    BY <1>2, <2>1, FS_EmptySet
  <2> QED BY <1>2, <1>3, <2>2
<1> QED BY <1>2, <1>3, <1>4

\* A thread that frees a group is alone with it: nobody else holds, or is giving
\* up, a reference.
LEMMA FreerAlone ==
    ASSUME OrderInv, GroupInv, RefInv, NEW t \in Thread, pc[t] = "do_free"
    PROVE  /\ \A b \in Arena : Root[b] = Root[call[t].a] => refs[b] = 0
           /\ \A u \in Thread : /\ pc[u] \in Freeing /\ Root[call[u].a] = Root[call[t].a]
                                => u = t
<1> PICK r, ai : r = Root[call[t].a] /\ ai = find[t].ai
  OBVIOUS
<1>1. pc[t] \in Freeing /\ call[t].a \in Arena /\ ai \in Arena /\ r \in Arena /\ Root[r] = r
  BY FreerFacts, RootsNow DEF Freeing
<1>2. r \in freed \/ (ai = r /\ ai \notin freed /\ parent_or_count[r] = TaggedFromRefcount(1))
  BY DEF RefInv, FreedInv, FreeingOK
<1>3. CASE r \in freed
  <2>1. \A b \in Arena : Root[b] = r => refs[b] = 0
    BY <1>1, <1>3 DEF RefInv, FreedInv, FreedOK
  <2>2. ASSUME NEW u \in Thread, pc[u] \in Freeing, Root[call[u].a] = r PROVE u = t
    <3>1. pc[u] \notin {"free_load", "free_cas"}
      BY <1>3, <2>2 DEF RefInv, FreedInv, FreeingOK
    <3>2. pc[u] = "do_free"
      BY <2>2, <3>1 DEF Freeing
    <3> QED BY <2>2, <3>2 DEF RefInv, FreedInv, OneFrees
  <2> QED BY <2>1, <2>2
<1>4. CASE r \notin freed
  <2>1. parent_or_count[r].val = 1
    BY <1>2, <1>4 DEF TaggedFromRefcount
  <2>2. \A a \in Arena : Root[a] = r => refs[a] + Cardinality(ReleasingIn(Group(r))) <= 1
    BY <1>1, <1>4, <2>1, CountOf DEF RefInv
  <2>3. call[t].a \in Group(r)
    BY <1>1 DEF Group
  <2>4. Cardinality(ReleasingIn(Group(r))) \in Nat /\ Cardinality(ReleasingIn(Group(r))) >= 1
    BY <1>1, <2>3, ReleasersCount
  <2>5. ASSUME NEW b \in Arena, Root[b] = r PROVE refs[b] = 0
    <3>1. refs[b] \in Nat
      BY DEF OrderInv, TypeOK
    <3> QED BY <2>2, <2>4, <2>5, <3>1
  <2>6. ASSUME NEW u \in Thread, pc[u] \in Freeing, Root[call[u].a] = r, u # t PROVE FALSE
    <3>1. call[u].a \in Group(r)
      BY <1>1, <2>6, FreerFacts DEF Group
    <3>2. Cardinality(ReleasingIn(Group(r))) >= 2
      BY <1>1, <2>3, <2>6, <3>1, ReleasersCount
    <3>3. refs[r] \in Nat /\ refs[r] + Cardinality(ReleasingIn(Group(r))) <= 1
      BY <1>1, <2>2 DEF OrderInv, TypeOK
    <3> QED BY <2>4, <3>2, <3>3
  <2> QED BY <2>5, <2>6
<1> QED BY <1>3, <1>4

\* A group with a reference is live; so is one on which a reference is being
\* given up, until the thread that does it sees that it is the last.
LEMMA ReferencedLive ==
    ASSUME OrderInv, GroupInv, RefInv, NEW a \in Arena, refs[a] > 0
    PROVE  Live(Root[a]) /\ Root[a] \notin freed
<1>1. refs[a] # 0
  OBVIOUS
<1>2. \A x \in freed : Root[x] # Root[a]
  BY <1>1 DEF RefInv, FreedInv, FreedOK
<1>3. \A u \in Thread : pc[u] = "do_free" => Root[call[u].a] # Root[a]
  BY <1>1, FreerAlone
<1>4. Root[a] \in Arena /\ Root[Root[a]] = Root[a]
  BY RootsNow
<1> QED BY <1>2, <1>3, <1>4 DEF Live

LEMMA ReleasedLive ==
    ASSUME OrderInv, GroupInv, RefInv, NEW t \in Thread, pc[t] \in {"free_load", "free_cas"}
    PROVE  Live(Root[call[t].a]) /\ Root[call[t].a] \notin freed
<1>1. Root[call[t].a] \notin freed /\ pc[t] \in Freeing
  BY DEF RefInv, FreedInv, FreeingOK, Freeing
<1>2. \A x \in freed : Root[x] # Root[call[t].a]
  BY <1>1 DEF RefInv, FreedInv, FreedOK
<1>3. \A u \in Thread : pc[u] = "do_free" => Root[call[u].a] # Root[call[t].a]
  BY <1>1, FreerAlone
<1> QED BY <1>1, <1>2, <1>3 DEF Live

\* A root without freed members is live or about to be freed.
LEMMA LiveNotFreed ==
    ASSUME OrderInv, NEW r \in Arena, Root[r] = r, Live(r)
    PROVE  r \notin freed
BY DEF Live

----------------------------------------------------------------------------
(***************************************************************************)
(* How the parts of the invariant are kept.                                *)
(***************************************************************************)
TallyOthers(t) == \A u \in Thread \ {t} : owed'[u] = owed[u] /\ ref_delta'[u] = ref_delta[u]

\* What other threads know about their tallies stays true.
LEMMA TallyStays ==
    ASSUME OrderInv, HoldInv, NEW u \in Thread, TallyOK(u), RootsJoin,
           pc'[u] = pc[u], call'[u] = call[u], find'[u] = find[u], fuse'[u] = fuse[u],
           owed'[u] = owed[u], ref_delta'[u] = ref_delta[u]
    PROVE  TallyOK(u)'
<1>0. PICK l, c, w : l = pc[u] /\ c = call[u] /\ w = owed[u]
  OBVIOUS
<1>1. Debts(Root, l, c, w) /\ Holds(refs, l, c)
  BY <1>0 DEF TallyOK, HoldInv
<1>2. Debts(Root', l, c, w)
  <2> SUFFICES ASSUME NEW a \in Arena, w[a] # 0
               PROVE  /\ l \notin {"idle", "return"} /\ c.op = "fuse"
                      /\ Root'[a] = Root'[c.a] \/ Root'[a] = Root'[c.b]
    BY DEF Debts
  <2>1. /\ l \notin {"idle", "return"} /\ c.op = "fuse"
        /\ Root[a] = Root[c.a] \/ Root[a] = Root[c.b]
    BY <1>1 DEF Debts
  <2>2. c.a \in Arena /\ c.b \in Arena
    BY <1>1, <2>1 DEF Holds
  <2> QED BY <2>1, <2>2 DEF RootsJoin
<1>3. /\ Debts(Root', pc'[u], call'[u], owed'[u])
      /\ Delta(pc'[u], fuse'[u], ref_delta'[u], owed'[u])
      /\ CountsRead(pc'[u], find'[u], fuse'[u], ref_delta'[u])
  BY <1>0, <1>2 DEF TallyOK
<1> QED BY <1>3 DEF TallyOK

LEMMA CountsFromParts ==
    ASSUME OrderInv, HoldInv, CountInv, NEW t \in Thread, OthersSame(t), RootsJoin, TallyOthers(t),
           OwedNat', CountsPositive', Conserved', TallyOK(t)'
    PROVE  CountInv'
<1>1. ASSUME NEW u \in Thread PROVE TallyOK(u)'
  <2>1. CASE u = t
    BY <2>1
  <2>2. CASE u # t
    <3>1. TallyOK(u)
      BY DEF CountInv
    <3> QED BY <2>2, <3>1, TallyStays DEF OthersSame, TallyOthers
  <2> QED BY <2>1, <2>2
<1> QED BY <1>1 DEF CountInv

\* While the groups stay, each count has to follow its balance.
LEMMA ConservedStep ==
    ASSUME OrderInv, OrderStep, CountInv, freed \subseteq freed', Root' = Root,
           \A r \in Arena \ freed', G \in SUBSET Arena :
               IsTaggedRefcount(parent_or_count[r]) /\ G = Group(r) =>
                   (parent_or_count[r].val = Balance(G) => parent_or_count'[r].val = Balance(G)')
    PROVE  Conserved'
<1> SUFFICES ASSUME NEW r \in Arena \ freed', IsTaggedRefcount(parent_or_count'[r])
             PROVE  parent_or_count'[r].val = Balance(Group(r))'
  BY DEF Conserved
<1>1. IsTaggedRefcount(parent_or_count[r])
  <2>1. parent_or_count[r] \in Word /\ parent_or_count'[r] \in Word
    BY DEF OrderInv, OrderStep, TypeOK
  <2> QED BY <2>1, WordCases DEF OrderStep, NonRootsStay
<1>2. PICK G : G = Group(r)
  OBVIOUS
<1>3. G \in SUBSET Arena /\ Group(r)' = G
  BY <1>2 DEF Group
<1>4. parent_or_count[r].val = Balance(G)
  BY <1>1, <1>2 DEF CountInv, Conserved
<1>5. parent_or_count'[r].val = Balance(G)'
  BY <1>1, <1>2, <1>3, <1>4
<1>6. Balance(Group(r))' = Balance(G)'
  BY <1>3 DEF Balance, ReleasingIn, OwedBy
<1> QED BY <1>5, <1>6

----------------------------------------------------------------------------
\* A step leaves the groups alone that are being freed.
DeadSame ==
    \A a \in Arena :
        /\ Live(Root[a]) => Live(Root'[a]) /\ Root'[a] \notin freed
        /\ ~Live(Root[a]) => /\ Root'[a] = Root[a] /\ refs'[a] = refs[a]
                             /\ parent_or_count'[Root[a]] = parent_or_count[Root[a]]

\* What it then leaves true, whatever it does to live groups.
LEMMA FreedStay ==
    ASSUME OrderInv, GroupInv, FreedInv, NEW t \in Thread, OthersSame(t), UNCHANGED freed,
           LinksStay, DeadSame, pc'[t] # "do_free",
           pc'[t] \in {"free_load", "free_cas"} => Root'[call'[t].a] \notin freed
    PROVE  FreedInv'
<1>1. \A x \in freed : x \in Arena /\ ~Live(Root[x])
  BY DEF Live, OrderInv, TypeOK
<1>2. \A x \in freed : Root'[x] = Root[x]
  BY <1>1 DEF DeadSame
<1>3. \A p \in freed, x \in Arena : next[p] = x => next'[p] = x
  BY <1>1, ArenaNat DEF LinksStay
<1>4. FreedOK'
  <2> SUFFICES ASSUME NEW x \in freed
               PROVE  Root'[x] \in freed /\ \A b \in Arena : Root'[b] = Root'[x] => refs'[b] = 0
    BY DEF FreedOK
  <2>1. ~Live(Root[x]) /\ Root'[x] = Root[x] /\ Root[x] \in freed
    BY <1>1, <1>2 DEF FreedInv, FreedOK
  <2>2. ASSUME NEW b \in Arena, Root'[b] = Root[x] PROVE refs'[b] = 0
    <3>1. ~Live(Root'[b])
      BY <2>1, <2>2
    <3>2. ~Live(Root[b])
      BY <3>1 DEF DeadSame
    <3>3. Root[b] = Root[x] /\ refs'[b] = refs[b]
      BY <2>2, <3>2 DEF DeadSame
    <3> QED BY <3>3 DEF FreedInv, FreedOK
  <2> QED BY <2>1, <2>2
<1>5. FreedPredecessor'
  BY <1>1, <1>2, <1>3 DEF FreedInv, FreedPredecessor
<1>6. ASSUME NEW u \in Thread, pc[u] = "do_free"
      PROVE  /\ call[u].a \in Arena /\ find[u].ai \in Arena
             /\ Root'[call[u].a] = Root[call[u].a]
             /\ parent_or_count'[Root[call[u].a]] = parent_or_count[Root[call[u].a]]
             /\ Root[find[u].ai] = Root[call[u].a] => Root'[find[u].ai] = Root[call[u].a]
  <2>1. call[u].a \in Arena /\ find[u].ai \in Arena
    BY <1>6, FreerFacts DEF Freeing
  <2>2. ~Live(Root[call[u].a])
    BY <1>6 DEF Live
  <2> QED BY <2>1, <2>2 DEF DeadSame
<1>7. \A u \in Thread : pc'[u] = "do_free" => /\ u # t /\ pc[u] = "do_free"
                                              /\ call'[u] = call[u] /\ find'[u] = find[u]
  BY DEF OthersSame
<1>8. OneFrees'
  <2> SUFFICES ASSUME NEW u \in Thread, NEW v \in Thread, pc'[u] = "do_free", pc'[v] = "do_free",
                      Root'[call'[u].a] = Root'[call'[v].a]
               PROVE  u = v
    BY DEF OneFrees
  <2>1. Root[call[u].a] = Root[call[v].a] /\ pc[u] = "do_free" /\ pc[v] = "do_free"
    BY <1>6, <1>7
  <2> QED BY <2>1 DEF FreedInv, OneFrees
<1>9. ASSUME NEW u \in Thread PROVE FreeingOK(u)'
  <2>1. ASSUME pc'[u] \in {"free_load", "free_cas"} PROVE Root'[call'[u].a] \notin freed
    <3>1. CASE u = t
      BY <2>1, <3>1
    <3>2. CASE u # t
      <4>1. pc[u] \in {"free_load", "free_cas"} /\ call'[u] = call[u]
        BY <2>1, <3>2 DEF OthersSame
      <4>2. call[u].a \in Arena /\ Root[call[u].a] \notin freed
        BY <4>1, FreerFacts DEF Freeing, FreedInv, FreeingOK
      <4> QED BY <4>1, <4>2 DEF DeadSame
    <3> QED BY <3>1, <3>2
  <2>2. ASSUME pc'[u] = "do_free"
        PROVE  /\ find'[u].ai \notin freed /\ Root'[find'[u].ai] = Root'[call'[u].a]
               /\ \/ Root'[call'[u].a] \in freed
                  \/ /\ find'[u].ai = Root'[call'[u].a]
                     /\ parent_or_count'[Root'[call'[u].a]] = TaggedFromRefcount(1)
               /\ find'[u].ai = Root'[call'[u].a] \/ \E p \in freed : next'[p] = find'[u].ai
    <3>1. pc[u] = "do_free" /\ call'[u] = call[u] /\ find'[u] = find[u]
      BY <1>7, <2>2
    <3> PICK r, ai : r = Root[call[u].a] /\ ai = find[u].ai
      OBVIOUS
    <3>2. /\ ai \notin freed /\ Root[ai] = r
          /\ r \in freed \/ (ai = r /\ parent_or_count[r] = TaggedFromRefcount(1))
          /\ ai = r \/ \E p \in freed : next[p] = ai
      BY <3>1 DEF FreedInv, FreeingOK
    <3>3. /\ ai \in Arena /\ Root'[call[u].a] = r /\ Root'[ai] = r
          /\ parent_or_count'[r] = parent_or_count[r]
      BY <1>6, <3>1, <3>2
    <3> QED BY <1>3, <3>1, <3>2, <3>3
  <2> QED BY <2>1, <2>2 DEF FreeingOK
<1> QED BY <1>4, <1>5, <1>8, <1>9 DEF FreedInv

----------------------------------------------------------------------------
(***************************************************************************)
(* What is known of a step of thread t before its own effect on references *)
(* is looked at.                                                           *)
(***************************************************************************)
Between(t) ==
    /\ OrderInv /\ GroupInv /\ HoldInv /\ RefInv
    /\ OrderStep /\ RootsJoin /\ LinksStay /\ OthersSame(t)

LEMMA RefsFromParts ==
    ASSUME NEW t \in Thread, Between(t), TallyOthers(t), UNCHANGED freed, DeadSame,
           OwedNat', CountsPositive', Conserved', TallyOK(t)', pc'[t] # "do_free",
           pc'[t] \in {"free_load", "free_cas"} => Root'[call'[t].a] \notin freed
    PROVE  RefInv'
<1>0. OrderInv /\ GroupInv /\ HoldInv /\ RootsJoin /\ LinksStay /\ OthersSame(t)
  BY DEF Between
<1>00. CountInv /\ FreedInv
  BY DEF Between, RefInv
<1>1. CountInv'
  BY <1>0, <1>00, CountsFromParts
<1>2. FreedInv'
  BY <1>0, <1>00, FreedStay
<1> QED BY <1>1, <1>2 DEF RefInv

LEMMA DeadFromSameRoots ==
    ASSUME OrderInv, Root' = Root,
           \A a \in Arena : ~Live(Root[a]) =>
               refs'[a] = refs[a] /\ parent_or_count'[Root[a]] = parent_or_count[Root[a]]
    PROVE  DeadSame
<1>1. \A a \in Arena : Root[a] \in Arena /\ Root[Root[a]] = Root[a]
  BY RootsNow
<1>2. \A a \in Arena : Live(Root[a]) => Root[a] \notin freed
  BY <1>1, LiveNotFreed
<1> QED BY <1>2 DEF DeadSame

\* A step that changes no count: only what its thread knows has to be shown.
SameCounts ==
    \A a \in Arena : (\/ IsTaggedRefcount(parent_or_count[a])
                      \/ IsTaggedRefcount(parent_or_count'[a])) =>
                         parent_or_count'[a] = parent_or_count[a]

LEMMA QuietDead ==
    ASSUME OrderInv, Root' = Root, SameCounts, UNCHANGED refs
    PROVE  DeadSame
<1>1. \A a \in Arena : Root[a] \in Arena /\ IsTaggedRefcount(parent_or_count[Root[a]])
  BY RootsNow
<1>2. \A a \in Arena : parent_or_count'[Root[a]] = parent_or_count[Root[a]]
  BY <1>1 DEF SameCounts
<1> QED BY <1>2, DeadFromSameRoots

LEMMA QuietRefs ==
    ASSUME NEW t \in Thread, Between(t), TallyOthers(t), Root' = Root, SameCounts,
           UNCHANGED <<freed, refs, owed>>, pc[t] \notin Freeing, pc'[t] \notin Freeing, TallyOK(t)'
    PROVE  RefInv'
<1>0. OrderInv /\ OrderStep /\ OthersSame(t) /\ CountInv
  BY DEF Between, RefInv
<1>1. OwedNat' /\ CountsPositive'
  BY <1>0 DEF CountInv, OwedNat, CountsPositive, SameCounts
<1>2. SameReleasing
  BY <1>0 DEF SameReleasing, OthersSame
<1>3. Conserved'
  <2>1. ASSUME NEW r \in Arena \ freed', NEW G \in SUBSET Arena,
               IsTaggedRefcount(parent_or_count[r]), G = Group(r),
               parent_or_count[r].val = Balance(G)
        PROVE  parent_or_count'[r].val = Balance(G)'
    <3>1. Balance(G)' = Balance(G)
      BY <1>2, BalanceSame
    <3>2. parent_or_count'[r] = parent_or_count[r]
      BY <2>1 DEF SameCounts
    <3> QED BY <2>1, <3>1, <3>2
  <2> QED BY <1>0, <2>1, ConservedStep
<1>4. DeadSame
  BY <1>0, QuietDead
<1> QED BY <1>1, <1>3, <1>4, RefsFromParts DEF Freeing

----------------------------------------------------------------------------
(***************************************************************************)
(* Steps that change no count.                                             *)
(***************************************************************************)
\* Only Fuse owes references, and only until it returns; if its ref_delta is
\* zero it owes none.
LEMMA NothingOwed ==
    ASSUME OrderInv, CountInv, NEW t \in Thread,
           \/ pc[t] \in {"idle", "return"} \/ call[t].op # "fuse"
           \/ pc[t] # "reparent" /\ ref_delta[t] = 0
    PROVE  \A a \in Arena : owed[t][a] = 0
<1>1. Debts(Root, pc[t], call[t], owed[t]) /\ Delta(pc[t], fuse[t], ref_delta[t], owed[t])
  BY DEF CountInv, TallyOK
<1>2. \A a \in Arena : owed[t][a] \in Nat
  BY DEF CountInv, OwedNat
<1>3. CASE pc[t] \in {"idle", "return"} \/ call[t].op # "fuse"
  BY <1>1, <1>3 DEF Debts
<1>4. CASE pc[t] # "reparent" /\ ref_delta[t] = 0
  <2>1. Total(owed[t], Arena) = 0
    BY <1>1, <1>4 DEF Delta
  <2>2. \A a \in Arena : owed[t][a] <= Total(owed[t], Arena)
    BY <1>2, TotalNat, FiniteArenas
  <2> QED BY <1>2, <2>1, <2>2
<1> QED BY <1>3, <1>4

\* Places where no count is kept.
LEMMA Unread ==
    ASSUME NEW l, NEW f, NEW g, NEW d,
           l \notin {"add_refs", "reparent", "incref_cas", "free_cas", "fixup_cas"},
           ~FindingFor(l, f, {"r2"})
    PROVE  CountsRead(l, f, g, d)
BY DEF CountsRead

KeepsCall(t) == call'[t].op = call[t].op /\ call'[t].a = call[t].a /\ call'[t].b = call[t].b

LEMMA TallyMoves ==
    ASSUME OrderInv, CountInv, NEW t \in Thread, Root' = Root,
           pc[t] # "reparent", pc'[t] # "reparent",
           owed'[t] = owed[t], ref_delta'[t] = ref_delta[t],
           CountsRead(pc'[t], find'[t], fuse'[t], ref_delta[t]),
           \/ \A a \in Arena : owed[t][a] = 0
           \/ pc'[t] \notin {"idle", "return"} /\ KeepsCall(t)
    PROVE  TallyOK(t)'
<1>0. PICK w, d, l, g, R : w = owed[t] /\ d = ref_delta[t] /\ l = pc'[t] /\ g = fuse'[t] /\ R = Root
  OBVIOUS
<1>1. Debts(R, pc[t], call[t], w) /\ d = Total(w, Arena)
  BY <1>0 DEF CountInv, TallyOK, Delta
<1>2. Debts(R, l, call'[t], w)
  BY <1>0, <1>1 DEF Debts, KeepsCall
<1>3. Delta(l, g, d, w)
  BY <1>0, <1>1 DEF Delta
<1>4. /\ Debts(Root', pc'[t], call'[t], owed'[t])
      /\ Delta(pc'[t], fuse'[t], ref_delta'[t], owed'[t])
      /\ CountsRead(pc'[t], find'[t], fuse'[t], ref_delta'[t])
  BY <1>0, <1>2, <1>3
<1> QED BY <1>4 DEF TallyOK

LEMMA QuietMove ==
    ASSUME NEW t \in Thread, Between(t), Start(t) \/ Step(t), Root' = Root, SameCounts,
           UNCHANGED <<freed, refs, owed, ref_delta>>,
           pc[t] \notin Freeing \cup {"reparent"}, pc'[t] \notin Freeing \cup {"reparent"},
           CountsRead(pc'[t], find'[t], fuse'[t], ref_delta[t]),
           \/ pc[t] \in {"idle", "return"} \/ call[t].op # "fuse" \/ ref_delta[t] = 0
           \/ pc'[t] \notin {"idle", "return"}
    PROVE  RefInv'
<1>0. OrderInv /\ CountInv
  BY DEF Between, RefInv
<1>1. TallyOthers(t)
  BY DEF TallyOthers
<1>2. \/ \A a \in Arena : owed[t][a] = 0
      \/ pc'[t] \notin {"idle", "return"} /\ KeepsCall(t)
  <2>1. CASE pc[t] \in {"idle", "return"} \/ call[t].op # "fuse" \/ ref_delta[t] = 0
    BY <1>0, <2>1, NothingOwed
  <2>2. CASE pc[t] \notin {"idle", "return"} /\ pc'[t] \notin {"idle", "return"}
    <3>1. Step(t)
      BY <2>2 DEF Start, StartFuse, StartIsFused, StartIncRef, StartFree, StartSpaceAllocated, At
    <3> QED BY <1>0, <2>2, <3>1, StepCall DEF KeepsCall
  <2> QED BY <2>1, <2>2
<1>3. TallyOK(t)'
  BY <1>0, <1>2, TallyMoves
<1> QED BY <1>1, <1>3, QuietRefs

LEMMA QuietCall ==
    ASSUME NEW t \in Thread, Between(t), Start(t) \/ Step(t),
           UNCHANGED <<parent_or_count, freed, refs, owed, ref_delta>>,
           pc[t] \notin Freeing \cup {"reparent"}, pc'[t] \notin Freeing \cup {"reparent"},
           CountsRead(pc'[t], find'[t], fuse'[t], ref_delta[t]),
           \/ pc[t] \in {"idle", "return"} \/ call[t].op # "fuse" \/ ref_delta[t] = 0
           \/ pc'[t] \notin {"idle", "return"}
    PROVE  RefInv'
<1>1. Root' = Root /\ SameCounts
  BY RootsSame DEF SameCounts
<1> QED BY <1>1, QuietMove

LEMMA StartRefs ==
    ASSUME NEW t \in Thread, Between(t), Start(t), \A a \in Arena : ~StartFree(t, a)
    PROVE  RefInv'
<1>0. pc \in [Thread -> Label] /\ find \in [Thread -> FindFrame]
  BY DEF Between, OrderInv, TypeOK
<1>1. /\ pc[t] = "idle" /\ pc'[t] \in {"return", "find_load", "space_backward"}
      /\ UNCHANGED <<parent_or_count, freed, refs, owed, ref_delta>>
      /\ pc'[t] = "find_load" => find'[t].ret \in {"r1", "ra", "incref"}
  <2>1. ASSUME NEW a, NEW b, StartFuse(t, a, b) PROVE <1>1!:
    BY <1>0, <2>1 DEF StartFuse, CallFindRoot, FindFrom, Goto, At, memory
  <2>2. ASSUME NEW a, NEW b, StartIsFused(t, a, b) PROVE <1>1!:
    BY <1>0, <2>2 DEF StartIsFused, CallFindRoot, FindFrom, Goto, At, memory
  <2>3. ASSUME NEW a, StartIncRef(t, a) PROVE <1>1!:
    BY <1>0, <2>3 DEF StartIncRef, CallFindRoot, FindFrom, Goto, At, memory
  <2>4. ASSUME NEW a, StartSpaceAllocated(t, a) PROVE <1>1!:
    BY <1>0, <2>4 DEF StartSpaceAllocated, Goto, At, memory
  <2> QED BY <2>1, <2>2, <2>3, <2>4 DEF Start
<1>2. pc[t] \notin Freeing \cup {"reparent"} /\ pc'[t] \notin Freeing \cup {"reparent"}
  BY <1>1 DEF Freeing
<1>3. CountsRead(pc'[t], find'[t], fuse'[t], ref_delta[t])
  <2>1. ~FindingFor(pc'[t], find'[t], {"r2"})
    BY <1>1 DEF FindingFor, Finding
  <2> QED BY <1>1, <2>1, Unread
<1> QED BY <1>1, <1>2, <1>3, QuietCall

LEMMA ReturnRefs ==
    ASSUME NEW t \in Thread, Between(t), Return(t)
    PROVE  RefInv'
<1>1. /\ pc[t] = "return" /\ pc'[t] = "idle" /\ Step(t)
      /\ UNCHANGED <<parent_or_count, freed, refs, owed, ref_delta>>
  BY DEF Between, OrderInv, TypeOK, Return, Goto, At, memory, Step
<1>2. CountsRead(pc'[t], find'[t], fuse'[t], ref_delta[t])
  <2>1. ~FindingFor(pc'[t], find'[t], {"r2"})
    BY <1>1 DEF FindingFor, Finding
  <2> QED BY <1>1, <2>1, Unread
<1> QED BY <1>1, <1>2, QuietCall DEF Freeing

LEMMA SpaceRefs ==
    ASSUME NEW t \in Thread, Between(t), SpaceBackward(t) \/ SpaceForward(t)
    PROVE  RefInv'
<1>1. /\ pc[t] \in {"space_backward", "space_forward"} /\ Step(t)
      /\ pc'[t] \in {"space_backward", "space_forward", "return"}
      /\ UNCHANGED <<parent_or_count, freed, refs, owed, ref_delta>>
  BY DEF Between, OrderInv, TypeOK, SpaceBackward, SpaceForward, TurnAround, WalkTo, Finish,
         Goto, At, memory, Step
<1>2. call[t].op # "fuse"
  BY <1>1, CounterFacts DEF Between
<1>3. CountsRead(pc'[t], find'[t], fuse'[t], ref_delta[t])
  <2>1. ~FindingFor(pc'[t], find'[t], {"r2"})
    BY <1>1 DEF FindingFor, Finding
  <2> QED BY <1>1, <2>1, Unread
<1> QED BY <1>1, <1>2, <1>3, QuietCall DEF Freeing

\* _upb_Arena_FindRoot hands a positive count to its caller.
LEMMA FindRootReturnsRefs ==
    ASSUME NEW t \in Thread, Between(t), Step(t), pc[t] \in Finding, NEW root, NEW word,
           word.val >= 1, FindRootReturns(t, root, word),
           UNCHANGED <<parent_or_count, freed, refs, owed, ref_delta>>
    PROVE  RefInv'
<1> DEFINE r == [root |-> root, count |-> word.val]
<1>0. r.count >= 1
  OBVIOUS
<1> HIDE DEF r
<1>1. /\ pc \in [Thread -> Label] /\ call \in [Thread -> CallFrame] /\ find \in [Thread -> FindFrame]
      /\ fuse \in [Thread -> FuseFrame] /\ OrderInv /\ GroupInv /\ CountInv
  BY DEF Between, RefInv, OrderInv, TypeOK
<1>2. pc[t] \notin Freeing \cup {"reparent"}
  BY DEF Finding, Freeing
<1>3. ASSUME pc'[t] \in {"find_load", "fixup_load", "return"},
             pc'[t] = "find_load" => find'[t].ret \in {"ra", "rb", "tmp"},
             pc'[t] = "return" => call[t].op # "fuse"
      PROVE  RefInv'
  <2>1. CountsRead(pc'[t], find'[t], fuse'[t], ref_delta[t])
    <3>1. ~FindingFor(pc'[t], find'[t], {"r2"})
      BY <1>3 DEF FindingFor, Finding
    <3> QED BY <1>3, <3>1, Unread
  <2>2. pc'[t] \notin Freeing \cup {"reparent"} /\ (call[t].op # "fuse" \/ pc'[t] \notin {"idle", "return"})
    BY <1>3 DEF Freeing
  <2> QED BY <1>2, <2>1, <2>2, QuietCall
<1>4. CASE GotFirstRoot(t, r)
  <2>1. /\ pc'[t] = "find_load" /\ find'[t].ret = "r2" /\ fuse'[t].r1 = r
    BY <1>1, <1>4 DEF GotFirstRoot, CallFindRoot, Goto, FindFrom, FuseFrame
  <2>2. CountsRead(pc'[t], find'[t], fuse'[t], ref_delta[t])
    BY <1>0, <2>1 DEF CountsRead
  <2> QED BY <1>2, <2>1, <2>2, QuietCall DEF Freeing
<1>5. CASE find[t].ret = "r2" /\ GotSecondRoot(t, r)
  <2>1. CASE pc'[t] = "fixup_load"
    BY <1>3, <2>1
  <2>2. CASE pc'[t] # "fixup_load"
    <3>1. fuse[t].r1.count >= 1
      BY <1>1, <1>5 DEF CountInv, TallyOK, CountsRead, FindingFor
    <3>2. pc'[t] = "add_refs" /\ {fuse'[t].r1, fuse'[t].r2} = {fuse[t].r1, r}
      BY <1>1, <1>5, <2>2 DEF GotSecondRoot, Goto, LowerFirst
    <3>3. fuse'[t].r1.count >= 1 /\ fuse'[t].r2.count >= 1
      BY <1>0, <3>1, <3>2
    <3>4. CountsRead(pc'[t], find'[t], fuse'[t], ref_delta[t])
      BY <3>2, <3>3 DEF CountsRead
    <3> QED BY <1>2, <3>2, <3>4, QuietCall DEF Freeing
  <2> QED BY <2>1, <2>2
<1>6. CASE GotRa(t, r)
  <2>1. pc'[t] = "find_load" /\ find'[t].ret = "rb"
    BY <1>1, <1>6 DEF GotRa, CallFindRoot, Goto, FindFrom
  <2> QED BY <1>3, <2>1
<1>7. CASE find[t].ret \in {"rb", "tmp"} /\ (GotRb(t, r) \/ GotTmp(t, r))
  <2>1. pc'[t] \in {"find_load", "return"} /\ (pc'[t] = "find_load" => find'[t].ret \in {"rb", "tmp"})
    BY <1>1, <1>7 DEF GotRb, GotTmp, CallFindRoot, Finish, Goto, FindFrom
  <2>2. call[t].op = "isfused"
    BY <1>1, <1>7, FinderFacts
  <2> QED BY <1>3, <2>1, <2>2
<1>8. CASE GotIncRefRoot(t, r)
  <2>1. pc'[t] = "incref_cas" /\ find'[t].poc = TaggedFromRefcount(r.count)
    BY <1>1, <1>8 DEF GotIncRefRoot, Goto, FindFrame
  <2>2. CountsRead(pc'[t], find'[t], fuse'[t], ref_delta[t])
    <3>1. find'[t].poc.val >= 1
      BY <1>0, <2>1 DEF TaggedFromRefcount
    <3> QED BY <2>1, <3>1 DEF CountsRead, FindingFor, Finding
  <2> QED BY <1>2, <2>1, <2>2, QuietCall DEF Freeing
<1> QED BY <1>4, <1>5, <1>6, <1>7, <1>8 DEF FindRootReturns, r

\* The walk goes on.
LEMMA FinderKeepsCount ==
    ASSUME NEW t \in Thread, Between(t), pc[t] \in Finding, pc'[t] \in Finding,
           find'[t].ret = find[t].ret, UNCHANGED fuse
    PROVE  CountsRead(pc'[t], find'[t], fuse'[t], ref_delta[t])
<1>1. CountsRead(pc[t], find[t], fuse[t], ref_delta[t])
  BY DEF Between, RefInv, CountInv, TallyOK
<1>2. find[t].ret = "r2" => fuse[t].r1.count >= 1
  BY <1>1 DEF CountsRead, FindingFor
<1>3. pc'[t] \notin {"add_refs", "reparent", "incref_cas", "free_cas", "fixup_cas"}
  BY DEF Finding
<1> QED BY <1>2, <1>3 DEF CountsRead, FindingFor

LEMMA FindRootRefs ==
    ASSUME NEW t \in Thread, Between(t),
           FindRootLoad(t) \/ FindRootReload(t) \/ FindRootNext(t) \/ FindRootSplit(t)
    PROVE  RefInv'
<1>0. /\ pc \in [Thread -> Label] /\ find \in [Thread -> FindFrame] /\ OrderInv /\ GroupInv
      /\ parent_or_count \in [Arena -> Word] /\ OrderStep /\ CountsPositive
  BY DEF Between, RefInv, CountInv, OrderInv, TypeOK
<1>1. pc[t] \in Finding /\ Step(t) /\ UNCHANGED <<freed, refs, owed, ref_delta>>
  BY DEF FindRootLoad, FindRootReload, FindRootNext, FindRootSplit, At, Finding, memory, Step
<1>2. ASSUME NEW root \in Arena, IsTaggedRefcount(parent_or_count[root]),
             FindRootReturns(t, root, parent_or_count[root]), UNCHANGED parent_or_count
      PROVE  RefInv'
  <2>1. parent_or_count[root].val >= 1
    BY <1>0, <1>2 DEF CountsPositive
  <2> QED BY <1>1, <1>2, <2>1, FindRootReturnsRefs
<1>3. ASSUME pc'[t] \in Finding, find'[t].ret = find[t].ret, UNCHANGED fuse, Root' = Root, SameCounts
      PROVE  RefInv'
  <2>1. CountsRead(pc'[t], find'[t], fuse'[t], ref_delta[t])
    BY <1>1, <1>3, FinderKeepsCount
  <2>2. /\ pc[t] \notin Freeing \cup {"reparent"} /\ pc'[t] \notin Freeing \cup {"reparent"}
        /\ pc'[t] \notin {"idle", "return"}
    BY <1>1, <1>3 DEF Freeing, Finding
  <2> QED BY <1>1, <1>3, <2>1, <2>2, QuietMove
<1>4. UNCHANGED parent_or_count => Root' = Root /\ SameCounts
  BY RootsSame DEF SameCounts
<1>5. CASE FindRootLoad(t)
  <2>1. UNCHANGED parent_or_count /\ find[t].ai \in Arena
    BY <1>0, <1>1, <1>5 DEF FindRootLoad, memory, OrderInv, WalkOrdered
  <2>2. CASE pc'[t] = "find_reload" /\ UNCHANGED <<call, find, fuse>>
    BY <1>3, <1>4, <2>1, <2>2 DEF Finding
  <2>3. CASE /\ IsTaggedRefcount(parent_or_count[find[t].ai])
             /\ FindRootReturns(t, find[t].ai, parent_or_count[find[t].ai])
    BY <1>2, <2>1, <2>3
  <2> QED BY <1>0, <1>5, <2>2, <2>3 DEF FindRootLoad, Goto
<1>6. CASE FindRootReload(t)
  <2>1. /\ UNCHANGED <<parent_or_count, fuse>> /\ pc'[t] = "find_next"
        /\ find'[t].ret = find[t].ret
    BY <1>0, <1>6 DEF FindRootReload, memory, Goto, FindFrame
  <2> QED BY <1>3, <1>4, <2>1 DEF Finding
<1>7. CASE FindRootNext(t)
  <2>1. UNCHANGED parent_or_count /\ find[t].poc.val \in Arena
    <3>1. pc[t] = "find_next" /\ find[t].poc \in Word /\ IsTaggedPointer(find[t].poc)
      BY <1>0, <1>7 DEF FindRootNext, At, OrderInv, WalkOrdered, FindFrame
    <3> QED BY <1>7, <3>1, WordCases DEF FindRootNext, memory
  <2>2. CASE /\ find' = [find EXCEPT ![t].up = find[t].poc.val, ![t].poc = parent_or_count[find[t].poc.val]]
             /\ Goto(t, "find_split") /\ UNCHANGED fuse
    <3>1. pc'[t] = "find_split" /\ find'[t].ret = find[t].ret
      BY <1>0, <2>2 DEF Goto, FindFrame
    <3> QED BY <1>3, <1>4, <2>1, <2>2, <3>1 DEF Finding
  <2>3. CASE /\ IsTaggedRefcount(parent_or_count[find[t].poc.val])
             /\ FindRootReturns(t, find[t].poc.val, parent_or_count[find[t].poc.val])
    BY <1>2, <2>1, <2>3
  <2> QED BY <1>7, <2>2, <2>3 DEF FindRootNext
<1>8. CASE FindRootSplit(t)
  <2>1. PICK f : f = find[t]
    OBVIOUS
  <2>2. /\ Root' = Root /\ f.ai \in Arena
        /\ parent_or_count' = [parent_or_count EXCEPT ![f.ai] = f.poc]
        /\ IsTaggedPointer(parent_or_count[f.ai]) /\ IsTaggedPointer(f.poc) /\ f.poc \in Word
    BY <1>0, <1>8, <2>1, SplitKeepsRoots
  <2>3. SameCounts
    <3>1. ~IsTaggedRefcount(parent_or_count[f.ai]) /\ ~IsTaggedRefcount(f.poc)
      BY <1>0, <2>2, WordCases
    <3> QED BY <1>0, <2>2, <3>1 DEF SameCounts
  <2>4. pc'[t] = "find_next" /\ find'[t].ret = find[t].ret /\ UNCHANGED fuse
    BY <1>0, <1>8 DEF FindRootSplit, Goto, FindFrame
  <2> QED BY <1>3, <2>2, <2>3, <2>4 DEF Finding
<1> QED BY <1>5, <1>6, <1>7, <1>8

----------------------------------------------------------------------------
(***************************************************************************)
(* upb_Arena_Fuse.                                                         *)
(***************************************************************************)
LEMMA RetryFrames ==
    ASSUME NEW t \in Thread, Between(t), Retry(t)
    PROVE  /\ pc'[t] = "find_load" /\ call'[t] = call[t]
           /\ CountsRead(pc'[t], find'[t], fuse'[t], ref_delta'[t])
           /\ CountsRead(pc'[t], find'[t], fuse'[t], ref_delta[t])
<1>1. pc'[t] = "find_load" /\ call'[t] = call[t] /\ find'[t].ret = "r1"
  BY DEF Retry, CallFindRoot, FindFrom, Goto, Between, OrderInv, TypeOK
<1>2. ~FindingFor(pc'[t], find'[t], {"r2"})
  BY <1>1 DEF FindingFor
<1> QED BY <1>1, <1>2, Unread

LEMMA RetryRefs ==
    ASSUME NEW t \in Thread, Between(t), Step(t), Retry(t),
           pc[t] \notin Freeing \cup {"reparent"},
           UNCHANGED <<parent_or_count, freed, refs, owed, ref_delta>>
    PROVE  RefInv'
<1>1. pc'[t] = "find_load" /\ CountsRead(pc'[t], find'[t], fuse'[t], ref_delta[t])
  BY RetryFrames
<1> QED BY <1>1, QuietCall DEF Freeing

LEMMA LinkRefs ==
    ASSUME NEW t \in Thread, Between(t),
           \/ LinkForwardStart(t) \/ LinkForwardWalk(t) \/ LinkForwardCAS(t)
           \/ UpdateTailChild(t) \/ UpdateTailParent(t) \/ UpdateTailCAS(t) \/ LinkBackward(t)
    PROVE  RefInv'
<1>0. pc \in [Thread -> Label]
  BY DEF Between, OrderInv, TypeOK
<1>1. /\ pc[t] \in Linking /\ pc'[t] \in Linking \cup {"fixup_load"} /\ Step(t)
      /\ UNCHANGED <<parent_or_count, freed, refs, owed, ref_delta>>
  <2> USE DEF At, Goto, memory, Linking
  <2>1. CASE LinkForwardStart(t) \/ LinkForwardWalk(t) \/ LinkForwardCAS(t)
    BY <1>0, <2>1 DEF LinkForwardStart, LinkForwardWalk, LinkForwardCAS, Step
  <2>2. CASE UpdateTailChild(t) \/ UpdateTailParent(t) \/ UpdateTailCAS(t) \/ LinkBackward(t)
    BY <1>0, <2>2 DEF UpdateTailChild, UpdateTailParent, UpdateTailCAS, LinkBackward, Step
  <2> QED BY <2>1, <2>2
<1>2. /\ pc[t] \notin Freeing \cup {"reparent"} /\ pc'[t] \notin Freeing \cup {"reparent"}
      /\ pc'[t] \notin {"idle", "return"} /\ pc'[t] \notin Finding
      /\ pc'[t] \notin {"add_refs", "reparent", "incref_cas", "free_cas", "fixup_cas"}
  BY <1>1 DEF Linking, Freeing, Finding
<1>3. CountsRead(pc'[t], find'[t], fuse'[t], ref_delta[t])
  BY <1>2, Unread DEF FindingFor
<1> QED BY <1>1, <1>2, <1>3, QuietCall

\* The second compare-exchange fails: the references added in vain are noted.
LEMMA ReparentFails ==
    ASSUME NEW t \in Thread, Between(t), DoFuseReparent(t),
           ref_delta' = [ref_delta EXCEPT ![t] = @ + fuse[t].r2.count],
           Retry(t), UNCHANGED <<parent_or_count, owed>>
    PROVE  RefInv'
<1>0. pc[t] = "reparent" /\ UNCHANGED <<freed, refs>> /\ ref_delta \in [Thread -> Int]
  BY DEF DoFuseReparent, At, Between, OrderInv, TypeOK
<1>1. /\ pc'[t] = "find_load" /\ call'[t] = call[t]
      /\ CountsRead(pc'[t], find'[t], fuse'[t], ref_delta'[t])
  BY RetryFrames
<1>2. Debts(Root, pc[t], call[t], owed[t]) /\ ref_delta[t] + fuse[t].r2.count = Total(owed[t], Arena)
  BY <1>0 DEF Between, RefInv, CountInv, TallyOK, Delta
<1>3. TallyOthers(t) /\ ref_delta'[t] = Total(owed[t], Arena)
  BY <1>0, <1>2 DEF TallyOthers
<1>4. Root' = Root /\ SameCounts
  BY RootsSame DEF SameCounts
<1> PICK R, c, w : R = Root /\ c = call[t] /\ w = owed[t]
  OBVIOUS
<1>5. Debts(R, "find_load", c, w)
  BY <1>2 DEF Debts
<1>6. Debts(Root', pc'[t], call'[t], owed'[t])
  BY <1>1, <1>4, <1>5
<1>7. Delta(pc'[t], fuse'[t], ref_delta'[t], owed'[t])
  BY <1>1, <1>3 DEF Delta
<1>8. TallyOK(t)'
  BY <1>1, <1>6, <1>7 DEF TallyOK
<1> QED BY <1>0, <1>1, <1>3, <1>4, <1>8, QuietRefs DEF Freeing

\* FixupRefs removes no more than what is there besides the caller's own
\* reference: what it owes is all in the group of the root it has found.
LEMMA FixupOwed ==
    ASSUME OrderInv, GroupInv, HoldInv, RefInv, NEW t \in Thread,
           pc[t] \in {"fixup_load", "fixup_cas"}, NEW r, r = fuse[t].r1.root,
           IsTaggedRefcount(parent_or_count[r])
    PROVE  /\ r \in Arena /\ r \notin freed /\ Root[r] = r /\ Live(r)
           /\ Total(owed[t], Group(r)) = ref_delta[t]
           /\ parent_or_count[r].val > ref_delta[t]
<1> PICK c, w : c = call[t] /\ w = owed[t]
  OBVIOUS
<1>1. c.op = "fuse" /\ c.a \in Arena /\ c.b \in Arena /\ r \in Arena /\ Root[c.a] = Root[r] /\ Root[c.b] = Root[r]
  BY FuserFacts DEF FusingAt
<1>2. Root[r] = r
  BY <1>1, RootsNow
<1>3. refs[c.a] > 0 /\ refs[c.a] \in Nat
  BY <1>1 DEF HoldInv, Holds, OrderInv, TypeOK
<1>4. Live(r) /\ r \notin freed
  BY <1>1, <1>2, <1>3, ReferencedLive
<1>5. Debts(Root, pc[t], c, w) /\ ref_delta[t] = Total(w, Arena)
  BY DEF RefInv, CountInv, TallyOK, Delta
<1>6. \A a \in Arena : w[a] # 0 => Root[a] = r
  BY <1>1, <1>2, <1>5 DEF Debts
<1> PICK G : G = Group(r)
  OBVIOUS
<1>7. G \in SUBSET Arena /\ \A a \in Arena \ G : w[a] = 0
  BY <1>2, <1>6 DEF Group
<1>8. w[r] \in Int /\ Weighs(w, Arena) /\ Weighs(w, G)
  BY <1>1, <1>7 DEF OrderInv, TypeOK, Weighs
<1>9. Total(w, Arena) = Total(w, G) + Total(w, Arena \ G)
  <2>1. Arena = G \cup (Arena \ G) /\ G \cap (Arena \ G) = {}
    BY <1>7
  <2>2. IsFiniteSet(G) /\ IsFiniteSet(Arena \ G)
    BY <1>7, FiniteArenas
  <2> QED BY ONLY <1>8, <2>1, <2>2, TotalUnion
<1>10. Total(w, Arena \ G) = 0 /\ Total(w, G) \in Int
  BY <1>7, <1>8, FiniteArenas, TotalZero, TotalType
<1>11. Total(w, G) = ref_delta[t]
  BY <1>5, <1>9, <1>10
<1>12. parent_or_count[r].val \in Nat /\ refs[c.a] + Total(w, G) <= parent_or_count[r].val
  BY <1>1, <1>2, <1>4, CountOf DEF RefInv
<1>13. parent_or_count[r].val > ref_delta[t]
  BY <1>3, <1>10, <1>11, <1>12
<1> QED BY <1>1, <1>2, <1>4, <1>11, <1>13

LEMMA FixupRefsLoadRefs ==
    ASSUME NEW t \in Thread, Between(t), FixupRefsLoad(t)
    PROVE  RefInv'
<1>0. /\ pc[t] = "fixup_load" /\ Step(t) /\ pc \in [Thread -> Label] /\ find \in [Thread -> FindFrame]
      /\ UNCHANGED <<parent_or_count, freed, refs, owed, ref_delta>>
  BY DEF FixupRefsLoad, At, memory, Step, Between, OrderInv, TypeOK
<1>1. pc[t] \notin Freeing \cup {"reparent"}
  BY <1>0 DEF Freeing
<1>2. CASE ref_delta[t] = 0 /\ Finish(t, "true")
  <2>1. pc'[t] = "return"
    BY <1>0, <1>2 DEF Finish, Goto
  <2>2. CountsRead(pc'[t], find'[t], fuse'[t], ref_delta[t])
    BY <2>1, Unread DEF FindingFor, Finding
  <2> QED BY <1>0, <1>1, <1>2, <2>1, <2>2, QuietCall DEF Freeing
<1>3. CASE Retry(t)
  BY <1>0, <1>1, <1>3, RetryRefs
<1>4. CASE /\ IsTaggedRefcount(parent_or_count[fuse[t].r1.root])
           /\ find' = [find EXCEPT ![t].poc = parent_or_count[fuse[t].r1.root]]
           /\ Goto(t, "fixup_cas")
  <2>1. pc'[t] = "fixup_cas" /\ find'[t].poc = parent_or_count[fuse[t].r1.root]
    BY <1>0, <1>4 DEF Goto, FindFrame
  <2>2. parent_or_count[fuse[t].r1.root].val > ref_delta[t]
    BY <1>0, <1>4, FixupOwed DEF Between
  <2>3. CountsRead(pc'[t], find'[t], fuse'[t], ref_delta[t])
    BY <2>1, <2>2 DEF CountsRead, FindingFor, Finding
  <2> QED BY <1>0, <1>1, <2>1, <2>3, QuietCall DEF Freeing
<1> QED BY <1>2, <1>3, <1>4 DEF FixupRefsLoad

----------------------------------------------------------------------------
(***************************************************************************)
(* Steps that change the count of a live root.                             *)
(***************************************************************************)
LEMMA BalanceMoves ==
    ASSUME OrderInv, OwedNat, NEW G \in SUBSET Arena, NEW x \in Int, NEW y \in Int, NEW z \in Int,
           Total(refs', G) = Total(refs, G) + x,
           Cardinality(ReleasingIn(G)') = Cardinality(ReleasingIn(G)) + y,
           Total(OwedBy(G)', Thread) = Total(OwedBy(G), Thread) + z
    PROVE  Balance(G)' = Balance(G) + (x + y + z)
<1>1. /\ Total(refs, G) \in Nat /\ Cardinality(ReleasingIn(G)) \in Nat
      /\ Total(OwedBy(G), Thread) \in Nat
  BY BalanceParts
<1>2. /\ Balance(G) = Total(refs, G) + Cardinality(ReleasingIn(G)) + Total(OwedBy(G), Thread)
      /\ Balance(G)' = Total(refs', G) + Cardinality(ReleasingIn(G)') + Total(OwedBy(G)', Thread)
  BY DEF Balance
<1> QED BY <1>1, <1>2

LEMMA InGroupOf ==
    ASSUME NEW x \in Arena, Root[x] = x, NEW a \in Arena
    PROVE  a \in Group(x) <=> Root[a] = x
BY DEF Group

LEMMA CountStep ==
    ASSUME NEW t \in Thread, Between(t), TallyOthers(t), UNCHANGED freed, OwedNat', TallyOK(t)',
           NEW r \in Arena, IsTaggedRefcount(parent_or_count[r]), Live(r), NEW n \in Nat, n >= 1,
           parent_or_count' = [parent_or_count EXCEPT ![r] = TaggedFromRefcount(n)],
           \A a \in Arena : Root[a] # r => refs'[a] = refs[a],
           \A x \in Arena, G \in SUBSET Arena : Root[x] = x /\ G = Group(x) =>
               Balance(G)' = Balance(G) + IF x = r THEN n - parent_or_count[r].val ELSE 0,
           pc'[t] \notin Freeing
    PROVE  RefInv'
<1>0. OrderInv /\ OrderStep /\ OthersSame(t) /\ CountInv /\ parent_or_count \in [Arena -> Word]
  BY DEF Between, RefInv, OrderInv, TypeOK
<1>1. Root' = Root
  <2>1. n \in Int /\ OrderInv'
    BY <1>0 DEF OrderStep
  <2> QED BY <1>0, <2>1, CountsKeepRoots
<1>2. Root[r] = r /\ parent_or_count[r].val \in Int
  BY <1>0, RootsNow, WordCases
<1>3. parent_or_count'[r].val = n /\ \A a \in Arena \ {r} : parent_or_count'[a] = parent_or_count[a]
  BY <1>0 DEF TaggedFromRefcount
<1>4. CountsPositive'
  BY <1>0, <1>3 DEF CountsPositive, CountInv
<1>5. Conserved'
  <2>1. ASSUME NEW x \in Arena \ freed', NEW G \in SUBSET Arena,
               IsTaggedRefcount(parent_or_count[x]), G = Group(x),
               parent_or_count[x].val = Balance(G)
        PROVE  parent_or_count'[x].val = Balance(G)'
    <3>1. Root[x] = x
      BY <1>0, <2>1, RootsNow
    <3>2. Balance(G)' = Balance(G) + IF x = r THEN n - parent_or_count[r].val ELSE 0
      BY <2>1, <3>1
    <3>3. parent_or_count[x].val \in Int
      BY <1>0, <2>1, WordCases
    <3>4. CASE x = r
      BY <1>2, <1>3, <2>1, <3>2, <3>4
    <3>5. CASE x # r
      BY <1>3, <2>1, <3>2, <3>3, <3>5
    <3> QED BY <3>4, <3>5
  <2> QED BY <1>0, <1>1, <2>1, ConservedStep
<1>6. DeadSame
  <2>1. \A a \in Arena : ~Live(Root[a]) =>
               refs'[a] = refs[a] /\ parent_or_count'[Root[a]] = parent_or_count[Root[a]]
    BY <1>0, <1>3, RootsNow
  <2> QED BY <1>0, <1>1, <2>1, DeadFromSameRoots
<1> QED BY <1>4, <1>5, <1>6, RefsFromParts DEF Freeing

LEMMA OthersReleasing ==
    ASSUME NEW t \in Thread, OthersSame(t), pc[t] \notin Freeing, pc'[t] \notin Freeing
    PROVE  SameReleasing
BY DEF OthersSame, SameReleasing

\* The first compare-exchange of DoFuse succeeds.
LEMMA AddRefsSucceeds ==
    ASSUME NEW t \in Thread, Between(t), DoFuseAddRefs(t), NEW g, g = fuse[t],
           parent_or_count[g.r1.root] = TaggedFromRefcount(g.r1.count),
           parent_or_count' = [parent_or_count EXCEPT
               ![g.r1.root] = TaggedFromRefcount(g.r1.count + g.r2.count)],
           owed' = [owed EXCEPT ![t][g.r1.root] = @ + g.r2.count],
           Goto(t, "reparent"), UNCHANGED <<call, find, fuse>>
    PROVE  RefInv'
<1> PICK c, r, m, k : c = call[t] /\ r = g.r1.root /\ m = g.r1.count /\ k = g.r2.count
  OBVIOUS
<1>0. /\ OrderInv /\ GroupInv /\ HoldInv /\ RefInv /\ OthersSame(t) /\ CountInv /\ OwedNat
      /\ UNCHANGED <<freed, refs, ref_delta>> /\ owed \in [Thread -> [Arena -> Int]]
      /\ pc[t] = "add_refs" /\ pc'[t] = "reparent" /\ pc[t] \in FusingAt
  BY DEF Between, RefInv, CountInv, OrderInv, TypeOK, DoFuseAddRefs, Goto, At, FusingAt
<1>1. /\ c.op = "fuse" /\ c.a \in Arena /\ c.b \in Arena /\ r \in Arena
      /\ Root[r] = Root[c.a] \/ Root[r] = Root[c.b]
  BY <1>0, FuserFacts
<1>2. m \in Int /\ k \in Int /\ m >= 1 /\ k >= 1
  <2>1. m \in Int /\ k \in Int
    BY <1>0, FusingFacts
  <2> QED BY <1>0, <2>1 DEF CountInv, TallyOK, CountsRead
<1>3. IsTaggedRefcount(parent_or_count[r]) /\ Root[r] = r /\ parent_or_count[r].val = m
  BY <1>0, <1>1, RootsNow, TagOfWord DEF TaggedFromRefcount
<1>4. Live(r)
  <2>1. refs[c.a] > 0 /\ refs[c.b] > 0
    BY <1>0, <1>1 DEF HoldInv, Holds
  <2> QED BY <1>0, <1>1, <1>3, <2>1, ReferencedLive
<1>5. owed[t][r] \in Nat /\ owed[t][r] + k \in Nat
  BY <1>0, <1>1, <1>2 DEF OwedNat
<1>6. TallyOthers(t) /\ owed'[t][r] = owed[t][r] + k /\ \A a \in Arena \ {r} : owed'[t][a] = owed[t][a]
  BY <1>0, <1>1 DEF TallyOthers
<1>7. OwedNat'
  BY <1>0, <1>5, <1>6 DEF OwedNat, TallyOthers
<1>8. PICK v : v = owed[t][r] + k
  OBVIOUS
<1>80. ASSUME NEW G \in SUBSET Arena
       PROVE  /\ Total(OwedBy(G)', Thread) = Total(OwedBy(G), Thread) + IF r \in G THEN k ELSE 0
              /\ Total(owed'[t], G) = Total(owed[t], G) + IF r \in G THEN k ELSE 0
  <2>1. t \in Thread /\ r \in Arena /\ OrderInv /\ OwedNat /\ G \in SUBSET Arena /\ v \in Int
    BY <1>0, <1>1, <1>5, <1>8
  <2>2. owed' = [owed EXCEPT ![t][r] = v]
    BY <1>8
  <2>3. /\ Total(OwedBy(G)', Thread) =
              Total(OwedBy(G), Thread) + IF r \in G THEN v - owed[t][r] ELSE 0
        /\ Total(owed'[t], G) = Total(owed[t], G) + IF r \in G THEN v - owed[t][r] ELSE 0
    BY ONLY <2>1, <2>2, OwedAtChanged
  <2>4. v - owed[t][r] = k
    BY <1>2, <1>5, <1>8
  <2> QED BY <2>3, <2>4
<1>9. TallyOK(t)'
  <2>1. Debts(Root, pc[t], c, owed[t]) /\ ref_delta[t] = Total(owed[t], Arena)
    BY <1>0 DEF CountInv, TallyOK, Delta
  <2>2. Root' = Root
    <3>1. m + k \in Int /\ OrderInv'
      BY <1>2 DEF Between, OrderStep
    <3> QED BY <1>0, <1>1, <1>3, <3>1, CountsKeepRoots
  <2>3. Debts(Root, "reparent", c, owed'[t])
    BY <1>0, <1>1, <1>6, <2>1 DEF Debts
  <2>4. Total(owed'[t], Arena) = Total(owed[t], Arena) + k
    BY <1>1, <1>80
  <2>5. ref_delta[t] \in Int
    BY <1>0 DEF OrderInv, TypeOK
  <2>6. ref_delta[t] + k = Total(owed'[t], Arena)
    BY <1>2, <2>1, <2>4, <2>5
  <2>7. k <= owed'[t][r]
    BY <1>2, <1>5, <1>6
  <2>8. Delta("reparent", g, ref_delta[t], owed'[t])
    BY <2>6, <2>7 DEF Delta
  <2>9. CountsRead("reparent", find[t], g, ref_delta[t])
    BY <1>2 DEF CountsRead, FindingFor, Finding
  <2>10. /\ Debts(Root', pc'[t], call'[t], owed'[t])
         /\ Delta(pc'[t], fuse'[t], ref_delta'[t], owed'[t])
         /\ CountsRead(pc'[t], find'[t], fuse'[t], ref_delta'[t])
    BY <1>0, <2>2, <2>3, <2>8, <2>9
  <2> QED BY <2>10 DEF TallyOK
<1>11. PICK n \in Nat : n = m + k /\ n >= 1
  BY <1>2
<1>10. ASSUME NEW x \in Arena, NEW G \in SUBSET Arena, Root[x] = x, G = Group(x)
       PROVE  Balance(G)' = Balance(G) + IF x = r THEN n - parent_or_count[r].val ELSE 0
  <2>1. Total(OwedBy(G)', Thread) = Total(OwedBy(G), Thread) + IF r \in G THEN k ELSE 0
    BY <1>80
  <2>2. r \in G <=> x = r
    BY <1>1, <1>3, <1>10, InGroupOf
  <2>3. Total(OwedBy(G)', Thread) = Total(OwedBy(G), Thread) + IF x = r THEN k ELSE 0
    BY <2>1, <2>2
  <2>4. ReleasingIn(G)' = ReleasingIn(G)
    <3>1. SameReleasing
      BY <1>0, OthersReleasing DEF Freeing
    <3> QED BY <3>1, ReleasingSame
  <2>5. Total(refs, G) \in Nat /\ Cardinality(ReleasingIn(G)) \in Nat
    BY <1>0, BalanceParts
  <2>6. /\ Total(refs', G) = Total(refs, G) + 0
        /\ Cardinality(ReleasingIn(G)') = Cardinality(ReleasingIn(G)) + 0
    BY <1>0, <2>4, <2>5
  <2>7. PICK z \in Int : z = IF x = r THEN k ELSE 0
    BY <1>2
  <2>70. /\ OrderInv /\ OwedNat /\ G \in SUBSET Arena /\ z \in Int /\ 0 \in Int
         /\ Total(OwedBy(G)', Thread) = Total(OwedBy(G), Thread) + z
    BY <1>0, <2>3, <2>7
  <2>8. Balance(G)' = Balance(G) + (0 + 0 + z)
    BY ONLY <2>6, <2>70, BalanceMoves
  <2> QED BY <1>2, <1>3, <1>11, <2>7, <2>8
<1>12. parent_or_count' = [parent_or_count EXCEPT ![r] = TaggedFromRefcount(n)]
  BY <1>11
<1>13. /\ t \in Thread /\ Between(t) /\ pc'[t] \notin Freeing /\ UNCHANGED freed /\ TallyOthers(t)
       /\ \A a \in Arena : Root[a] # r => refs'[a] = refs[a]
       /\ r \in Arena
  BY <1>0, <1>1, <1>6 DEF Freeing
<1>14. \A x \in Arena, G \in SUBSET Arena : Root[x] = x /\ G = Group(x) =>
               Balance(G)' = Balance(G) + IF x = r THEN n - parent_or_count[r].val ELSE 0
  BY <1>10
<1> QED BY ONLY <1>3, <1>4, <1>7, <1>9, <1>11, <1>12, <1>13, <1>14, CountStep

LEMMA DoFuseAddRefsRefs ==
    ASSUME NEW t \in Thread, Between(t), DoFuseAddRefs(t)
    PROVE  RefInv'
<1> PICK g : g = fuse[t]
  OBVIOUS
<1>1. CASE /\ parent_or_count[g.r1.root] = TaggedFromRefcount(g.r1.count)
           /\ parent_or_count' = [parent_or_count EXCEPT
                  ![g.r1.root] = TaggedFromRefcount(g.r1.count + g.r2.count)]
           /\ owed' = [owed EXCEPT ![t][g.r1.root] = @ + g.r2.count]
           /\ Goto(t, "reparent") /\ UNCHANGED <<call, find, fuse>>
  BY <1>1, AddRefsSucceeds
<1>2. CASE Retry(t) /\ UNCHANGED <<parent_or_count, owed>>
  <2>1. /\ pc[t] = "add_refs" /\ Step(t)
        /\ UNCHANGED <<parent_or_count, freed, refs, owed, ref_delta>>
    BY <1>2 DEF DoFuseAddRefs, At, Step
  <2> QED BY <1>2, <2>1, RetryRefs DEF Freeing
<1> QED BY <1>1, <1>2 DEF DoFuseAddRefs

\* upb_Arena_IncRefFor.
LEMMA IncRefSucceedsRefs ==
    ASSUME NEW t \in Thread, Between(t), IncRefCAS(t), NEW f, f = find[t],
           parent_or_count[f.ai] = f.poc,
           parent_or_count' = [parent_or_count EXCEPT ![f.ai] = TaggedFromRefcount(f.poc.val + 1)],
           refs' = [refs EXCEPT ![call[t].a] = @ + 1], Finish(t, "true")
    PROVE  RefInv'
<1> PICK a, r, m : a = call[t].a /\ r = f.ai /\ m = f.poc.val
  OBVIOUS
<1>0. /\ OrderInv /\ GroupInv /\ HoldInv /\ RefInv /\ OthersSame(t) /\ CountInv /\ OwedNat
      /\ UNCHANGED <<freed, ref_delta, owed>> /\ refs \in [Arena -> Nat]
      /\ pc[t] = "incref_cas" /\ pc'[t] = "return"
  BY DEF Between, RefInv, CountInv, OrderInv, TypeOK, IncRefCAS, Finish, Goto, At
<1>1. a \in Arena /\ r \in Arena /\ Root[r] = Root[a] /\ call[t].op = "incref"
  BY <1>0, CounterFacts
<1>2. m \in Int /\ m >= 1 /\ IsTaggedRefcount(parent_or_count[r]) /\ parent_or_count[r].val = m
  <2>1. m \in Int /\ IsTaggedRefcount(f.poc)
    BY <1>0, CountCASFacts
  <2>2. m >= 1
    BY <1>0 DEF CountInv, TallyOK, CountsRead
  <2> QED BY <2>1, <2>2
<1>3. Root[r] = r
  BY <1>0, <1>1, <1>2, RootsNow
<1>4. refs[a] > 0 /\ refs[a] \in Nat
  BY <1>0, <1>1 DEF HoldInv, Holds
<1>5. Live(r)
  BY <1>0, <1>1, <1>3, <1>4, ReferencedLive
<1>6. PICK n \in Nat : n = m + 1 /\ n >= 1
  BY <1>2
<1>7. parent_or_count' = [parent_or_count EXCEPT ![r] = TaggedFromRefcount(n)]
  BY <1>6
<1>8. Root' = Root
  <2>1. n \in Int /\ OrderInv'
    BY DEF Between, OrderStep
  <2> QED BY <1>0, <1>1, <1>2, <1>7, <2>1, CountsKeepRoots
<1>9. TallyOK(t)' /\ OwedNat' /\ TallyOthers(t)
  <2>1. \A x \in Arena : owed[t][x] = 0
    BY <1>0, <1>1, NothingOwed
  <2>2. CountsRead(pc'[t], find'[t], fuse'[t], ref_delta[t])
    BY <1>0, Unread DEF FindingFor, Finding
  <2>3. TallyOK(t)'
    BY <1>0, <1>8, <2>1, <2>2, TallyMoves
  <2> QED BY <1>0, <2>3 DEF OwedNat, TallyOthers
<1>10. ASSUME NEW x \in Arena, NEW G \in SUBSET Arena, Root[x] = x, G = Group(x)
       PROVE  Balance(G)' = Balance(G) + IF x = r THEN n - parent_or_count[r].val ELSE 0
  <2>1. PICK k \in Nat : k = refs[a] + 1
    BY <1>4
  <2>2. refs' = [refs EXCEPT ![a] = k]
    BY <2>1
  <2>3. OrderInv /\ OwedNat /\ G \in SUBSET Arena /\ a \in Arena /\ k \in Nat
    BY <1>0, <1>1
  <2>4. Total(refs', G) = Total(refs, G) + IF a \in G THEN k - refs[a] ELSE 0
    BY ONLY <2>2, <2>3, RefsChanged
  <2>5. a \in G <=> x = r
    BY <1>1, <1>3, <1>10, InGroupOf
  <2>6. PICK z \in Int : z = IF x = r THEN 1 ELSE 0
    OBVIOUS
  <2>7. Total(refs', G) = Total(refs, G) + z
    BY <1>4, <2>1, <2>4, <2>5, <2>6
  <2>8. ReleasingIn(G)' = ReleasingIn(G) /\ OwedBy(G)' = OwedBy(G)
    <3>1. SameReleasing
      BY <1>0, OthersReleasing DEF Freeing
    <3> QED BY <1>0, <3>1, ReleasingSame, OwedSame
  <2>9. Total(OwedBy(G), Thread) \in Nat /\ Cardinality(ReleasingIn(G)) \in Nat
    BY <2>3, BalanceParts
  <2>10. /\ Cardinality(ReleasingIn(G)') = Cardinality(ReleasingIn(G)) + 0
         /\ Total(OwedBy(G)', Thread) = Total(OwedBy(G), Thread) + 0 /\ 0 \in Int /\ z \in Int
    BY <2>8, <2>9
  <2>11. Balance(G)' = Balance(G) + (z + 0 + 0)
    BY ONLY <2>3, <2>7, <2>10, BalanceMoves
  <2> QED BY <1>2, <1>6, <2>6, <2>11
<1>11. \A x \in Arena, G \in SUBSET Arena : Root[x] = x /\ G = Group(x) =>
               Balance(G)' = Balance(G) + IF x = r THEN n - parent_or_count[r].val ELSE 0
  BY <1>10
<1>12. /\ t \in Thread /\ Between(t) /\ pc'[t] \notin Freeing /\ UNCHANGED freed
       /\ \A x \in Arena : Root[x] # r => refs'[x] = refs[x]
       /\ r \in Arena
  BY <1>0, <1>1, <1>3 DEF Freeing
<1> QED BY ONLY <1>2, <1>5, <1>6, <1>7, <1>9, <1>11, <1>12, CountStep

LEMMA IncRefCASRefs ==
    ASSUME NEW t \in Thread, Between(t), IncRefCAS(t)
    PROVE  RefInv'
<1> PICK f : f = find[t]
  OBVIOUS
<1>1. CASE /\ parent_or_count[f.ai] = f.poc
           /\ parent_or_count' = [parent_or_count EXCEPT ![f.ai] = TaggedFromRefcount(f.poc.val + 1)]
           /\ refs' = [refs EXCEPT ![call[t].a] = @ + 1] /\ Finish(t, "true")
  BY <1>1, IncRefSucceedsRefs
<1>2. CASE CallFindRoot(t, f.ai, "incref") /\ UNCHANGED <<parent_or_count, refs, call, fuse>>
  <2>1. /\ pc[t] = "incref_cas" /\ pc'[t] = "find_load" /\ find'[t].ret = "incref" /\ Step(t)
        /\ UNCHANGED <<parent_or_count, freed, refs, owed, ref_delta>>
    BY <1>2 DEF IncRefCAS, CallFindRoot, FindFrom, Goto, At, Step, Between, OrderInv, TypeOK
  <2>2. CountsRead(pc'[t], find'[t], fuse'[t], ref_delta[t])
    BY <2>1, Unread DEF FindingFor
  <2> QED BY <2>1, <2>2, QuietCall DEF Freeing
<1> QED BY <1>1, <1>2 DEF IncRefCAS

\* upb_Arena_Free drops one of several references.
LEMMA FreeCASSucceeds ==
    ASSUME NEW t \in Thread, Between(t), FreeCAS(t), NEW f, f = find[t],
           parent_or_count[f.ai] = f.poc,
           parent_or_count' = [parent_or_count EXCEPT ![f.ai] = TaggedFromRefcount(f.poc.val - 1)],
           Finish(t, "true")
    PROVE  RefInv'
<1> PICK a, r, m : a = call[t].a /\ r = f.ai /\ m = f.poc.val
  OBVIOUS
<1>0. /\ OrderInv /\ GroupInv /\ HoldInv /\ RefInv /\ OthersSame(t) /\ CountInv /\ OwedNat
      /\ UNCHANGED <<freed, refs, ref_delta, owed>> /\ refs \in [Arena -> Nat]
      /\ pc[t] = "free_cas" /\ pc'[t] = "return"
  BY DEF Between, RefInv, CountInv, OrderInv, TypeOK, FreeCAS, Finish, Goto, At
<1>1. a \in Arena /\ r \in Arena /\ Root[r] = Root[a] /\ call[t].op = "free"
  BY <1>0, CounterFacts
<1>2. m \in Int /\ m >= 1 /\ m # 1 /\ IsTaggedRefcount(parent_or_count[r]) /\ parent_or_count[r].val = m
  <2>1. m \in Int /\ IsTaggedRefcount(f.poc)
    BY <1>0, CountCASFacts
  <2>2. m >= 1 /\ m # 1
    BY <1>0 DEF CountInv, TallyOK, CountsRead
  <2> QED BY <2>1, <2>2
<1>3. Root[r] = r
  BY <1>0, <1>1, <1>2, RootsNow
<1>5. Live(r)
  BY <1>0, <1>1, <1>3, ReleasedLive
<1>6. PICK n \in Nat : n = m - 1 /\ n >= 1
  BY <1>2
<1>7. parent_or_count' = [parent_or_count EXCEPT ![r] = TaggedFromRefcount(n)]
  BY <1>6
<1>8. Root' = Root
  <2>1. n \in Int /\ OrderInv'
    BY DEF Between, OrderStep
  <2> QED BY <1>0, <1>1, <1>2, <1>7, <2>1, CountsKeepRoots
<1>9. TallyOK(t)' /\ OwedNat' /\ TallyOthers(t)
  <2>1. \A x \in Arena : owed[t][x] = 0
    BY <1>0, <1>1, NothingOwed
  <2>2. CountsRead(pc'[t], find'[t], fuse'[t], ref_delta[t])
    BY <1>0, Unread DEF FindingFor, Finding
  <2>3. TallyOK(t)'
    BY <1>0, <1>8, <2>1, <2>2, TallyMoves
  <2> QED BY <1>0, <2>3 DEF OwedNat, TallyOthers
<1>10. ASSUME NEW x \in Arena, NEW G \in SUBSET Arena, Root[x] = x, G = Group(x)
       PROVE  Balance(G)' = Balance(G) + IF x = r THEN n - parent_or_count[r].val ELSE 0
  <2>1. /\ t \in Thread /\ pc[t] \in Freeing /\ pc'[t] \notin Freeing
        /\ \A u \in Thread \ {t} : pc'[u] = pc[u] /\ call'[u] = call[u]
    BY <1>0 DEF OthersSame, Freeing
  <2>2. Cardinality(ReleasingIn(G)') = Cardinality(ReleasingIn(G)) - IF call[t].a \in G THEN 1 ELSE 0
    BY ONLY <2>1, ReleasingRemoved
  <2>3. OrderInv /\ OwedNat /\ G \in SUBSET Arena
    BY <1>0
  <2>4. Cardinality(ReleasingIn(G)) \in Nat /\ Total(refs, G) \in Nat /\ Total(OwedBy(G), Thread) \in Nat
    BY <2>3, BalanceParts
  <2>5. a \in G <=> x = r
    BY <1>1, <1>3, <1>10, InGroupOf
  <2>6. PICK z \in Int : z = IF x = r THEN -1 ELSE 0
    OBVIOUS
  <2>7. Cardinality(ReleasingIn(G)') = Cardinality(ReleasingIn(G)) + z
    BY <2>2, <2>4, <2>5, <2>6
  <2>8. /\ Total(refs', G) = Total(refs, G) + 0 /\ 0 \in Int /\ z \in Int
        /\ Total(OwedBy(G)', Thread) = Total(OwedBy(G), Thread) + 0
    BY <1>0, <2>4, OwedSame
  <2>9. Balance(G)' = Balance(G) + (0 + z + 0)
    BY ONLY <2>3, <2>7, <2>8, BalanceMoves
  <2> QED BY <1>2, <1>6, <2>6, <2>9
<1>11. \A x \in Arena, G \in SUBSET Arena : Root[x] = x /\ G = Group(x) =>
               Balance(G)' = Balance(G) + IF x = r THEN n - parent_or_count[r].val ELSE 0
  BY <1>10
<1>12. /\ t \in Thread /\ Between(t) /\ pc'[t] \notin Freeing /\ UNCHANGED freed
       /\ \A x \in Arena : Root[x] # r => refs'[x] = refs[x]
       /\ r \in Arena
  BY <1>0, <1>1, <1>3 DEF Freeing
<1> QED BY ONLY <1>2, <1>5, <1>6, <1>7, <1>9, <1>11, <1>12, CountStep

\* FixupRefs removes what its thread has added in excess.
LEMMA FixupSucceeds ==
    ASSUME NEW t \in Thread, Between(t), FixupRefsCAS(t), NEW r, r = fuse[t].r1.root,
           NEW word, word = find[t].poc, parent_or_count[r] = word,
           parent_or_count' = [parent_or_count EXCEPT ![r] = TaggedFromRefcount(word.val - ref_delta[t])],
           ref_delta' = [ref_delta EXCEPT ![t] = 0], owed' = [owed EXCEPT ![t] = NoneOwed],
           Finish(t, "true")
    PROVE  RefInv'
<1> PICK m, d : m = word.val /\ d = ref_delta[t]
  OBVIOUS
<1>0. /\ OrderInv /\ GroupInv /\ HoldInv /\ RefInv /\ OthersSame(t) /\ CountInv /\ OwedNat
      /\ UNCHANGED <<freed, refs>> /\ owed \in [Thread -> [Arena -> Int]]
      /\ ref_delta \in [Thread -> Int] /\ word \in Word /\ d \in Int
      /\ pc[t] = "fixup_cas" /\ pc'[t] = "return"
  BY DEF Between, RefInv, CountInv, OrderInv, TypeOK, FixupRefsCAS, Finish, Goto, At, FindFrame
<1>1. IsTaggedRefcount(parent_or_count[r]) /\ parent_or_count[r].val = m /\ m \in Int
  BY <1>0, WordCases DEF OrderInv, WalkOrdered
<1>2. /\ r \in Arena /\ r \notin freed /\ Root[r] = r /\ Live(r)
      /\ Total(owed[t], Group(r)) = d /\ m > d
  BY <1>0, <1>1, FixupOwed
<1>6. PICK n \in Nat : n = m - d /\ n >= 1
  BY <1>0, <1>1, <1>2
<1>7. parent_or_count' = [parent_or_count EXCEPT ![r] = TaggedFromRefcount(n)]
  BY <1>6
<1>8. /\ owed'[t] = NoneOwed /\ ref_delta'[t] = 0
      /\ \A u \in Thread \ {t} : owed'[u] = owed[u] /\ ref_delta'[u] = ref_delta[u]
  BY <1>0
<1>9. \A G \in SUBSET Arena : Total(NoneOwed, G) = 0
  BY FiniteArenas, TotalZero DEF NoneOwed
<1>10. TallyOK(t)' /\ OwedNat' /\ TallyOthers(t)
  <2>1. CountsRead(pc'[t], find'[t], fuse'[t], ref_delta'[t])
    BY <1>0, Unread DEF FindingFor, Finding
  <2>2. Debts(Root', pc'[t], call'[t], owed'[t])
    BY <1>8 DEF Debts, NoneOwed
  <2>3. Delta(pc'[t], fuse'[t], ref_delta'[t], owed'[t])
    BY <1>0, <1>8, <1>9 DEF Delta
  <2>4. OwedNat'
    BY <1>0, <1>8 DEF OwedNat, NoneOwed
  <2> QED BY <1>8, <2>1, <2>2, <2>3, <2>4 DEF TallyOK, TallyOthers
<1>11. ASSUME NEW x \in Arena, NEW G \in SUBSET Arena, Root[x] = x, G = Group(x)
       PROVE  Balance(G)' = Balance(G) + IF x = r THEN n - parent_or_count[r].val ELSE 0
  <2>1. Total(owed[t], G) = IF x = r THEN d ELSE 0
    <3>1. CASE x = r
      BY <1>2, <1>11, <3>1
    <3>2. CASE x # r
      <4>1. \A a \in Arena : owed[t][a] # 0 => Root[a] = r
        <5>1. Debts(Root, pc[t], call[t], owed[t])
          BY <1>0 DEF CountInv, TallyOK
        <5>2. Root[call[t].a] = Root[r] /\ Root[call[t].b] = Root[r]
          BY <1>0, FuserFacts DEF FusingAt
        <5> QED BY <1>2, <5>1, <5>2 DEF Debts
      <4>2. \A a \in G : owed[t][a] = 0
        BY <1>11, <3>2, <4>1 DEF Group
      <4>3. Total(owed[t], G) = 0
        BY <4>2, FiniteArenas, TotalZero
      <4> QED BY <3>2, <4>3
    <3> QED BY <3>1, <3>2
  <2>2. OrderInv /\ OwedNat /\ G \in SUBSET Arena /\ t \in Thread /\ Weighs(NoneOwed, G)
    BY <1>0 DEF Weighs, NoneOwed
  <2>3. owed' = [owed EXCEPT ![t] = NoneOwed]
    OBVIOUS
  <2>4. Total(OwedBy(G)', Thread) = Total(OwedBy(G), Thread) + Total(NoneOwed, G) - Total(owed[t], G)
    BY ONLY <2>2, <2>3, OwedChanged
  <2>5. Cardinality(ReleasingIn(G)) \in Nat /\ Total(refs, G) \in Nat /\ Total(OwedBy(G), Thread) \in Nat
    BY <2>2, BalanceParts
  <2>6. PICK z \in Int : z = IF x = r THEN -d ELSE 0
    BY <1>0
  <2>7. Total(OwedBy(G)', Thread) = Total(OwedBy(G), Thread) + z
    BY <1>0, <1>9, <2>1, <2>4, <2>5, <2>6
  <2>8. ReleasingIn(G)' = ReleasingIn(G)
    <3>1. SameReleasing
      BY <1>0, OthersReleasing DEF Freeing
    <3> QED BY <3>1, ReleasingSame
  <2>9. /\ Total(refs', G) = Total(refs, G) + 0 /\ 0 \in Int /\ z \in Int
        /\ Cardinality(ReleasingIn(G)') = Cardinality(ReleasingIn(G)) + 0
    BY <1>0, <2>5, <2>8
  <2>10. Balance(G)' = Balance(G) + (0 + 0 + z)
    BY ONLY <2>2, <2>7, <2>9, BalanceMoves
  <2> QED BY <1>0, <1>1, <1>6, <2>6, <2>10
<1>12. \A x \in Arena, G \in SUBSET Arena : Root[x] = x /\ G = Group(x) =>
               Balance(G)' = Balance(G) + IF x = r THEN n - parent_or_count[r].val ELSE 0
  BY <1>11
<1>13. /\ t \in Thread /\ Between(t) /\ pc'[t] \notin Freeing /\ UNCHANGED freed
       /\ \A x \in Arena : Root[x] # r => refs'[x] = refs[x]
  BY <1>0 DEF Freeing
<1> QED BY ONLY <1>1, <1>2, <1>6, <1>7, <1>10, <1>12, <1>13, CountStep

LEMMA FixupRefsCASRefs ==
    ASSUME NEW t \in Thread, Between(t), FixupRefsCAS(t)
    PROVE  RefInv'
<1> PICK r, word : r = fuse[t].r1.root /\ word = find[t].poc
  OBVIOUS
<1>1. CASE /\ parent_or_count[r] = word
           /\ parent_or_count' = [parent_or_count EXCEPT ![r] = TaggedFromRefcount(word.val - ref_delta[t])]
           /\ ref_delta' = [ref_delta EXCEPT ![t] = 0] /\ owed' = [owed EXCEPT ![t] = NoneOwed]
           /\ Finish(t, "true")
  BY <1>1, FixupSucceeds
<1>2. CASE Retry(t) /\ UNCHANGED <<parent_or_count, ref_delta, owed>>
  <2>1. /\ pc[t] = "fixup_cas" /\ Step(t)
        /\ UNCHANGED <<parent_or_count, freed, refs, owed, ref_delta>>
    BY <1>2 DEF FixupRefsCAS, At, Step
  <2> QED BY <1>2, <2>1, RetryRefs DEF Freeing
<1> QED BY <1>1, <1>2 DEF FixupRefsCAS

\* upb_Arena_Free begins: a reference held becomes one being given up.
LEMMA StartFreeRefs ==
    ASSUME NEW t \in Thread, Between(t), NEW a \in Arena, StartFree(t, a)
    PROVE  RefInv'
<1>0. /\ OrderInv /\ OrderStep /\ GroupInv /\ RefInv /\ OthersSame(t) /\ CountInv /\ OwedNat /\ CountsPositive
      /\ UNCHANGED <<parent_or_count, freed, owed, ref_delta>> /\ refs \in [Arena -> Nat]
      /\ pc[t] = "idle" /\ pc'[t] = "free_load" /\ call'[t].a = a
      /\ refs' = [refs EXCEPT ![a] = @ - 1] /\ (refs[a] > 1 \/ refs[a] = 1)
  BY DEF Between, RefInv, CountInv, OrderInv, TypeOK, StartFree, Goto, At, memory, CallOf
<1>1. Root' = Root /\ refs[a] \in Nat /\ refs[a] > 0
  BY <1>0, RootsSame
<1>2. Live(Root[a]) /\ Root[a] \notin freed
  BY <1>0, <1>1, ReferencedLive
<1>3. DeadSame
  <2>1. \A b \in Arena : ~Live(Root[b]) =>
               refs'[b] = refs[b] /\ parent_or_count'[Root[b]] = parent_or_count[Root[b]]
    BY <1>0, <1>2
  <2> QED BY <1>0, <1>1, <2>1, DeadFromSameRoots
<1>4. TallyOK(t)' /\ OwedNat' /\ TallyOthers(t)
  <2>1. \A x \in Arena : owed[t][x] = 0
    BY <1>0, NothingOwed
  <2>2. CountsRead(pc'[t], find'[t], fuse'[t], ref_delta[t])
    BY <1>0, Unread DEF FindingFor, Finding
  <2>3. TallyOK(t)'
    BY <1>0, <1>1, <2>1, <2>2, TallyMoves
  <2> QED BY <1>0, <2>3 DEF OwedNat, TallyOthers
<1>5. ASSUME NEW G \in SUBSET Arena PROVE Balance(G)' = Balance(G)
  <2>1. PICK k \in Nat : k = refs[a] - 1
    BY <1>1
  <2>2. refs' = [refs EXCEPT ![a] = k]
    BY <1>0, <2>1
  <2>3. OrderInv /\ OwedNat /\ G \in SUBSET Arena /\ a \in Arena /\ k \in Nat
    BY <1>0
  <2>4. Total(refs', G) = Total(refs, G) + IF a \in G THEN k - refs[a] ELSE 0
    BY ONLY <2>2, <2>3, RefsChanged
  <2>5. /\ t \in Thread /\ pc[t] \notin Freeing /\ pc'[t] \in Freeing
        /\ \A u \in Thread \ {t} : pc'[u] = pc[u] /\ call'[u] = call[u]
    BY <1>0 DEF OthersSame, Freeing
  <2>6. Cardinality(ReleasingIn(G)') = Cardinality(ReleasingIn(G)) + IF call'[t].a \in G THEN 1 ELSE 0
    BY ONLY <2>5, ReleasingAdded
  <2>7. /\ Cardinality(ReleasingIn(G)) \in Nat /\ Total(refs, G) \in Nat /\ Total(OwedBy(G), Thread) \in Nat
        /\ Balance(G) \in Nat
    BY <2>3, BalanceParts
  <2>8. PICK z \in Int : z = IF a \in G THEN 1 ELSE 0
    OBVIOUS
  <2>9. Total(refs', G) = Total(refs, G) + (-z) /\ Cardinality(ReleasingIn(G)') = Cardinality(ReleasingIn(G)) + z
    BY <1>0, <1>1, <2>1, <2>4, <2>6, <2>7, <2>8
  <2>10. Total(OwedBy(G)', Thread) = Total(OwedBy(G), Thread) + 0 /\ 0 \in Int /\ z \in Int /\ -z \in Int
    BY <1>0, <2>7, <2>8, OwedSame
  <2>11. Balance(G)' = Balance(G) + ((-z) + z + 0)
    BY ONLY <2>3, <2>9, <2>10, BalanceMoves
  <2> QED BY <2>7, <2>8, <2>11
<1>6. Conserved'
  <2>1. ASSUME NEW x \in Arena \ freed', NEW G \in SUBSET Arena,
               IsTaggedRefcount(parent_or_count[x]), G = Group(x),
               parent_or_count[x].val = Balance(G)
        PROVE  parent_or_count'[x].val = Balance(G)'
    BY <1>0, <1>5, <2>1
  <2> QED BY <1>0, <1>1, <2>1, ConservedStep
<1>7. CountsPositive'
  BY <1>0 DEF CountsPositive
<1>8. Root'[call'[t].a] \notin freed /\ pc'[t] # "do_free"
  BY <1>0, <1>1, <1>2
<1> QED BY <1>0, <1>3, <1>4, <1>6, <1>7, <1>8, RefsFromParts

----------------------------------------------------------------------------
(***************************************************************************)
(* The second compare-exchange of DoFuse succeeds: the group of r2 joins   *)
(* the group of r1, which has been given its references before.            *)
(***************************************************************************)
LEMMA ReparentSucceeds ==
    ASSUME NEW t \in Thread, Between(t), DoFuseReparent(t), NEW g, g = fuse[t],
           parent_or_count[g.r2.root] = TaggedFromRefcount(g.r2.count),
           parent_or_count' = [parent_or_count EXCEPT ![g.r2.root] = TaggedFromPointer(g.r1.root)],
           owed' = [owed EXCEPT ![t][g.r1.root] = @ - g.r2.count],
           Goto(t, "link_tail"), UNCHANGED <<call, find, fuse, ref_delta>>
    PROVE  RefInv'
<1> PICK c, r1, r2, k, s : /\ c = call[t] /\ r1 = g.r1.root /\ r2 = g.r2.root /\ k = g.r2.count
                           /\ s = Root[r1]
  OBVIOUS
<1>0. /\ OrderInv /\ OrderStep /\ OrderInv' /\ GroupInv /\ HoldInv /\ RefInv /\ RootsJoin
      /\ OthersSame(t) /\ CountInv /\ OwedNat /\ CountsPositive
      /\ UNCHANGED <<freed, refs>> /\ owed \in [Thread -> [Arena -> Int]]
      /\ parent_or_count \in [Arena -> Word]
      /\ pc[t] = "reparent" /\ pc'[t] = "link_tail" /\ pc[t] \in FusingAt
  BY DEF Between, OrderStep, RefInv, CountInv, OrderInv, TypeOK, DoFuseReparent, Goto, At, FusingAt
<1>1. /\ c.op = "fuse" /\ c.a \in Arena /\ c.b \in Arena
      /\ r1 \in Arena /\ r2 \in Arena /\ r1 < r2
      /\ \/ Root[r1] = Root[c.a] /\ Root[r2] = Root[c.b]
         \/ Root[r1] = Root[c.b] /\ Root[r2] = Root[c.a]
  BY <1>0, FuserFacts
<1>2. k \in Int /\ k >= 1 /\ k <= owed[t][r1] /\ ref_delta[t] + k = Total(owed[t], Arena)
  <2>1. k \in Int
    BY <1>0, FusingFacts
  <2> QED BY <1>0, <2>1 DEF CountInv, TallyOK, CountsRead, Delta
<1>3. IsTaggedRefcount(parent_or_count[r2]) /\ parent_or_count[r2].val = k
  BY TagOfWord DEF TaggedFromRefcount
<1>4. Root[r2] = r2 /\ s \in Arena /\ Root[s] = s /\ s <= r1
  BY <1>0, <1>1, <1>3, RootsNow
<1>5. s # r2
  BY <1>1, <1>4, ArenaNat
<1>6. \A a \in Arena : Root'[a] = IF Root[a] = r2 THEN s ELSE Root[a]
  <2>1. /\ OrderInv /\ OrderInv' /\ r1 \in Arena /\ r2 \in Arena /\ r1 < r2
        /\ IsTaggedRefcount(parent_or_count[r2])
    BY <1>0, <1>1, <1>3
  <2>2. parent_or_count' = [parent_or_count EXCEPT ![r2] = TaggedFromPointer(r1)]
    OBVIOUS
  <2>3. \A a \in Arena : Root'[a] = IF Root[a] = r2 THEN Root[r1] ELSE Root[a]
    BY ONLY <2>1, <2>2, ReparentJoins
  <2> QED BY <2>3
<1>7. /\ ~IsTaggedRefcount(parent_or_count'[r2])
      /\ \A a \in Arena \ {r2} : parent_or_count'[a] = parent_or_count[a]
  BY <1>0, <1>1, TagOfWord
<1>8. Live(r2) /\ r2 \notin freed /\ Live(s) /\ s \notin freed
  <2>1. refs[c.a] > 0 /\ refs[c.b] > 0
    BY <1>0, <1>1 DEF HoldInv, Holds
  <2>2. /\ Live(Root[c.a]) /\ Root[c.a] \notin freed
        /\ Live(Root[c.b]) /\ Root[c.b] \notin freed
    BY <1>0, <1>1, <2>1, ReferencedLive
  <2> QED BY <1>1, <1>4, <2>2
<1>9. DeadSame
  <2>1. ASSUME NEW a \in Arena
        PROVE  /\ Live(Root[a]) => Live(Root'[a]) /\ Root'[a] \notin freed
               /\ ~Live(Root[a]) => /\ Root'[a] = Root[a] /\ refs'[a] = refs[a]
                                    /\ parent_or_count'[Root[a]] = parent_or_count[Root[a]]
    <3>1. Root[a] \in Arena /\ Root[Root[a]] = Root[a]
      BY <1>0, RootsNow
    <3>2. Live(Root[a]) => Root[a] \notin freed
      BY <1>0, <3>1, LiveNotFreed
    <3> QED BY <1>0, <1>6, <1>7, <1>8, <3>1, <3>2
  <2> QED BY <2>1 DEF DeadSame
<1>10. PICK v : v = owed[t][r1] - k
  OBVIOUS
<1>11. v \in Nat /\ owed[t][r1] \in Nat
  BY <1>0, <1>1, <1>2, <1>10 DEF OwedNat
<1>12. /\ TallyOthers(t) /\ owed'[t][r1] = v /\ \A a \in Arena \ {r1} : owed'[t][a] = owed[t][a]
  BY <1>0, <1>1, <1>10 DEF TallyOthers
<1>13. OwedNat'
  BY <1>0, <1>11, <1>12 DEF OwedNat, TallyOthers
<1>14. ASSUME NEW G \in SUBSET Arena
       PROVE  /\ Total(OwedBy(G)', Thread) = Total(OwedBy(G), Thread) + IF r1 \in G THEN -k ELSE 0
              /\ Total(owed'[t], G) = Total(owed[t], G) + IF r1 \in G THEN -k ELSE 0
  <2>1. t \in Thread /\ r1 \in Arena /\ OrderInv /\ OwedNat /\ G \in SUBSET Arena /\ v \in Int
    BY <1>0, <1>1, <1>11
  <2>2. owed' = [owed EXCEPT ![t][r1] = v]
    BY <1>10
  <2>3. /\ Total(OwedBy(G)', Thread) =
              Total(OwedBy(G), Thread) + IF r1 \in G THEN v - owed[t][r1] ELSE 0
        /\ Total(owed'[t], G) = Total(owed[t], G) + IF r1 \in G THEN v - owed[t][r1] ELSE 0
    BY ONLY <2>1, <2>2, OwedAtChanged
  <2>4. v - owed[t][r1] = -k
    BY <1>2, <1>10, <1>11
  <2> QED BY <2>3, <2>4
<1>15. TallyOK(t)'
  <2>1. Debts(Root, pc[t], c, owed[t])
    BY <1>0 DEF CountInv, TallyOK
  <2>2. \A a \in Arena : owed'[t][a] # 0 => owed[t][a] # 0
    <3>1. owed[t][r1] # 0
      BY <1>2, <1>10, <1>11
    <3> QED BY <1>12, <3>1
  <2>3. Debts(Root', "link_tail", c, owed'[t])
    <3>1. \A a \in Arena : owed'[t][a] # 0 => Root[a] = Root[c.a] \/ Root[a] = Root[c.b]
      BY <2>1, <2>2 DEF Debts
    <3>2. \A a \in Arena : owed'[t][a] # 0 => Root'[a] = Root'[c.a] \/ Root'[a] = Root'[c.b]
      BY <1>0, <1>1, <3>1 DEF RootsJoin
    <3> QED BY <1>1, <3>2 DEF Debts
  <2>4. Total(owed'[t], Arena) = Total(owed[t], Arena) + (-k)
    BY <1>1, <1>14
  <2>5. ref_delta[t] \in Int
    BY <1>0 DEF OrderInv, TypeOK
  <2>6. ref_delta[t] = Total(owed'[t], Arena)
    BY <1>2, <2>4, <2>5
  <2>7. Delta("link_tail", g, ref_delta[t], owed'[t])
    BY <2>6 DEF Delta
  <2>8. CountsRead("link_tail", find[t], g, ref_delta[t])
    BY Unread DEF FindingFor, Finding
  <2>9. /\ Debts(Root', pc'[t], call'[t], owed'[t])
        /\ Delta(pc'[t], fuse'[t], ref_delta'[t], owed'[t])
        /\ CountsRead(pc'[t], find'[t], fuse'[t], ref_delta'[t])
    BY <1>0, <2>3, <2>7, <2>8
  <2> QED BY <2>9 DEF TallyOK
<1>16. ASSUME NEW G \in SUBSET Arena
       PROVE  Balance(G)' = Balance(G) + IF r1 \in G THEN -k ELSE 0
  <2>1. ReleasingIn(G)' = ReleasingIn(G)
    <3>1. SameReleasing
      BY <1>0, OthersReleasing DEF Freeing
    <3> QED BY <3>1, ReleasingSame
  <2>2. OrderInv /\ OwedNat /\ G \in SUBSET Arena
    BY <1>0
  <2>3. Total(refs, G) \in Nat /\ Cardinality(ReleasingIn(G)) \in Nat /\ Balance(G) \in Nat
    BY <2>2, BalanceParts
  <2>4. PICK z \in Int : z = IF r1 \in G THEN -k ELSE 0
    BY <1>2
  <2>5. /\ Total(refs', G) = Total(refs, G) + 0 /\ 0 \in Int /\ z \in Int
        /\ Cardinality(ReleasingIn(G)') = Cardinality(ReleasingIn(G)) + 0
        /\ Total(OwedBy(G)', Thread) = Total(OwedBy(G), Thread) + z
    BY <1>0, <1>14, <2>1, <2>3, <2>4
  <2>6. Balance(G)' = Balance(G) + (0 + 0 + z)
    BY ONLY <2>2, <2>5, BalanceMoves
  <2> QED BY <2>3, <2>4, <2>6
<1>17. Conserved'
  <2> SUFFICES ASSUME NEW x \in Arena \ freed, IsTaggedRefcount(parent_or_count'[x])
               PROVE  parent_or_count'[x].val = Balance(Group(x))'
    BY <1>0 DEF Conserved
  <2>1. x # r2 /\ parent_or_count'[x] = parent_or_count[x] /\ Root[x] = x /\ Root'[x] = x
    BY <1>0, <1>6, <1>7, RootsNow
  <2> PICK G, H, K : G = Group(x) /\ H = Group(r2) /\ K = Group(x)'
    OBVIOUS
  <2>2. G \in SUBSET Arena /\ H \in SUBSET Arena /\ K \in SUBSET Arena /\ G \cap H = {}
    BY <1>4, <2>1 DEF Group
  <2>3. parent_or_count[x].val = Balance(G) /\ k = Balance(H)
    BY <1>0, <1>1, <1>3, <1>8, <2>1 DEF CountInv, Conserved
  <2>4. Balance(G) \in Nat /\ Balance(H) \in Nat
    BY <1>0, <2>2, BalanceParts
  <2>5. Balance(Group(x))' = Balance(K)'
    BY DEF Balance, ReleasingIn, OwedBy
  <2>6. r1 \in G <=> x = s
    BY <1>1, <2>1 DEF Group
  <2>7. CASE x = s
    <3>1. K = G \cup H
      <4>1. K = {b \in Arena : Root'[b] = s} /\ G = {b \in Arena : Root[b] = s}
        BY <2>1, <2>7 DEF Group
      <4>2. H = {b \in Arena : Root[b] = r2}
        BY <1>4 DEF Group
      <4>3. \A b \in Arena : Root'[b] = s <=> Root[b] = s \/ Root[b] = r2
        BY <1>6
      <4> QED BY ONLY <4>1, <4>2, <4>3
    <3>2. Balance(G \cup H) = Balance(G) + Balance(H)
      BY <1>0, <2>2, BalanceUnion
    <3>3. Balance(K)' = Balance(K) + (-k)
      BY <1>16, <2>2, <2>6, <2>7, <3>1
    <3> QED BY <2>1, <2>3, <2>4, <2>5, <3>1, <3>2, <3>3
  <2>8. CASE x # s
    <3>1. K = G
      BY <1>4, <1>6, <2>1, <2>8 DEF Group
    <3>2. Balance(K)' = Balance(K) + 0
      BY <1>16, <2>2, <2>6, <2>8, <3>1
    <3> QED BY <2>1, <2>3, <2>4, <2>5, <3>1, <3>2
  <2> QED BY <2>7, <2>8
<1>18. CountsPositive'
  BY <1>0, <1>7 DEF CountsPositive
<1>19. t \in Thread /\ Between(t) /\ UNCHANGED freed /\ pc'[t] # "do_free" /\ pc'[t] \notin {"free_load", "free_cas"}
  BY <1>0
<1> QED BY ONLY <1>9, <1>12, <1>13, <1>15, <1>17, <1>18, <1>19, RefsFromParts

LEMMA DoFuseReparentRefs ==
    ASSUME NEW t \in Thread, Between(t), DoFuseReparent(t)
    PROVE  RefInv'
<1> PICK g : g = fuse[t]
  OBVIOUS
<1>1. CASE /\ parent_or_count[g.r2.root] = TaggedFromRefcount(g.r2.count)
           /\ parent_or_count' = [parent_or_count EXCEPT ![g.r2.root] = TaggedFromPointer(g.r1.root)]
           /\ owed' = [owed EXCEPT ![t][g.r1.root] = @ - g.r2.count]
           /\ Goto(t, "link_tail") /\ UNCHANGED <<call, find, fuse, ref_delta>>
  BY <1>1, ReparentSucceeds
<1>2. CASE /\ ref_delta' = [ref_delta EXCEPT ![t] = @ + g.r2.count]
           /\ Retry(t) /\ UNCHANGED <<parent_or_count, owed>>
  BY <1>2, ReparentFails
<1> QED BY <1>1, <1>2 DEF DoFuseReparent

----------------------------------------------------------------------------
(***************************************************************************)
(* Freeing.  A thread in upb_Arena_Free reads the count of its group and   *)
(* frees the group if its own reference is the last.                       *)
(***************************************************************************)
LEMMA FreeCounts ==
    ASSUME NEW t \in Thread, Between(t), UNCHANGED <<parent_or_count, refs, owed, ref_delta>>,
           freed \subseteq freed', pc[t] \in Freeing, pc'[t] \in Freeing \cup {"return"},
           call'[t].a = call[t].a, pc'[t] \in Freeing \/ Root[call[t].a] \in freed',
           CountsRead(pc'[t], find'[t], fuse'[t], ref_delta[t])
    PROVE  CountInv' /\ Root' = Root
<1>0. /\ OrderInv /\ OrderStep /\ GroupInv /\ HoldInv /\ RootsJoin /\ OthersSame(t) /\ CountInv
      /\ OwedNat /\ CountsPositive
  BY DEF Between, RefInv, CountInv
<1>1. Root' = Root /\ TallyOthers(t) /\ OwedNat' /\ CountsPositive'
  BY <1>0, RootsSame DEF TallyOthers, OwedNat, CountsPositive
<1>2. call[t].op = "free" /\ call[t].a \in Arena
  BY <1>0, FreerFacts
<1>3. TallyOK(t)'
  <2>1. \A a \in Arena : owed[t][a] = 0
    BY <1>0, <1>2, NothingOwed
  <2>2. pc[t] # "reparent" /\ pc'[t] # "reparent"
    BY DEF Freeing
  <2>3. owed'[t] = owed[t] /\ ref_delta'[t] = ref_delta[t]
    OBVIOUS
  <2> QED BY <1>0, <1>1, <2>1, <2>2, <2>3, TallyMoves
<1>4. ASSUME NEW x \in Arena \ freed', NEW G \in SUBSET Arena,
             IsTaggedRefcount(parent_or_count[x]), G = Group(x)
      PROVE  ReleasingIn(G)' = ReleasingIn(G)
  <2>1. CASE pc'[t] \in Freeing
    <3>1. SameReleasing
      BY <1>0, <2>1 DEF SameReleasing, OthersSame
    <3> QED BY <3>1, ReleasingSame
  <2>2. CASE pc'[t] \notin Freeing
    <3>1. Root[x] = x
      BY <1>0, <1>4, RootsNow
    <3>2. call[t].a \notin G
      BY <1>4, <2>2, <3>1 DEF Group
    <3>3. \A u \in Thread : (pc'[u] \in Freeing /\ call'[u].a \in G) <=> (pc[u] \in Freeing /\ call[u].a \in G)
      BY <1>0, <2>2, <3>2 DEF OthersSame
    <3> QED BY <3>3 DEF ReleasingIn
  <2> QED BY <2>1, <2>2
<1>5. Conserved'
  <2>1. ASSUME NEW x \in Arena \ freed', NEW G \in SUBSET Arena,
               IsTaggedRefcount(parent_or_count[x]), G = Group(x),
               parent_or_count[x].val = Balance(G)
        PROVE  parent_or_count'[x].val = Balance(G)'
    <3>1. ReleasingIn(G)' = ReleasingIn(G) /\ OwedBy(G)' = OwedBy(G)
      BY <1>4, <2>1, OwedSame
    <3>2. Balance(G)' = Balance(G)
      BY <3>1 DEF Balance
    <3> QED BY <2>1, <3>2
  <2> QED BY <1>0, <1>1, <2>1, ConservedStep
<1>6. CountInv'
  BY <1>0, <1>1, <1>3, <1>5, CountsFromParts
<1> QED BY <1>1, <1>6

\* The last reference is being given up: the group is this thread's to free.
LEMMA FreeBegins ==
    ASSUME NEW t \in Thread, Between(t), UNCHANGED <<parent_or_count, next, freed, refs, owed, ref_delta>>,
           pc[t] \in {"free_load", "free_cas"}, pc'[t] = "do_free",
           UNCHANGED <<call, find, fuse>>, parent_or_count[find[t].ai] = TaggedFromRefcount(1)
    PROVE  RefInv'
<1> PICK a, r : a = call[t].a /\ r = Root[a]
  OBVIOUS
<1>0. OrderInv /\ GroupInv /\ RefInv /\ FreedInv /\ OthersSame(t)
  BY DEF Between, RefInv
<1>1. a \in Arena /\ find[t].ai \in Arena /\ Root[find[t].ai] = r /\ r \notin freed
  BY <1>0, FreerFacts DEF Freeing, FreedInv, FreeingOK
<1>2. find[t].ai = r
  <2>1. IsTaggedRefcount(parent_or_count[find[t].ai])
    BY DEF IsTaggedRefcount, TaggedFromRefcount
  <2> QED BY <1>0, <1>1, <2>1, RootsNow
<1>3. CountInv' /\ Root' = Root
  <2>1. CountsRead(pc'[t], find'[t], fuse'[t], ref_delta[t])
    BY Unread DEF FindingFor, Finding
  <2> QED BY <2>1, FreeCounts DEF Freeing
<1>4. FreedOK' /\ FreedPredecessor'
  BY <1>0, <1>3 DEF FreedInv, FreedOK, FreedPredecessor
<1>5. \A u \in Thread : u # t => pc'[u] = pc[u]
  BY <1>0 DEF OthersSame
<1>6. ASSUME NEW u \in Thread, pc[u] = "do_free" PROVE Root[call[u].a] # r
  BY <1>0, <1>6, FreerAlone DEF Freeing
<1>7. OneFrees'
  <2> SUFFICES ASSUME NEW u \in Thread, NEW v \in Thread, pc'[u] = "do_free", pc'[v] = "do_free",
                      Root[call[u].a] = Root[call[v].a], u # v
               PROVE  FALSE
    BY <1>3 DEF OneFrees
  <2>1. CASE u = t
    BY <1>5, <1>6, <2>1
  <2>2. CASE v = t
    BY <1>5, <1>6, <2>2
  <2>3. CASE u # t /\ v # t
    BY <1>0, <1>5, <2>3 DEF FreedInv, OneFrees
  <2> QED BY <2>1, <2>2, <2>3
<1>8. ASSUME NEW u \in Thread PROVE FreeingOK(u)'
  <2>1. CASE u = t
    BY <1>1, <1>2, <1>3, <2>1 DEF FreeingOK
  <2>2. CASE u # t
    BY <1>0, <1>3, <1>5, <2>2 DEF FreedInv, FreeingOK
  <2> QED BY <2>1, <2>2
<1> QED BY <1>3, <1>4, <1>7, <1>8 DEF RefInv, FreedInv

LEMMA FreeWithRefs ==
    ASSUME NEW t \in Thread, Between(t), UNCHANGED <<parent_or_count, next, freed, refs, owed, ref_delta>>,
           pc[t] \in {"free_load", "free_cas"}, FreeWith(t, parent_or_count[find[t].ai])
    PROVE  RefInv'
<1> PICK word, f : word = parent_or_count[find[t].ai] /\ f = find[t]
  OBVIOUS
<1>0. /\ OrderInv /\ GroupInv /\ RefInv /\ FreedInv /\ OthersSame(t) /\ CountsPositive
      /\ pc \in [Thread -> Label] /\ find \in [Thread -> FindFrame] /\ UNCHANGED <<call, fuse>>
      /\ LinksStay
  BY DEF Between, RefInv, CountInv, OrderInv, TypeOK, FreeWith
<1>1. f.ai \in Arena /\ word \in Word /\ Root[call[t].a] \notin freed
  BY <1>0, FreerFacts DEF Freeing, FreedInv, FreeingOK, OrderInv, TypeOK
<1>2. CASE LastReference(word) /\ Goto(t, "do_free") /\ UNCHANGED find
  <2>1. pc'[t] = "do_free" /\ parent_or_count[find[t].ai] = TaggedFromRefcount(1)
    BY <1>0, <1>2 DEF Goto, LastReference
  <2> QED BY <1>0, <1>2, <2>1, FreeBegins
<1>3. CASE \/ /\ IsTaggedPointer(word)
              /\ find' = [find EXCEPT ![t].ai = word.val]
              /\ Goto(t, "free_load")
           \/ /\ IsTaggedRefcount(word) /\ ~LastReference(word)
              /\ find' = [find EXCEPT ![t].poc = word]
              /\ Goto(t, "free_cas")
  <2>1. pc'[t] \in {"free_load", "free_cas"}
    BY <1>0, <1>3 DEF Goto
  <2>2. CountsRead(pc'[t], find'[t], fuse'[t], ref_delta[t])
    <3>1. CASE pc'[t] = "free_load"
      BY <3>1, Unread DEF FindingFor, Finding
    <3>2. CASE pc'[t] = "free_cas"
      <4>1. find'[t].poc = word /\ IsTaggedRefcount(word) /\ ~LastReference(word)
        BY <1>0, <1>3, <3>2 DEF Goto, FindFrame
      <4>2. word.val >= 1
        BY <1>0, <1>1, <4>1 DEF CountsPositive
      <4>3. word = TaggedFromRefcount(word.val)
        BY <1>1, <4>1 DEF Word, IsTaggedRefcount, TaggedFromRefcount
      <4>4. word.val # 1
        BY <4>1, <4>3 DEF LastReference
      <4> QED BY <3>2, <4>1, <4>2, <4>4 DEF CountsRead, FindingFor, Finding
    <3> QED BY <2>1, <3>1, <3>2
  <2>3. CountInv' /\ Root' = Root
    BY <1>0, <2>1, <2>2, FreeCounts DEF Freeing
  <2>4. DeadSame
    BY <1>0, <2>3, QuietDead DEF SameCounts
  <2>5. FreedInv'
    <3>1. Root'[call'[t].a] \notin freed /\ pc'[t] # "do_free"
      BY <1>0, <1>1, <2>1, <2>3
    <3> QED BY <1>0, <2>4, <3>1, FreedStay
  <2> QED BY <2>3, <2>5 DEF RefInv
<1> QED BY <1>2, <1>3 DEF FreeWith

LEMMA FreeRefs ==
    ASSUME NEW t \in Thread, Between(t), FreeLoad(t) \/ FreeCAS(t)
    PROVE  RefInv'
<1>1. CASE FreeLoad(t)
  <2>1. /\ pc[t] = "free_load" /\ FreeWith(t, parent_or_count[find[t].ai])
        /\ UNCHANGED <<parent_or_count, next, freed, refs, owed, ref_delta>>
    BY <1>1 DEF FreeLoad, At, memory
  <2> QED BY <2>1, FreeWithRefs
<1>2. CASE FreeCAS(t)
  <2> PICK f : f = find[t]
    OBVIOUS
  <2>1. CASE /\ parent_or_count[f.ai] = f.poc
             /\ parent_or_count' = [parent_or_count EXCEPT ![f.ai] = TaggedFromRefcount(f.poc.val - 1)]
             /\ Finish(t, "true")
    BY <1>2, <2>1, FreeCASSucceeds
  <2>2. CASE FreeWith(t, parent_or_count[f.ai]) /\ UNCHANGED parent_or_count
    <3>1. pc[t] = "free_cas" /\ UNCHANGED <<parent_or_count, next, freed, refs, owed, ref_delta>>
      BY <1>2, <2>2 DEF FreeCAS, At, lists
    <3> QED BY <2>2, <3>1, FreeWithRefs
  <2> QED BY <1>2, <2>1, <2>2 DEF FreeCAS
<1> QED BY <1>1, <1>2

\* _upb_Arena_DoFree frees the next arena of the list: it has not been freed,
\* because lists do not join and a root is the head of its list.
LEMMA DoFreeRefs ==
    ASSUME NEW t \in Thread, Between(t), ListInv, ListGroupInv, DoFree(t)
    PROVE  RefInv'
<1> PICK a, r, ai : a = call[t].a /\ r = Root[a] /\ ai = find[t].ai
  OBVIOUS
<1>0. /\ OrderInv /\ GroupInv /\ RefInv /\ FreedInv /\ OthersSame(t) /\ pc[t] = "do_free"
      /\ UNCHANGED <<parent_or_count, next, refs, owed, ref_delta, fuse>>
      /\ freed' = freed \cup {ai} /\ freed \in SUBSET Arena
      /\ next \in [Arena -> MaybeArena]
  BY DEF Between, RefInv, OrderInv, TypeOK, DoFree, At, lists, Finish, WalkTo
<1>1. /\ pc'[t] \in {"do_free", "return"} /\ call'[t].a = a
      /\ pc'[t] = "do_free" => next[ai] # NULL /\ find'[t].ai = next[ai]
  <2>1. pc \in [Thread -> Label] /\ call \in [Thread -> CallFrame] /\ find \in [Thread -> FindFrame]
    BY <1>0 DEF OrderInv, TypeOK
  <2> QED BY <1>0, <2>1 DEF DoFree, Finish, WalkTo, Goto, CallFrame, FindFrame
<1>2. a \in Arena /\ ai \in Arena /\ r \in Arena /\ Root[r] = r
  BY <1>0, FreerFacts, RootsNow DEF Freeing
<1>3. Root[ai] = r /\ ai \notin freed /\ (r \in freed \/ ai = r)
      /\ (ai = r \/ \E p \in freed : next[p] = ai)
  BY <1>0 DEF FreedInv, FreeingOK
<1>4. r \in freed' /\ freed \subseteq freed' /\ ai \in freed'
  BY <1>0, <1>3
<1>5. CountInv' /\ Root' = Root
  <2>1. CountsRead(pc'[t], find'[t], fuse'[t], ref_delta[t])
    BY <1>1, Unread DEF FindingFor, Finding
  <2> QED BY <1>0, <1>1, <1>4, <2>1, FreeCounts DEF Freeing
<1>6. /\ \A b \in Arena : Root[b] = r => refs[b] = 0
      /\ \A u \in Thread : pc[u] \in Freeing /\ Root[call[u].a] = r => u = t
  BY <1>0, FreerAlone
<1>7. FreedOK'
  BY <1>0, <1>3, <1>4, <1>5, <1>6 DEF FreedInv, FreedOK
<1>8. FreedPredecessor'
  BY <1>0, <1>2, <1>3, <1>4, <1>5 DEF FreedInv, FreedPredecessor
<1>9. \A u \in Thread : u # t => pc'[u] = pc[u] /\ call'[u] = call[u] /\ find'[u] = find[u]
  BY <1>0 DEF OthersSame
<1>10. OneFrees'
  <2>1. \A u \in Thread : pc'[u] = "do_free" => pc[u] = "do_free" /\ call'[u].a = call[u].a
    BY <1>0, <1>1, <1>9
  <2> QED BY <1>0, <1>5, <2>1 DEF FreedInv, OneFrees
<1>11. ASSUME NEW u \in Thread, u # t PROVE FreeingOK(u)'
  <2>1. ASSUME pc[u] \in {"free_load", "free_cas"} PROVE Root[call[u].a] \notin freed'
    <3>1. call[u].a \in Arena /\ Root[call[u].a] \notin freed /\ Root[call[u].a] # r
      BY <1>0, <1>6, <1>11, <2>1, FreerFacts DEF Freeing, FreedInv, FreeingOK
    <3>2. Root[Root[call[u].a]] = Root[call[u].a]
      BY <1>0, <3>1, RootsNow
    <3> QED BY <1>0, <1>3, <3>1, <3>2
  <2>2. ASSUME pc[u] = "do_free" PROVE find[u].ai \notin freed'
    <3>1. Root[find[u].ai] = Root[call[u].a] /\ find[u].ai \notin freed
      BY <1>0, <2>2 DEF FreedInv, FreeingOK
    <3>2. Root[call[u].a] # r
      BY <1>6, <1>11, <2>2 DEF Freeing
    <3> QED BY <1>0, <1>3, <3>1, <3>2
  <2>3. FreeingOK(u)
    BY <1>0 DEF FreedInv
  <2>4. /\ pc'[u] = pc[u] /\ call'[u] = call[u] /\ find'[u] = find[u] /\ freed \subseteq freed'
        /\ UNCHANGED <<parent_or_count, next>> /\ Root' = Root
    BY <1>0, <1>5, <1>9, <1>11
  <2> QED BY <2>1, <2>2, <2>3, <2>4 DEF FreeingOK
<1>12. ASSUME pc'[t] = "do_free" PROVE FreeingOK(t)'
  <2> PICK y : y = next[ai]
    OBVIOUS
  <2>1. y # NULL /\ find'[t].ai = y /\ y \in Arena
    BY <1>0, <1>1, <1>2, <1>12 DEF MaybeArena
  <2>2. Root[y] = r
    BY <1>2, <1>3, <2>1 DEF ListGroupInv, LinksInGroup
  <2>3. Root[y] # y
    <3>1. ~IsTaggedRefcount(parent_or_count[y])
      BY <1>0, <1>2, <2>1, RootsAreHeads
    <3> QED BY <1>0, <2>1, <3>1, RootsNow
  <2>4. \A p \in freed : next[p] # y
    <3>1. \A p \in Arena : next[p] = next[ai] => p = ai
      BY <1>0, <1>2, <2>1, PredecessorsUnique DEF OnePredecessor
    <3> QED BY <1>0, <1>3, <3>1
  <2>5. y \notin freed
    BY <1>0, <2>3, <2>4 DEF FreedInv, FreedPredecessor
  <2>6. y # ai
    BY <1>3, <2>2, <2>3, <2>4
  <2>7. y \notin freed' /\ \E p \in freed' : next'[p] = y
    BY <1>0, <1>4, <2>5, <2>6
  <2> QED BY <1>1, <1>4, <1>5, <1>12, <2>1, <2>2, <2>7 DEF FreeingOK
<1>13. \A u \in Thread : FreeingOK(u)'
  <2>1. pc'[t] # "do_free" => FreeingOK(t)'
    BY <1>1 DEF FreeingOK
  <2> QED BY <1>11, <1>12, <2>1
<1> QED BY <1>5, <1>7, <1>8, <1>10, <1>13 DEF RefInv, FreedInv

----------------------------------------------------------------------------
(***************************************************************************)
(* The inductive invariant: the order of addresses, the lists, the groups, *)
(* the lists in their groups, the callers' references and the counts.      *)
(***************************************************************************)
FuseInv == OrderInv /\ ListInv /\ GroupInv /\ ListGroupInv /\ HoldInv /\ RefInv

LEMMA NextRefs ==
    ASSUME FuseInv, Next
    PROVE  HoldInv' /\ RefInv'
<1>0. OrderInv /\ ListInv /\ GroupInv /\ ListGroupInv /\ HoldInv /\ RefInv
  BY DEF FuseInv
<1>1. PICK t \in Thread : Start(t) \/ Step(t)
  BY DEF Next
<1>2. HoldInv'
  BY <1>0, NextHolds
<1>3. OrderStep /\ RootsJoin /\ LinksStay /\ OthersSame(t)
  BY <1>0, <1>1, NextOrdered, NextGroups, NextLists, StartOthers, StepOthers DEF GroupStep, ListStep
<1>4. Between(t)
  BY <1>0, <1>3 DEF Between
<1>5. CASE Start(t)
  <2>1. CASE \E a \in Arena : StartFree(t, a)
    BY <1>2, <1>4, <2>1, StartFreeRefs
  <2>2. CASE \A a \in Arena : ~StartFree(t, a)
    BY <1>2, <1>4, <1>5, <2>2, StartRefs
  <2> QED BY <2>1, <2>2
<1>6. CASE Step(t)
  BY <1>0, <1>2, <1>4, <1>6, ReturnRefs, FindRootRefs, DoFuseAddRefsRefs, DoFuseReparentRefs, LinkRefs,
     FixupRefsLoadRefs, FixupRefsCASRefs, IncRefCASRefs, FreeRefs, DoFreeRefs, SpaceRefs
     DEF Step
<1> QED BY <1>1, <1>2, <1>5, <1>6

LEMMA StutterRefs ==
    ASSUME HoldInv, RefInv, UNCHANGED vars
    PROVE  HoldInv' /\ RefInv'
<1>1. UNCHANGED <<parent_or_count, next, freed, refs, pc, call, find, fuse, ref_delta, owed>>
  BY DEF vars, memory
<1>2. Root' = Root
  BY <1>1, RootsSame
<1>3. HoldInv'
  BY <1>1 DEF HoldInv
<1>4. \A G : Balance(G)' = Balance(G)
  BY <1>1 DEF Balance, ReleasingIn, OwedBy
<1>5. CountInv'
  <2>1. OwedNat' /\ CountsPositive' /\ \A t \in Thread : TallyOK(t)'
    BY <1>1, <1>2 DEF RefInv, CountInv, OwedNat, CountsPositive, TallyOK
  <2>2. \A a : Group(a)' = Group(a)
    BY <1>2 DEF Group
  <2>3. Conserved'
    BY <1>1, <1>4, <2>2 DEF RefInv, CountInv, Conserved
  <2> QED BY <2>1, <2>3 DEF CountInv
<1>6. FreedInv'
  BY <1>1, <1>2 DEF RefInv, FreedInv, FreedOK, FreedPredecessor, OneFrees, FreeingOK
<1> QED BY <1>3, <1>5, <1>6 DEF RefInv

LEMMA InitRefsHold == Init => HoldInv /\ RefInv
<1> SUFFICES ASSUME Init PROVE HoldInv /\ RefInv
  OBVIOUS
<1>0. OrderInv
  BY InitOrdered
<1>1. \A t \in Thread : pc[t] = "idle" /\ owed[t] = NoneOwed /\ ref_delta[t] = 0
  BY DEF Init
<1>2. \A a \in Arena : /\ IsTaggedRefcount(parent_or_count[a]) /\ parent_or_count[a].val = refs[a]
                       /\ refs[a] \in Nat /\ refs[a] >= 1
  BY RefsAssumption DEF Init, IsTaggedRefcount, TaggedFromRefcount
<1>3. \A a \in Arena : Root[a] = a
  BY <1>0, <1>2, RootsNow
<1>4. \A G \in SUBSET Arena : Total(NoneOwed, G) = 0
  BY FiniteArenas, TotalZero DEF NoneOwed
<1>5. HoldInv
  BY <1>1 DEF HoldInv, Holds
<1>6. OwedNat /\ CountsPositive
  BY <1>1, <1>2 DEF OwedNat, NoneOwed, CountsPositive
<1>7. Conserved
  <2> SUFFICES ASSUME NEW r \in Arena \ freed, NEW G, G = Group(r)
               PROVE  parent_or_count[r].val = Balance(G)
    BY DEF Conserved
  <2>1. G = {r} /\ G \in SUBSET Arena
    BY <1>3 DEF Group
  <2>2. ReleasingIn(G) = {}
    BY <1>1 DEF ReleasingIn, Freeing
  <2>3. Cardinality(ReleasingIn(G)) = 0
    BY <2>2, FS_EmptySet
  <2>4. Total(OwedBy(G), Thread) = 0
    <3>1. \A t \in Thread : OwedBy(G)[t] = 0
      BY <1>1, <1>4, <2>1 DEF OwedBy
    <3> QED BY <3>1, FiniteArenas, TotalZero
  <2>5. Total(refs, G) = refs[r]
    <3>1. IsFiniteSet(G) /\ Weighs(refs, G) /\ G \ {r} = {}
      BY <1>2, <2>1, FiniteArenas DEF Weighs
    <3>2. Total(refs, G) = refs[r] + Total(refs, G \ {r})
      BY <2>1, <3>1, TotalRemove
    <3> QED BY <1>2, <3>1, <3>2, TotalEmpty
  <2> QED BY <1>2, <2>3, <2>4, <2>5 DEF Balance
<1>8. ASSUME NEW t \in Thread PROVE TallyOK(t)
  <2>1. Debts(Root, pc[t], call[t], owed[t])
    BY <1>1 DEF Debts, NoneOwed
  <2>2. Delta(pc[t], fuse[t], ref_delta[t], owed[t])
    BY <1>1, <1>4 DEF Delta
  <2>3. CountsRead(pc[t], find[t], fuse[t], ref_delta[t])
    BY <1>1, Unread DEF FindingFor, Finding
  <2> QED BY <2>1, <2>2, <2>3 DEF TallyOK
<1>9. FreedInv
  <2>1. freed = {}
    BY DEF Init
  <2> QED BY <1>1, <2>1 DEF FreedInv, FreedOK, FreedPredecessor, OneFrees, FreeingOK
<1> QED BY <1>5, <1>6, <1>7, <1>8, <1>9 DEF RefInv, CountInv

----------------------------------------------------------------------------
(***************************************************************************)
(* The theorems.                                                           *)
(***************************************************************************)

\* The inductive invariant holds: counts are balances, what threads have read
\* of counts is usable, and a group is freed by one thread, once, along its list.
THEOREM RefsInvariant == Spec => []FuseInv
<1>1. FuseInv /\ [Next]_vars => HoldInv' /\ RefInv'
  BY NextRefs, StutterRefs DEF FuseInv
<1>2. Spec => [](OrderInv /\ ListInv /\ GroupInv /\ ListGroupInv)
  BY ListInvariant, ListsStayInGroups, PTL
<1> QED BY <1>1, <1>2, InitRefsHold, PTL DEF Spec, FuseInv

LEMMA GroupSums ==
    ASSUME NEW r \in Arena
    PROVE  RefsOn(Group(r)) + Cardinality(Releasing(r)) + OwedTo(Group(r)) = Balance(Group(r))
<1> PICK G : G = Group(r)
  OBVIOUS
<1>1. G \in SUBSET Arena
  BY DEF Group
<1>2. RefsOn(G) = Total(refs, G) /\ OwedTo(G) = Total(OwedBy(G), Thread)
  BY <1>1, RefsOnIs, OwedToIs
<1>3. Releasing(r) = ReleasingIn(G)
  BY DEF Releasing, ReleasingIn, Freeing
<1> QED BY <1>2, <1>3 DEF Balance

\* The count of a group that is not freed is the references held on its members,
\* those being given up and the excess that racing fuses have added, and a fuse
\* knows its excess: ref_delta is what FixupRefs has to take back.
THEOREM NoReferenceLost == Spec => []RefsConserved
<1>1. FuseInv => RefsConserved
  <2> SUFFICES ASSUME FuseInv PROVE RefsConserved
    OBVIOUS
  <2>0. OrderInv /\ CountInv
    BY DEF FuseInv, RefInv
  <2>1. ASSUME NEW r \in Arena \ freed, IsTaggedRefcount(parent_or_count[r])
        PROVE  parent_or_count[r].val =
                   RefsOn(Group(r)) + Cardinality(Releasing(r)) + OwedTo(Group(r))
    BY <2>0, <2>1, GroupSums DEF CountInv, Conserved
  <2>2. ASSUME NEW t \in Thread, pc[t] # "reparent"
        PROVE  ref_delta[t] = SumOver(Arena, LAMBDA a : owed[t][a])
    <3>1. ref_delta[t] = Total(owed[t], Arena)
      BY <2>0, <2>2 DEF CountInv, TallyOK, Delta
    <3>2. SumOver(Arena, LAMBDA a : owed[t][a]) = Total(owed[t], Arena)
      BY OwedOnIs
    <3> QED BY <3>1, <3>2
  <2> QED BY <2>1, <2>2 DEF RefsConserved
<1> QED BY <1>1, RefsInvariant, PTL

\* What a call touches is fused with an arena its caller holds, or with the one
\* whose reference is being given up.
LEMMA HeldSafe ==
    ASSUME OrderInv, GroupInv, RefInv, NEW a \in Arena, refs[a] > 0, NEW x \in Arena, Root[x] = Root[a]
    PROVE  x \in Arena \ freed
BY ReferencedLive DEF Live

LEMMA FindTouches ==
    ASSUME FuseInv, NEW t \in Thread, pc[t] \in Finding, NEW x,
           x \in {find[t].ai} \/ (pc[t] = "find_next" /\ x = find[t].poc.val)
    PROVE  x \in Arena \ freed
<1> PICK c, f, g, l : c = call[t] /\ f = find[t] /\ g = fuse[t] /\ l = pc[t]
  OBVIOUS
<1>0. OrderInv /\ GroupInv /\ RefInv /\ HoldInv
  BY DEF FuseInv
<1>1. /\ f.ai \in Arena /\ f \in FindFrame
      /\ f.ret \in {"r1", "ra", "tmp", "incref"} => Root[f.ai] = Root[c.a]
      /\ f.ret \in {"r2", "rb"} => Root[f.ai] = Root[c.b]
      /\ f.ret \in {"r1", "r2"} => c.op = "fuse"
      /\ f.ret \in {"ra", "rb", "tmp"} => c.op = "isfused"
      /\ f.ret = "incref" => c.op = "incref"
  BY <1>0, FinderFacts
<1>2. f.ret # "none" /\ (l = "find_next" => IsTaggedPointer(f.poc))
  BY <1>0 DEF OrderInv, WalkOrdered, At, Finding
<1>3. l # "idle" /\ Holds(refs, l, c)
  BY <1>0 DEF HoldInv, Finding
<1>4. \E a \in Arena : refs[a] > 0 /\ Root[f.ai] = Root[a]
  <2>1. f.ret \in {"r1", "r2", "ra", "rb", "tmp", "incref"}
    BY <1>1, <1>2 DEF FindFrame
  <2> QED BY <1>1, <1>3, <2>1 DEF Holds
<1>5. x \in Arena /\ Root[x] = Root[f.ai]
  <2>1. l = "find_next" => Root[f.poc.val] = Root[f.ai]
    BY <1>0 DEF GroupInv, ThreadInGroups, InGroups, WalkInGroup
  <2>2. l = "find_next" => f.poc.val \in Arena
    BY <1>1, <1>2, WordCases DEF FindFrame
  <2> QED BY <1>1, <2>1, <2>2
<1> QED BY <1>0, <1>4, <1>5, HeldSafe

LEMMA FuseTouches ==
    ASSUME FuseInv, NEW t \in Thread, pc[t] \in FusingAt, NEW x,
           \/ x = fuse[t].r1.root
           \/ pc[t] \in Linking \cup {"add_refs", "reparent"} /\ x = fuse[t].r2.root
           \/ pc[t] \in Linking \ {"link_tail"} /\ x = link[t].tail
    PROVE  x \in Arena \ freed
<1> PICK c, g, l : c = call[t] /\ g = fuse[t] /\ l = pc[t]
  OBVIOUS
<1>0. OrderInv /\ GroupInv /\ ListGroupInv /\ RefInv /\ HoldInv
  BY DEF FuseInv
<1>1. /\ l # "idle" /\ c.op = "fuse" /\ g.r1.root \in Arena
      /\ l \in Linking \cup {"add_refs", "reparent"} => g.r2.root \in Arena
      /\ l \in {"add_refs", "reparent"} =>
            \/ Root[g.r1.root] = Root[c.a] /\ Root[g.r2.root] = Root[c.b]
            \/ Root[g.r1.root] = Root[c.b] /\ Root[g.r2.root] = Root[c.a]
      /\ l \in Linking => Root[g.r2.root] = Root[c.a]
      /\ l \in Linking \cup {"fixup_load", "fixup_cas"} => Root[g.r1.root] = Root[c.a]
  BY <1>0, FuserFacts
<1>2. Holds(refs, l, c)
  BY <1>0 DEF HoldInv
<1>3. c.a \in Arena /\ c.b \in Arena /\ refs[c.a] > 0 /\ refs[c.b] > 0
  BY <1>1, <1>2 DEF Holds
<1>4. l \in Linking \ {"link_tail"} => link[t].tail \in Arena /\ Root[link[t].tail] = Root[g.r1.root]
  BY <1>0 DEF OrderInv, FuseOrdered, ListGroupInv, LinkerInGroup
<1>5. x \in Arena /\ (Root[x] = Root[c.a] \/ Root[x] = Root[c.b])
  BY <1>1, <1>4 DEF FusingAt
<1> QED BY <1>0, <1>3, <1>5, HeldSafe

LEMMA CountTouches ==
    ASSUME FuseInv, NEW t \in Thread,
           pc[t] \in {"incref_cas", "free_load", "free_cas", "do_free", "space_backward", "space_forward"}
    PROVE  find[t].ai \in Arena \ freed
<1> PICK c, f, l : c = call[t] /\ f = find[t] /\ l = pc[t]
  OBVIOUS
<1>0. OrderInv /\ GroupInv /\ ListGroupInv /\ RefInv /\ HoldInv /\ Holds(refs, l, c)
  BY DEF FuseInv, HoldInv
<1>1. /\ f.ai \in Arena /\ l # "idle"
      /\ l \in {"incref_cas", "free_load", "free_cas"} => c.a \in Arena /\ Root[f.ai] = Root[c.a]
      /\ l = "incref_cas" => c.op = "incref"
      /\ l \in {"space_backward", "space_forward"} => c.op = "space"
  BY <1>0, CounterFacts
<1>2. CASE l = "incref_cas"
  <2>1. c.a \in Arena /\ refs[c.a] > 0
    BY <1>0, <1>1, <1>2 DEF Holds
  <2> QED BY <1>0, <1>1, <1>2, <2>1, HeldSafe
<1>3. CASE l \in {"space_backward", "space_forward"}
  <2>1. c.a \in Arena /\ refs[c.a] > 0
    BY <1>0, <1>1, <1>3 DEF Holds
  <2>2. Root[f.ai] = Root[c.a]
    BY <1>0, <1>3 DEF ListGroupInv, LinkerInGroup
  <2> QED BY <1>0, <1>1, <2>1, <2>2, HeldSafe
<1>4. CASE l \in {"free_load", "free_cas"}
  BY <1>0, <1>1, <1>4, ReleasedLive DEF Live
<1>5. CASE l = "do_free"
  BY <1>0, <1>1, <1>5 DEF RefInv, FreedInv, FreeingOK
<1> QED BY <1>2, <1>3, <1>4, <1>5

\* No call reads or writes freed memory, whatever the interleaving; no arena is
\* freed twice; and no arena is freed while a fused one is referenced.
THEOREM NoFreedMemoryTouched == Spec => []MemorySafe
<1>1. FuseInv => MemorySafe
  <2> SUFFICES ASSUME FuseInv PROVE MemorySafe
    OBVIOUS
  <2>1. ASSUME NEW t \in Thread, NEW x \in Touches(t) PROVE x \in Arena \ freed
    <3>1. CASE pc[t] \in Finding
      <4>1. x \in {find[t].ai} \/ (pc[t] = "find_next" /\ x = find[t].poc.val)
        BY <2>1, <3>1 DEF Touches, Finding
      <4> QED BY <3>1, <4>1, FindTouches
    <3>2. CASE pc[t] \in FusingAt
      <4>1. \/ x = fuse[t].r1.root
            \/ pc[t] \in Linking \cup {"add_refs", "reparent"} /\ x = fuse[t].r2.root
            \/ pc[t] \in Linking \ {"link_tail"} /\ x = link[t].tail
        BY <2>1, <3>2 DEF Touches, FusingAt, Linking
      <4> QED BY <3>2, <4>1, FuseTouches
    <3>3. CASE pc[t] \in {"incref_cas", "free_load", "free_cas", "do_free", "space_backward", "space_forward"}
      <4>1. x = find[t].ai
        BY <2>1, <3>3 DEF Touches
      <4> QED BY <3>3, <4>1, CountTouches
    <3>4. CASE pc[t] \in {"idle", "return"}
      BY <2>1, <3>4 DEF Touches
    <3>5. pc[t] \in Label
      BY DEF FuseInv, OrderInv, TypeOK
    <3> QED BY <3>1, <3>2, <3>3, <3>4, <3>5 DEF Label, Finding, FusingAt, Linking
  <2>2. \A a \in freed : \A b \in Group(a) : refs[b] = 0
    BY DEF FuseInv, RefInv, FreedInv, FreedOK, Group
  <2> QED BY <2>1, <2>2 DEF MemorySafe
<1> QED BY <1>1, RefsInvariant, PTL

\* The assertions of arena.c never fail.
THEOREM AssertionsHold == Spec => []AssertsHold
<1>1. FuseInv => AssertsHold
  <2> SUFFICES ASSUME FuseInv, NEW t \in Thread
               PROVE  /\ At(t, "find_reload") => IsTaggedPointer(parent_or_count[find[t].ai])
                      /\ At(t, "find_next") => /\ IsTaggedPointer(find[t].poc)
                                               /\ find[t].poc.val # find[t].ai
                      /\ At(t, "tail_child") => IsTaggedTail(previous_or_tail[fuse[t].r2.root])
                      /\ (At(t, "do_free") /\ Group(find[t].ai) \cap freed = {}) =>
                             parent_or_count[find[t].ai] = TaggedFromRefcount(1)
                      /\ At(t, "fixup_cas") => find[t].poc.val > ref_delta[t]
    BY DEF AssertsHold
  <2>1. /\ At(t, "find_reload") => IsTaggedPointer(parent_or_count[find[t].ai])
        /\ At(t, "find_next") => IsTaggedPointer(find[t].poc) /\ find[t].poc.val < find[t].ai
    BY DEF FuseInv, OrderInv, WalkOrdered
  <2>2. At(t, "find_next") => find[t].poc.val # find[t].ai
    <3>1. ASSUME At(t, "find_next") PROVE find[t].ai \in Arena /\ find[t].poc.val \in Arena
      <4>1. pc[t] \in Finding
        BY <3>1 DEF At, Finding
      <4>2. find[t] \in FindFrame /\ find[t].ai \in Arena
        BY <4>1 DEF FuseInv, OrderInv, TypeOK, WalkOrdered
      <4> QED BY <2>1, <3>1, <4>2, WordCases DEF FindFrame
    <3> QED BY <2>1, <3>1, ArenaNat
  <2>3. At(t, "tail_child") => IsTaggedTail(previous_or_tail[fuse[t].r2.root])
    BY DEF FuseInv, ListInv, LinkerOK, Child, Linking, At
  <2>4. ASSUME At(t, "do_free"), Group(find[t].ai) \cap freed = {}
        PROVE  parent_or_count[find[t].ai] = TaggedFromRefcount(1)
    <3>1. OrderInv /\ GroupInv /\ FreeingOK(t) /\ pc[t] = "do_free" /\ pc[t] \in Freeing
      BY <2>4 DEF FuseInv, RefInv, FreedInv, At, Freeing
    <3>2. find[t].ai \in Arena /\ call[t].a \in Arena
      BY <3>1, FreerFacts
    <3> PICK r : r = Root[call[t].a]
      OBVIOUS
    <3>3. r \in Arena /\ Root[r] = r /\ Root[find[t].ai] = r
      BY <3>1, <3>2, RootsNow DEF FreeingOK
    <3>4. r \notin freed
      BY <2>4, <3>3 DEF Group
    <3> QED BY <3>1, <3>4 DEF FreeingOK
  <2>5. At(t, "fixup_cas") => find[t].poc.val > ref_delta[t]
    BY DEF FuseInv, RefInv, CountInv, TallyOK, CountsRead, At
  <2> QED BY <2>1, <2>2, <2>3, <2>4, <2>5
<1> QED BY <1>1, RefsInvariant, PTL

----------------------------------------------------------------------------
(***************************************************************************)
(* The refinement: what each step does to groups, references and memory.   *)
(***************************************************************************)
LEMMA ExchangeKeepsRoots ==
    ASSUME OrderInv, OrderStep, NEW r \in Arena, NEW n, IsTaggedRefcount(parent_or_count[r]),
           parent_or_count' = [parent_or_count EXCEPT ![r] = TaggedFromRefcount(n)]
    PROVE  Root' = Root
<1>1. parent_or_count \in [Arena -> Word] /\ parent_or_count' \in [Arena -> Word] /\ OrderInv'
  BY DEF OrderInv, OrderStep, TypeOK
<1>2. parent_or_count'[r] = TaggedFromRefcount(n) /\ parent_or_count'[r] \in Word
  BY <1>1
<1>3. n \in Int
  BY <1>2 DEF Word, TaggedFromRefcount
<1> QED BY <1>1, <1>3, CountsKeepRoots

LEMMA CountExchanges ==
    ASSUME OrderInv, OrderStep, GroupInv, NEW t \in Thread,
           DoFuseAddRefs(t) \/ FixupRefsCAS(t) \/ FreeCAS(t) \/ IncRefCAS(t)
    PROVE  Root' = Root /\ UNCHANGED freed
<1> PICK f, g : f = find[t] /\ g = fuse[t]
  OBVIOUS
<1>1. CASE DoFuseAddRefs(t)
  <2>1. pc[t] = "add_refs" /\ UNCHANGED freed /\ g.r1.root \in Arena
    BY <1>1 DEF DoFuseAddRefs, At, OrderInv, FuseOrdered
  <2>2. CASE /\ parent_or_count[g.r1.root] = TaggedFromRefcount(g.r1.count)
             /\ parent_or_count' = [parent_or_count EXCEPT
                     ![g.r1.root] = TaggedFromRefcount(g.r1.count + g.r2.count)]
    <3>1. IsTaggedRefcount(parent_or_count[g.r1.root])
      BY <2>2, TagOfWord
    <3> QED BY <2>1, <2>2, <3>1, ExchangeKeepsRoots
  <2>3. CASE UNCHANGED parent_or_count
    BY <2>1, <2>3, RootsSame
  <2> QED BY <1>1, <2>2, <2>3 DEF DoFuseAddRefs
<1>2. CASE FixupRefsCAS(t)
  <2>1. pc[t] = "fixup_cas" /\ UNCHANGED freed /\ g.r1.root \in Arena /\ IsTaggedRefcount(f.poc)
    BY <1>2 DEF FixupRefsCAS, At, OrderInv, FuseOrdered, WalkOrdered
  <2>2. CASE /\ parent_or_count[g.r1.root] = f.poc
             /\ parent_or_count' = [parent_or_count EXCEPT
                     ![g.r1.root] = TaggedFromRefcount(f.poc.val - ref_delta[t])]
    BY <2>1, <2>2, ExchangeKeepsRoots
  <2>3. CASE UNCHANGED parent_or_count
    BY <2>1, <2>3, RootsSame
  <2> QED BY <1>2, <2>2, <2>3 DEF FixupRefsCAS
<1>3. CASE FreeCAS(t)
  <2>1. pc[t] = "free_cas" /\ UNCHANGED freed /\ f.ai \in Arena /\ IsTaggedRefcount(f.poc)
    BY <1>3 DEF FreeCAS, At, OrderInv, WalkOrdered
  <2>2. CASE /\ parent_or_count[f.ai] = f.poc
             /\ parent_or_count' = [parent_or_count EXCEPT ![f.ai] = TaggedFromRefcount(f.poc.val - 1)]
    BY <2>1, <2>2, ExchangeKeepsRoots
  <2>3. CASE UNCHANGED parent_or_count
    BY <2>1, <2>3, RootsSame
  <2> QED BY <1>3, <2>2, <2>3 DEF FreeCAS
<1>4. CASE IncRefCAS(t)
  <2>1. pc[t] = "incref_cas" /\ UNCHANGED freed /\ f.ai \in Arena /\ IsTaggedRefcount(f.poc)
    BY <1>4 DEF IncRefCAS, At, OrderInv, WalkOrdered
  <2>2. CASE /\ parent_or_count[f.ai] = f.poc
             /\ parent_or_count' = [parent_or_count EXCEPT ![f.ai] = TaggedFromRefcount(f.poc.val + 1)]
    BY <2>1, <2>2, ExchangeKeepsRoots
  <2>3. CASE UNCHANGED parent_or_count
    BY <2>1, <2>3, RootsSame
  <2> QED BY <1>4, <2>2, <2>3 DEF IncRefCAS
<1> QED BY <1>1, <1>2, <1>3, <1>4

\* The steps that the promise does not see.
LEMMA HiddenSteps ==
    ASSUME OrderInv, OrderStep, GroupInv, NEW t \in Thread, Start(t) \/ Step(t),
           ~IncRefCAS(t), ~DoFuseReparent(t), ~DoFree(t), \A a \in Arena : ~StartFree(t, a)
    PROVE  Root' = Root /\ UNCHANGED <<refs, freed>>
<1>1. CASE Start(t)
  <2>1. UNCHANGED <<parent_or_count, refs, freed>>
    BY <1>1 DEF Start, StartFuse, StartIsFused, StartIncRef, StartSpaceAllocated, memory
  <2> QED BY <2>1, RootsSame
<1>2. CASE Step(t)
  <2>1. UNCHANGED refs
    BY <1>2, StepRefs
  <2>2. CASE DoFuseAddRefs(t) \/ FixupRefsCAS(t) \/ FreeCAS(t)
    BY <2>1, <2>2, CountExchanges
  <2>3. CASE FindRootSplit(t)
    <3>1. UNCHANGED freed
      BY <2>3 DEF FindRootSplit
    <3> QED BY <2>1, <2>3, <3>1, SplitKeepsRoots
  <2>4. CASE \/ Return(t) \/ FindRootLoad(t) \/ FindRootReload(t) \/ FindRootNext(t)
             \/ LinkForwardStart(t) \/ LinkForwardWalk(t) \/ LinkForwardCAS(t)
    <3>1. UNCHANGED <<parent_or_count, freed>>
      BY <2>4 DEF Return, FindRootLoad, FindRootReload, FindRootNext, LinkForwardStart,
                  LinkForwardWalk, LinkForwardCAS, memory
    <3> QED BY <2>1, <3>1, RootsSame
  <2>5. CASE \/ UpdateTailChild(t) \/ UpdateTailParent(t) \/ UpdateTailCAS(t) \/ LinkBackward(t)
             \/ FixupRefsLoad(t) \/ FreeLoad(t) \/ SpaceBackward(t) \/ SpaceForward(t)
    <3>1. UNCHANGED <<parent_or_count, freed>>
      BY <2>5 DEF UpdateTailChild, UpdateTailParent, UpdateTailCAS, LinkBackward, FixupRefsLoad,
                  FreeLoad, SpaceBackward, SpaceForward, memory
    <3> QED BY <2>1, <3>1, RootsSame
  <2> QED BY <1>2, <2>2, <2>3, <2>4, <2>5 DEF Step
<1> QED BY <1>1, <1>2

\* The groups of a state.
AllGroups == {Group(a) : a \in Arena}

LEMMA GroupsSame ==
    ASSUME Root' = Root
    PROVE  AllGroups' = AllGroups
BY DEF AllGroups, Group

\* Joining two roots joins their groups, and no others.
LEMMA GroupsJoin ==
    ASSUME NEW r \in Arena, NEW s \in Arena, Root[r] = r, Root[s] = s, r # s,
           \A a \in Arena : Root'[a] = IF Root[a] = r THEN s ELSE Root[a]
    PROVE  AllGroups' = (AllGroups \ {Group(s), Group(r)}) \cup {Group(s) \cup Group(r)}
<1> PICK J : J = Group(s) \cup Group(r)
  OBVIOUS
<1>1. \A a \in Arena : Group(a)' = IF Root[a] \in {r, s} THEN J ELSE Group(a)
  <2> TAKE a \in Arena
  <2>1. CASE Root[a] \in {r, s}
    <3>1. Group(a)' = {b \in Arena : Root'[b] = s}
      BY <2>1 DEF Group
    <3>2. J = {b \in Arena : Root[b] \in {r, s}}
      BY DEF Group
    <3>3. Group(a)' = J
      BY <3>1, <3>2
    <3> QED BY <2>1, <3>3
  <2>2. CASE Root[a] \notin {r, s}
    <3>1. Group(a)' = {b \in Arena : Root'[b] = Root[a]}
      BY <2>2 DEF Group
    <3>2. Group(a)' = Group(a)
      BY <2>2, <3>1 DEF Group
    <3> QED BY <2>2, <3>2
  <2> QED BY <2>1, <2>2
<1>2. \A a \in Arena : Group(a) \in {Group(s), Group(r)} <=> Root[a] \in {r, s}
  <2> TAKE a \in Arena
  <2>1. a \in Group(a) /\ (a \in Group(s) <=> Root[a] = s) /\ (a \in Group(r) <=> Root[a] = r)
    BY DEF Group
  <2>2. Root[a] = s => Group(a) = Group(s)
    BY DEF Group
  <2>3. Root[a] = r => Group(a) = Group(r)
    BY DEF Group
  <2> QED BY <2>1, <2>2, <2>3
<1>3. \A X \in AllGroups' : X \in (AllGroups \ {Group(s), Group(r)}) \cup {J}
  BY <1>1, <1>2 DEF AllGroups
<1>4. \A X \in AllGroups \ {Group(s), Group(r)} : X \in AllGroups'
  BY <1>1, <1>2 DEF AllGroups
<1>5. J \in AllGroups'
  <2>1. Group(s)' = J
    BY <1>1
  <2> QED BY <2>1 DEF AllGroups
<1> QED BY <1>3, <1>4, <1>5

\* A fuse takes effect with the second compare-exchange of DoFuse.
LEMMA ReparentFuses ==
    ASSUME FuseInv, OrderStep, NEW t \in Thread, DoFuseReparent(t), parent_or_count' # parent_or_count
    PROVE  \E G, H \in AllGroups : Groups!Fuse(G, H)
<1> PICK c, g, r1, r2, s : /\ c = call[t] /\ g = fuse[t] /\ r1 = g.r1.root /\ r2 = g.r2.root
                           /\ s = Root[r1]
  OBVIOUS
<1>0. OrderInv /\ OrderInv' /\ GroupInv /\ HoldInv
  BY DEF FuseInv, OrderStep
<1>1. /\ pc[t] = "reparent" /\ pc[t] \in FusingAt /\ UNCHANGED <<refs, freed>>
      /\ parent_or_count[r2] = TaggedFromRefcount(g.r2.count)
      /\ parent_or_count' = [parent_or_count EXCEPT ![r2] = TaggedFromPointer(r1)]
  BY DEF DoFuseReparent, At, FusingAt
<1>2. /\ c.op = "fuse" /\ r1 \in Arena /\ r2 \in Arena /\ r1 < r2
      /\ \/ Root[r1] = Root[c.a] /\ Root[r2] = Root[c.b]
         \/ Root[r1] = Root[c.b] /\ Root[r2] = Root[c.a]
  BY <1>0, <1>1, FuserFacts
<1>3. c.a \in Arena /\ c.b \in Arena /\ refs[c.a] > 0 /\ refs[c.b] > 0
  <2>1. Holds(refs, pc[t], c)
    BY <1>0 DEF HoldInv
  <2> QED BY <1>1, <1>2, <2>1 DEF Holds
<1>4. IsTaggedRefcount(parent_or_count[r2])
  BY <1>1, TagOfWord
<1>5. Root[r2] = r2 /\ s \in Arena /\ Root[s] = s /\ s <= r1
  BY <1>0, <1>2, <1>4, RootsNow
<1>6. s # r2
  BY <1>2, <1>5, ArenaNat
<1>7. \A a \in Arena : Root'[a] = IF Root[a] = r2 THEN s ELSE Root[a]
  <2>1. \A a \in Arena : Root'[a] = IF Root[a] = r2 THEN Root[r1] ELSE Root[a]
    <3>1. /\ OrderInv /\ OrderInv' /\ r1 \in Arena /\ r2 \in Arena /\ r1 < r2
          /\ parent_or_count' = [parent_or_count EXCEPT ![r2] = TaggedFromPointer(r1)]
      BY <1>0, <1>1, <1>2
    <3> QED BY ONLY <1>4, <3>1, ReparentJoins
  <2> QED BY <2>1
<1> PICK G, H : G = Group(s) /\ H = Group(r2)
  OBVIOUS
<1>8. AllGroups' = (AllGroups \ {G, H}) \cup {G \cup H}
  BY <1>2, <1>5, <1>6, <1>7, GroupsJoin
<1>9. G # H /\ G \in AllGroups /\ H \in AllGroups
  BY <1>2, <1>5, <1>6 DEF Group, AllGroups
<1>10. (\E a \in G : refs[a] > 0) /\ (\E a \in H : refs[a] > 0)
  BY <1>2, <1>3, <1>5 DEF Group
<1>11. Groups!Fuse(G, H)
  BY <1>1, <1>8, <1>9, <1>10 DEF Groups!Fuse, Groups!Referenced, AllGroups
<1> QED BY <1>9, <1>11

\* IncRefFor takes effect with its compare-exchange, Free when it is called, and
\* DoFree gives back one arena of a group that nobody references.
LEMMA IncRefImplements ==
    ASSUME FuseInv, OrderStep, NEW t \in Thread, IncRefCAS(t), refs' # refs
    PROVE  \E a \in Arena : Groups!IncRef(a)
<1> PICK c : c = call[t]
  OBVIOUS
<1>0. OrderInv /\ GroupInv /\ HoldInv
  BY DEF FuseInv
<1>1. pc[t] = "incref_cas" /\ refs' = [refs EXCEPT ![c.a] = @ + 1]
  BY DEF IncRefCAS, At
<1>2. c.op = "incref"
  BY <1>0, <1>1, CounterFacts
<1>3. c.a \in Arena /\ refs[c.a] > 0
  <2>1. Holds(refs, pc[t], c)
    BY <1>0 DEF HoldInv
  <2> QED BY <1>1, <1>2, <2>1 DEF Holds
<1>4. AllGroups' = AllGroups /\ UNCHANGED freed
  BY <1>0, CountExchanges, GroupsSame
<1>5. Groups!IncRef(c.a)
  BY <1>1, <1>3, <1>4 DEF Groups!IncRef, AllGroups
<1> QED BY <1>3, <1>5

LEMMA StartFreeImplements ==
    ASSUME FuseInv, NEW t \in Thread, NEW a \in Arena, StartFree(t, a)
    PROVE  Groups!Release(a)
<1>1. /\ refs' = [refs EXCEPT ![a] = @ - 1] /\ UNCHANGED <<parent_or_count, freed>>
      /\ refs[a] >= 1 /\ refs[a] \in Nat
  BY DEF StartFree, memory, FuseInv, OrderInv, TypeOK
<1>2. refs[a] > 0
  BY <1>1 DEF FuseInv, OrderInv, TypeOK
<1>3. AllGroups' = AllGroups
  BY <1>1, RootsSame, GroupsSame
<1> QED BY <1>1, <1>2, <1>3 DEF Groups!Release, AllGroups

LEMMA DoFreeImplements ==
    ASSUME FuseInv, NEW t \in Thread, DoFree(t)
    PROVE  \E G \in AllGroups : \E a \in G : Groups!Reclaim(G, a)
<1> PICK ai, G : ai = find[t].ai /\ G = Group(ai)
  OBVIOUS
<1>0. OrderInv /\ GroupInv /\ RefInv
  BY DEF FuseInv
<1>1. /\ pc[t] = "do_free" /\ freed' = freed \cup {ai} /\ UNCHANGED <<parent_or_count, refs>>
  BY DEF DoFree, At
<1>2. ai \in Arena /\ ai \notin freed /\ Root[ai] = Root[call[t].a]
  BY <1>0, <1>1, FreerFacts DEF Freeing, RefInv, FreedInv, FreeingOK
<1>3. \A b \in Arena : Root[b] = Root[ai] => refs[b] = 0
  BY <1>0, <1>1, <1>2, FreerAlone
<1>4. G \in AllGroups /\ ai \in G /\ \A b \in G : ~(refs[b] > 0)
  BY <1>2, <1>3 DEF AllGroups, Group
<1>5. AllGroups' = AllGroups
  BY <1>1, RootsSame, GroupsSame
<1>6. Groups!Reclaim(G, ai)
  BY <1>1, <1>2, <1>4, <1>5 DEF Groups!Reclaim, Groups!Referenced, AllGroups
<1> QED BY <1>4, <1>6

LEMMA NextImplements ==
    ASSUME FuseInv, Next
    PROVE  Groups!Next \/ UNCHANGED Groups!vars
<1>0. OrderInv /\ GroupInv
  BY DEF FuseInv
<1>1. OrderStep
  BY <1>0, NextOrdered
<1>2. PICK t \in Thread : Start(t) \/ Step(t)
  BY DEF Next
<1>3. ASSUME Root' = Root, UNCHANGED <<refs, freed>> PROVE UNCHANGED Groups!vars
  BY <1>3, GroupsSame DEF AllGroups, Groups!vars
<1>4. CASE \E a \in Arena : StartFree(t, a)
  BY <1>4, StartFreeImplements DEF Groups!Next
<1>5. CASE IncRefCAS(t)
  <2>1. CASE refs' = refs
    BY <1>0, <1>1, <1>3, <1>5, <2>1, CountExchanges
  <2>2. CASE refs' # refs
    BY <1>1, <1>5, <2>2, IncRefImplements DEF Groups!Next
  <2> QED BY <2>1, <2>2
<1>6. CASE DoFuseReparent(t)
  <2>1. CASE UNCHANGED parent_or_count
    <3>1. UNCHANGED <<refs, freed>>
      BY <1>6 DEF DoFuseReparent
    <3> QED BY <1>3, <2>1, <3>1, RootsSame
  <2>2. CASE parent_or_count' # parent_or_count
    <3>1. \E G, H \in AllGroups : Groups!Fuse(G, H)
      BY <1>1, <1>6, <2>2, ReparentFuses
    <3> QED BY <3>1 DEF Groups!Next, AllGroups
  <2> QED BY <2>1, <2>2
<1>7. CASE DoFree(t)
  <2>1. \E G \in AllGroups : \E a \in G : Groups!Reclaim(G, a)
    BY <1>7, DoFreeImplements
  <2> QED BY <2>1 DEF Groups!Next, AllGroups
<1>8. CASE ~IncRefCAS(t) /\ ~DoFuseReparent(t) /\ ~DoFree(t) /\ \A a \in Arena : ~StartFree(t, a)
  BY <1>0, <1>1, <1>2, <1>3, <1>8, HiddenSteps
<1> QED BY <1>4, <1>5, <1>6, <1>7, <1>8

\* The lock-free algorithm implements the atomic promise of arena.h, for every
\* number of arenas and threads: fuses, references and frees happen at once, and
\* memory goes back only when the whole group is unreferenced.
THEOREM FuseImplementsGroups == Spec => ImplementsGroups
<1>1. Init => Groups!Init
  <2> SUFFICES ASSUME Init PROVE Groups!Init
    OBVIOUS
  <2>1. \A a \in Arena : IsTaggedRefcount(parent_or_count[a])
    BY TagOfWord DEF Init
  <2>2. \A a \in Arena : Root[a] = a
    BY <2>1, InitOrdered, RootsNow
  <2>3. \A a \in Arena : Group(a) = {a}
    BY <2>2 DEF Group
  <2>4. refs \in [Arena -> Nat \ {0}] /\ freed = {}
    BY RefsAssumption DEF Init
  <2> QED BY <2>3, <2>4 DEF Groups!Init
<1>2. FuseInv /\ [Next]_vars => [Groups!Next]_(Groups!vars)
  <2> SUFFICES ASSUME FuseInv, [Next]_vars PROVE [Groups!Next]_(Groups!vars)
    OBVIOUS
  <2>1. CASE Next
    BY <2>1, NextImplements
  <2>2. CASE UNCHANGED vars
    <3>1. UNCHANGED <<parent_or_count, refs, freed>>
      BY <2>2 DEF vars, memory
    <3> QED BY <3>1, RootsSame, GroupsSame DEF AllGroups, Groups!vars
  <2> QED BY <2>1, <2>2
<1> QED BY <1>1, <1>2, RefsInvariant, PTL DEF Spec, ImplementsGroups, Groups!Spec

\* "No arenas that have been transitively fused together will be freed until all
\* of them have reached a zero refcount" (arena.h), at every step of the lock-free
\* algorithm, a DoFree half way along its list included: the groups are a
\* partition of the arenas, and one that has lost a member is unreferenced.
THEOREM PromiseKept == Spec => [](Groups!TypeOK /\ Groups!FreedUnreferenced)
<1>1. FuseInv => Groups!TypeOK /\ Groups!FreedUnreferenced
  <2> SUFFICES ASSUME FuseInv PROVE Groups!TypeOK /\ Groups!FreedUnreferenced
    OBVIOUS
  <2>1. refs \in [Arena -> Nat] /\ freed \subseteq Arena /\ FreedOK
    BY DEF FuseInv, OrderInv, TypeOK, RefInv, FreedInv
  <2>2. \A a \in Arena : a \in Group(a) /\ Group(a) \subseteq Arena
    BY DEF Group
  <2>3. ASSUME NEW a \in Arena, NEW b \in Arena, Group(a) # Group(b)
        PROVE  Group(a) \cap Group(b) = {}
    BY <2>3 DEF Group
  <2>4. Groups!TypeOK
    BY <2>1, <2>2, <2>3 DEF Groups!TypeOK
  <2>5. ASSUME NEW a \in Arena, NEW x \in Group(a), x \in freed, NEW b \in Group(a)
        PROVE  ~(refs[b] > 0)
    <3>1. b \in Arena /\ Root[b] = Root[x]
      BY DEF Group
    <3>2. refs[b] = 0
      BY <2>1, <2>5, <3>1 DEF FreedOK
    <3> QED BY <3>2
  <2>6. Groups!FreedUnreferenced
    BY <2>5 DEF Groups!FreedUnreferenced, Groups!Referenced
  <2> QED BY <2>4, <2>6
<1> QED BY <1>1, RefsInvariant, PTL

----------------------------------------------------------------------------
(***************************************************************************)
(* Groups as wholes: an arena that is no root is on a list, or about to be *)
(* appended to one, and a group is freed to the end of its list.           *)
(***************************************************************************)
Unlinked == Linking \ Linked
Joined ==
    \A x \in Arena : \/ Root[x] = x
                     \/ \E p \in Arena : next[p] = x
                     \/ \E t \in Thread : pc[t] \in Unlinked /\ Child(t) = x
FreedOn ==
    \A p \in freed : next[p] # NULL =>
        next[p] \in freed \/ \E t \in Thread : pc[t] = "do_free" /\ find[t].ai = next[p]
WholeInv == HeadInv /\ Joined /\ FreedOn

\* Only LinkForward sets next pointers.
LEMMA NextChanges ==
    ASSUME OrderInv, NEW t \in Thread, Start(t) \/ Step(t)
    PROVE  next' = next \/ LinkForwardCAS(t)
<1>1. CASE \/ Start(t) \/ Return(t)
           \/ FindRootLoad(t) \/ FindRootReload(t) \/ FindRootNext(t) \/ FindRootSplit(t)
           \/ DoFuseAddRefs(t) \/ FixupRefsLoad(t) \/ FixupRefsCAS(t)
           \/ IncRefCAS(t) \/ FreeLoad(t) \/ FreeCAS(t)
           \/ DoFree(t) \/ SpaceBackward(t) \/ SpaceForward(t)
  BY <1>1, StartQuiet, FindRootQuiet, CountQuiet, WalkQuiet DEF Quiet, lists
<1>2. CASE \/ DoFuseReparent(t) \/ LinkForwardStart(t) \/ LinkForwardWalk(t)
           \/ UpdateTailChild(t) \/ UpdateTailParent(t) \/ UpdateTailCAS(t) \/ LinkBackward(t)
  BY <1>2 DEF DoFuseReparent, LinkForwardStart, LinkForwardWalk, UpdateTailChild,
              UpdateTailParent, UpdateTailCAS, LinkBackward, memory, lists
<1> QED BY <1>1, <1>2 DEF Step

\* Where a thread is tells what it does.
LEMMA StepAt ==
    ASSUME OrderInv, NEW t \in Thread, Start(t) \/ Step(t)
    PROVE  /\ pc[t] = "do_free" => DoFree(t)
           /\ pc[t] \in Unlinked => LinkForwardStart(t) \/ LinkForwardWalk(t) \/ LinkForwardCAS(t)
<1> USE DEF At, Unlinked, Linking, Linked
<1>1. CASE \/ Start(t) \/ Return(t) \/ FindRootLoad(t) \/ FindRootReload(t) \/ FindRootNext(t)
           \/ FindRootSplit(t)
  BY <1>1 DEF Start, StartFuse, StartIsFused, StartIncRef, StartFree, StartSpaceAllocated, Return,
              FindRootLoad, FindRootReload, FindRootNext, FindRootSplit
<1>2. CASE \/ DoFuseAddRefs(t) \/ FixupRefsLoad(t) \/ FixupRefsCAS(t)
           \/ IncRefCAS(t) \/ FreeLoad(t) \/ FreeCAS(t) \/ SpaceBackward(t) \/ SpaceForward(t)
  BY <1>2 DEF DoFuseAddRefs, FixupRefsLoad, FixupRefsCAS, IncRefCAS, FreeLoad, FreeCAS,
              SpaceBackward, SpaceForward
<1>3. CASE \/ DoFuseReparent(t) \/ UpdateTailChild(t) \/ UpdateTailParent(t) \/ UpdateTailCAS(t)
           \/ LinkBackward(t)
  BY <1>3 DEF DoFuseReparent, UpdateTailChild, UpdateTailParent, UpdateTailCAS, LinkBackward
<1>4. CASE DoFree(t)
  BY <1>4 DEF DoFree
<1>5. CASE LinkForwardStart(t) \/ LinkForwardWalk(t) \/ LinkForwardCAS(t)
  BY <1>5 DEF LinkForwardStart, LinkForwardWalk, LinkForwardCAS
<1> QED BY <1>1, <1>2, <1>3, <1>4, <1>5 DEF Step

\* A thread that is about to link its child goes on to, or has linked it.
LEMMA ChildLinked ==
    ASSUME OrderInv, NEW t \in Thread, Start(t) \/ Step(t), pc[t] \in Unlinked
    PROVE  \/ pc'[t] \in Unlinked /\ Child(t)' = Child(t)
           \/ \E p \in Arena : next'[p] = Child(t)
<1>0. pc \in [Thread -> Label] /\ next \in [Arena -> MaybeArena] /\ FuseOrdered(t)
  BY DEF OrderInv, TypeOK
<1>1. CASE LinkForwardStart(t) \/ LinkForwardWalk(t)
  <2>1. fuse' = fuse /\ (pc' = pc \/ \E l \in {"link_next", "link_cas"} : pc' = [pc EXCEPT ![t] = l])
    BY <1>1 DEF LinkForwardStart, LinkForwardWalk, Goto
  <2> QED BY <1>0, <2>1 DEF Unlinked, Linking, Linked, Child
<1>2. CASE LinkForwardCAS(t)
  <2>1. CASE next[link[t].tail] # NULL
    <3>1. fuse' = fuse /\ pc' = [pc EXCEPT ![t] = "link_next"]
      BY <1>2, <2>1 DEF LinkForwardCAS, Goto
    <3> QED BY <1>0, <3>1 DEF Unlinked, Linking, Linked, Child
  <2>2. CASE next[link[t].tail] = NULL
    <3>1. next' = [next EXCEPT ![link[t].tail] = Child(t)] /\ pc[t] = "link_cas"
      BY <1>2, <2>2 DEF LinkForwardCAS, Child, At
    <3>2. link[t].tail \in Arena
      BY <1>0, <3>1 DEF FuseOrdered, Linking
    <3> QED BY <1>0, <3>1, <3>2
  <2> QED BY <2>1, <2>2
<1> QED BY <1>1, <1>2, StepAt

\* Only a reparented root stops being one.
LEMMA RootsEnd ==
    ASSUME OrderInv, GroupInv, NEW t \in Thread, Start(t) \/ Step(t), OrderStep,
           NEW x \in Arena, Root[x] = x, Root'[x] # x
    PROVE  pc'[t] \in Unlinked /\ Child(t)' = x
<1>1. CASE DoFuseReparent(t)
  <2>1. parent_or_count \in [Arena -> Word] /\ pc \in [Thread -> Label] /\ OrderInv'
    BY DEF OrderInv, TypeOK, OrderStep
  <2>2. IsTaggedRefcount(parent_or_count[x])
    BY RootsNow
  <2>3. ~IsTaggedRefcount(parent_or_count'[x])
    <3>1. Follows(Root', parent_or_count')
      BY <2>1, OrderedMemory, RootFollowsNext
    <3> QED BY <3>1 DEF Follows
  <2>4. /\ parent_or_count' = [parent_or_count EXCEPT
                  ![Child(t)] = TaggedFromPointer(fuse[t].r1.root)]
        /\ pc' = [pc EXCEPT ![t] = "link_tail"] /\ fuse' = fuse
    BY <1>1, <2>2, <2>3 DEF DoFuseReparent, Child, Goto
  <2>5. x = Child(t)
    BY <2>1, <2>2, <2>3, <2>4
  <2> QED BY <2>1, <2>4, <2>5 DEF Unlinked, Linking, Linked, Child
<1>2. CASE ~DoFuseReparent(t)
  <2>1. CASE IncRefCAS(t)
    BY <2>1, CountExchanges
  <2>2. CASE DoFree(t) \/ \E a \in Arena : StartFree(t, a)
    <3>1. UNCHANGED parent_or_count
      BY <2>2 DEF DoFree, StartFree, memory
    <3> QED BY <3>1, RootsSame
  <2> QED BY <1>2, <2>1, <2>2, HiddenSteps
<1> QED BY <1>1, <1>2

LEMMA NextJoined ==
    ASSUME OrderInv, ListInv, GroupInv, Joined, Next
    PROVE  Joined'
<1>1. PICK t \in Thread : Start(t) \/ Step(t)
  BY DEF Next
<1>2. OrderStep /\ LinksStay /\ OthersSame(t)
  BY <1>1, NextOrdered, NextLists, StartOthers, StepOthers DEF ListStep
<1> SUFFICES ASSUME NEW x \in Arena
             PROVE  \/ Root'[x] = x
                    \/ \E p \in Arena : next'[p] = x
                    \/ \E u \in Thread : pc'[u] \in Unlinked /\ Child(u)' = x
  BY DEF Joined
<1>3. CASE Root[x] = x
  BY <1>1, <1>2, <1>3, RootsEnd
<1>4. CASE \E p \in Arena : next[p] = x
  <2>1. x # NULL
    BY ArenaNat
  <2> QED BY <1>2, <1>4, <2>1 DEF LinksStay
<1>5. CASE \E u \in Thread : pc[u] \in Unlinked /\ Child(u) = x
  <2>1. PICK u \in Thread : pc[u] \in Unlinked /\ Child(u) = x
    BY <1>5
  <2>2. CASE u = t
    BY <1>1, <2>1, <2>2, ChildLinked
  <2>3. CASE u # t
    BY <1>2, <2>1, <2>3 DEF OthersSame, Child
  <2> QED BY <2>2, <2>3
<1> QED BY <1>3, <1>4, <1>5 DEF Joined

LEMMA NextFreedOn ==
    ASSUME FuseInv, FreedOn, Next
    PROVE  FreedOn'
<1>0. OrderInv /\ ListInv /\ GroupInv
  BY DEF FuseInv
<1>1. PICK t \in Thread : Start(t) \/ Step(t)
  BY DEF Next
<1>2. LinksStay /\ OthersSame(t)
  BY <1>0, <1>1, NextLists, StartOthers, StepOthers DEF ListStep
<1>3. CASE DoFree(t)
  <2> PICK ai : ai = find[t].ai
    OBVIOUS
  <2>0. pc \in [Thread -> Label] /\ find \in [Thread -> FindFrame]
    BY <1>0 DEF OrderInv, TypeOK
  <2>1. /\ freed' = freed \cup {ai} /\ next' = next /\ pc[t] = "do_free"
        /\ \/ next[ai] = NULL
           \/ next[ai] # NULL /\ find' = [find EXCEPT ![t].ai = next[ai]] /\ pc' = pc
    BY <1>3 DEF DoFree, WalkTo, At, lists
  <2>2. next[ai] # NULL => pc'[t] = "do_free" /\ find'[t].ai = next[ai]
    BY <2>0, <2>1 DEF FindFrame
  <2> SUFFICES ASSUME NEW p \in freed', next[p] # NULL, next[p] \notin freed'
               PROVE  \E u \in Thread : pc'[u] = "do_free" /\ find'[u].ai = next[p]
    BY <2>1 DEF FreedOn
  <2>3. CASE p = ai
    BY <2>2, <2>3
  <2>4. CASE p \in freed
    <3>1. PICK u \in Thread : pc[u] = "do_free" /\ find[u].ai = next[p]
      BY <2>1, <2>4 DEF FreedOn
    <3>2. u # t
      BY <2>1, <3>1
    <3> QED BY <1>2, <3>1, <3>2 DEF OthersSame
  <2> QED BY <2>1, <2>3, <2>4
<1>4. CASE ~DoFree(t)
  <2>1. freed' = freed
    <3>1. OrderStep
      BY <1>0, NextOrdered
    <3>2. CASE IncRefCAS(t)
      BY <1>0, <3>1, <3>2, CountExchanges
    <3>3. CASE DoFuseReparent(t) \/ \E a \in Arena : StartFree(t, a)
      BY <3>3 DEF DoFuseReparent, StartFree, memory
    <3> QED BY <1>0, <1>1, <1>4, <3>1, <3>2, <3>3, HiddenSteps
  <2> SUFFICES ASSUME NEW p \in freed, next'[p] # NULL, next'[p] \notin freed
               PROVE  \E u \in Thread : pc'[u] = "do_free" /\ find'[u].ai = next'[p]
    BY <2>1 DEF FreedOn
  <2>2. p \in Arena
    BY <1>0 DEF OrderInv, TypeOK
  <2>3. next[p] # NULL
    <3> SUFFICES ASSUME next[p] = NULL PROVE FALSE
      OBVIOUS
    <3>1. LinkForwardCAS(t)
      BY <1>0, <1>1, NextChanges
    <3>2. pc[t] = "link_cas" /\ (next' = [next EXCEPT ![link[t].tail] = fuse[t].r2.root] \/ next' = next)
      BY <3>1 DEF LinkForwardCAS, At
    <3>3. link[t].tail \notin freed
      BY <3>2, FuseTouches DEF FusingAt, Linking
    <3>4. next \in [Arena -> MaybeArena]
      BY <1>0 DEF OrderInv, TypeOK
    <3> QED BY <2>2, <3>2, <3>3, <3>4
  <2>4. next'[p] = next[p]
    BY <1>2, <2>2, <2>3 DEF LinksStay
  <2>5. PICK u \in Thread : pc[u] = "do_free" /\ find[u].ai = next[p]
    BY <2>3, <2>4 DEF FreedOn
  <2>6. u # t
    BY <1>0, <1>1, <1>4, <2>5, StepAt
  <2> QED BY <1>2, <2>4, <2>5, <2>6 DEF OthersSame
<1> QED BY <1>3, <1>4

\* The inductive invariant of whole groups.
LEMMA WholeInvariant == Spec => [](FuseInv /\ WholeInv)
<1>1. Init => Joined /\ FreedOn
  <2> SUFFICES ASSUME Init PROVE Joined /\ FreedOn
    OBVIOUS
  <2>1. \A a \in Arena : IsTaggedRefcount(parent_or_count[a])
    BY TagOfWord DEF Init
  <2>2. \A a \in Arena : Root[a] = a
    BY <2>1, InitOrdered, RootsNow
  <2> QED BY <2>2 DEF Init, Joined, FreedOn
<1>2. FuseInv /\ WholeInv /\ [Next]_vars => Joined' /\ FreedOn'
  <2> SUFFICES ASSUME FuseInv, WholeInv, [Next]_vars PROVE Joined' /\ FreedOn'
    OBVIOUS
  <2>1. CASE Next
    BY <2>1, NextJoined, NextFreedOn DEF FuseInv, WholeInv
  <2>2. CASE UNCHANGED vars
    <3>1. UNCHANGED <<parent_or_count, next, freed, pc, find, fuse>>
      BY <2>2 DEF vars, memory
    <3>2. Root' = Root
      BY <3>1, RootsSame
    <3> QED BY <3>1, <3>2 DEF WholeInv, Joined, FreedOn, Child
  <2> QED BY <2>1, <2>2
<1> QED BY <1>1, <1>2, RefsInvariant, ListsHaveEnds, PTL DEF Spec, WholeInv

\* While no call runs, what is closed along the list of a root holds its group.
LEMMA GroupOnList ==
    ASSUME FuseInv, WholeInv, \A t \in Thread : pc[t] = "idle", NEW a \in Arena,
           NEW S \in SUBSET Arena, Root[a] \in S, NextClosed(next, S)
    PROVE  Group(a) \subseteq S
<1>0. OrderInv /\ ListGroupInv /\ Acyclic(next) /\ Joined
  BY DEF FuseInv, WholeInv, HeadInv
<1> DEFINE T == Group(a) \ S
<1>1. ASSUME NEW x \in T PROVE \E p \in T : next[p] = x
  <2>1. x \in Arena /\ Root[x] = Root[a] /\ Root[x] # x /\ x # NULL
    BY ArenaNat DEF Group
  <2>2. PICK p \in Arena : next[p] = x
    BY <1>0, <2>1 DEF Joined, Unlinked, Linking, Linked
  <2>3. Root[p] = Root[x]
    BY <1>0, <2>1, <2>2 DEF ListGroupInv, LinksInGroup
  <2>4. p \notin S
    BY <2>1, <2>2 DEF NextClosed
  <2> QED BY <2>1, <2>2, <2>3, <2>4 DEF Group
<1>2. T \in SUBSET Arena
  BY DEF Group
<1>3. T = {}
  <2> HIDE DEF T
  <2> QED BY <1>0, <1>1, <1>2 DEF Acyclic
<1> QED BY <1>3

\* Arenas fused together are freed together, as soon as the last reference on
\* any of them is given up, and not before: DoFree's walk along the list of the
\* root misses none.
THEOREM GroupsFreedTogether == Spec => []FreedTogether
<1>1. FuseInv /\ WholeInv => FreedTogether
  <2> SUFFICES ASSUME FuseInv, WholeInv, \A t \in Thread : pc[t] = "idle", NEW a \in Arena
               PROVE  a \in freed <=> RefsOn(Group(a)) = 0
    BY DEF FreedTogether
  <2>0. /\ OrderInv /\ CountInv /\ FreedOK /\ FreedOn /\ freed \in SUBSET Arena
        /\ refs \in [Arena -> Nat] /\ Group(a) \in SUBSET Arena
    BY DEF FuseInv, RefInv, FreedInv, WholeInv, OrderInv, TypeOK, Group
  <2>1. ASSUME a \in freed PROVE RefsOn(Group(a)) = 0
    <3>1. \A b \in Group(a) : refs[b] = 0
      BY <2>0, <2>1 DEF FreedOK, Group
    <3> QED BY <2>0, <3>1, RefsOnIs, TotalZero, FiniteArenas
  <2>2. ASSUME RefsOn(Group(a)) = 0 PROVE a \in freed
    <3> PICK r : r = Root[a]
      OBVIOUS
    <3>1. /\ r \in Arena /\ Root[r] = r /\ IsTaggedRefcount(parent_or_count[r])
          /\ Group(r) = Group(a)
      BY <2>0, RootsNow DEF Group
    <3>2. r \in freed
      <4> SUFFICES ASSUME r \notin freed PROVE FALSE
        OBVIOUS
      <4>1. parent_or_count[r].val = Balance(Group(a)) /\ parent_or_count[r].val >= 1
        BY <2>0, <3>1 DEF CountInv, Conserved, CountsPositive
      <4>2. Balance(Group(a)) = 0
        <5>1. Total(refs, Group(a)) = 0
          BY <2>0, <2>2, RefsOnIs
        <5>2. ReleasingIn(Group(a)) = {} /\ Cardinality({}) = 0
          BY FS_EmptySet DEF ReleasingIn, Freeing
        <5>3. ASSUME NEW t \in Thread PROVE OwedBy(Group(a))[t] = 0
          <6>1. \A b \in Arena : owed[t][b] = 0
            BY <2>0 DEF CountInv, TallyOK, Debts
          <6>2. Total(owed[t], Group(a)) = 0
            BY <2>0, <6>1, TotalZero, FiniteArenas
          <6> QED BY <6>2 DEF OwedBy
        <5>4. Total(OwedBy(Group(a)), Thread) = 0
          BY <5>3, TotalZero, FiniteArenas
        <5> QED BY <5>1, <5>2, <5>4 DEF Balance
      <4> QED BY <4>1, <4>2
    <3>3. NextClosed(next, freed)
      BY <2>0 DEF FreedOn, NextClosed
    <3>4. Group(a) \subseteq freed
      BY <2>0, <3>2, <3>3, GroupOnList
    <3> QED BY <3>4 DEF Group
  <2> QED BY <2>1, <2>2
<1> QED BY <1>1, WholeInvariant, PTL

----------------------------------------------------------------------------
(***************************************************************************)
(* The walks of the specification.  s[b] is the set of arenas one step on  *)
(* from b, f[n] what n steps from a reach.  Size steps reach everything.   *)
(***************************************************************************)
Size == Cardinality(Arena)
StepsTo(f, a, s, k) ==
    f = [n \in 0..k |-> IF n = 0 THEN {a} ELSE f[n - 1] \cup UNION {s[b] : b \in f[n - 1]}]
StepClosed(s, S) == \A b \in S : s[b] \subseteq S

LEMMA SizeNat == Size \in Nat
BY FiniteArenas, FS_CardinalityType DEF Size

LEMMA StepsExist ==
    ASSUME NEW s, NEW a
    PROVE  \A k \in Nat : \E f : StepsTo(f, a, s, k)
<1> DEFINE Q == {k \in Nat : \E f : StepsTo(f, a, s, k)}
<1>1. 0 \in Q
  <2> DEFINE f == [n \in 0..0 |-> {a}]
  <2>1. \A n \in 0..0 : n = 0
    OBVIOUS
  <2>2. StepsTo(f, a, s, 0)
    BY <2>1 DEF StepsTo
  <2> QED BY <2>2
<1>2. ASSUME NEW k \in Nat, k \in Q PROVE k + 1 \in Q
  <2>1. PICK f : StepsTo(f, a, s, k)
    BY <1>2
  <2> DEFINE g == [n \in 0..(k + 1) |-> IF n = 0 THEN {a}
                                        ELSE f[n - 1] \cup UNION {s[b] : b \in f[n - 1]}]
  <2>2. \A n \in 0..k : n \in 0..(k + 1) /\ g[n] = f[n]
    <3> SUFFICES ASSUME NEW n \in 0..k PROVE n \in 0..(k + 1) /\ g[n] = f[n]
      OBVIOUS
    <3>1. n \in 0..(k + 1)
      OBVIOUS
    <3>2. f[n] = IF n = 0 THEN {a} ELSE f[n - 1] \cup UNION {s[b] : b \in f[n - 1]}
      BY <2>1, Zenon DEF StepsTo
    <3>3. g[n] = IF n = 0 THEN {a} ELSE f[n - 1] \cup UNION {s[b] : b \in f[n - 1]}
      BY <3>1, Zenon
    <3> QED BY <3>1, <3>2, <3>3, Zenon
  <2>3. \A n \in 0..(k + 1) : n # 0 => g[n - 1] = f[n - 1]
    <3> SUFFICES ASSUME NEW n \in 0..(k + 1), n # 0 PROVE g[n - 1] = f[n - 1]
      OBVIOUS
    <3>1. n - 1 \in 0..k
      OBVIOUS
    <3> QED BY <2>2, <3>1
  <2>4. g = [n \in 0..(k + 1) |-> IF n = 0 THEN {a}
                                  ELSE g[n - 1] \cup UNION {s[b] : b \in g[n - 1]}]
    BY <2>3
  <2> HIDE DEF g
  <2>5. StepsTo(g, a, s, k + 1)
    BY <2>4 DEF StepsTo
  <2> QED BY <2>5
<1> HIDE DEF Q
<1>3. \A k \in Nat : k \in Q
  BY <1>1, <1>2, SetInduction
<1> QED BY <1>3 DEF Q

LEMMA StepsEquation ==
    ASSUME NEW f, NEW a, NEW s, StepsTo(f, a, s, Size)
    PROVE  /\ f[0] = {a}
           /\ \A n \in Nat : n + 1 <= Size => f[n + 1] = f[n] \cup UNION {s[b] : b \in f[n]}
<1>1. f = [n \in 0..Size |-> IF n = 0 THEN {a} ELSE f[n - 1] \cup UNION {s[b] : b \in f[n - 1]}]
  BY DEF StepsTo
<1>2. 0 \in 0..Size
  BY SizeNat
<1>3. ASSUME NEW n \in Nat, n + 1 <= Size
      PROVE  f[n + 1] = f[n] \cup UNION {s[b] : b \in f[n]}
  <2>1. n + 1 \in 0..Size /\ n + 1 # 0 /\ (n + 1) - 1 = n
    BY <1>3, SizeNat
  <2> QED BY <1>1, <2>1
<1> QED BY <1>1, <1>2, <1>3

\* A walk stays in every set that its start is in and its steps do not leave.
LEMMA StepsInside ==
    ASSUME NEW f, NEW a, NEW s, StepsTo(f, a, s, Size), NEW S, a \in S, StepClosed(s, S)
    PROVE  \A n \in Nat : n <= Size => f[n] \subseteq S
<1> DEFINE Q == {n \in Nat : n <= Size => f[n] \subseteq S}
<1>1. 0 \in Q
  BY StepsEquation
<1>2. ASSUME NEW n \in Nat, n \in Q PROVE n + 1 \in Q
  <2> SUFFICES ASSUME n + 1 <= Size PROVE f[n + 1] \subseteq S
    OBVIOUS
  <2>1. f[n] \subseteq S
    BY <1>2, SizeNat
  <2>2. f[n + 1] = f[n] \cup UNION {s[b] : b \in f[n]}
    BY StepsEquation
  <2> QED BY <2>1, <2>2 DEF StepClosed
<1> HIDE DEF Q
<1>3. \A n \in Nat : n \in Q
  BY <1>1, <1>2, SetInduction
<1> QED BY <1>3 DEF Q

\* A walk that is not complete after n steps has met more than n arenas.
LEMMA StepsGrow ==
    ASSUME NEW f, NEW a \in Arena, NEW s \in [Arena -> SUBSET Arena], StepsTo(f, a, s, Size)
    PROVE  \A n \in Nat : n <= Size =>
               /\ f[n] \subseteq Arena /\ a \in f[n]
               /\ StepClosed(s, f[n]) \/ n + 1 <= Cardinality(f[n])
<1>0. \A n \in Nat : n <= Size => f[n] \subseteq Arena
  <2>1. StepClosed(s, Arena)
    BY DEF StepClosed
  <2> QED BY <2>1, StepsInside
<1> DEFINE P(n) == a \in f[n] /\ (StepClosed(s, f[n]) \/ n + 1 <= Cardinality(f[n]))
           Q == {n \in Nat : n <= Size => P(n)}
<1>1. 0 \in Q
  <2>1. f[0] = {a} /\ Cardinality({a}) = 1
    BY StepsEquation, FS_Singleton
  <2> QED BY <2>1
<1>2. ASSUME NEW n \in Nat, n \in Q PROVE n + 1 \in Q
  <2> SUFFICES ASSUME n + 1 <= Size PROVE P(n + 1)
    OBVIOUS
  <2>1. P(n) /\ f[n] \subseteq Arena /\ f[n + 1] \subseteq Arena
    BY <1>0, <1>2, SizeNat
  <2>2. f[n + 1] = f[n] \cup UNION {s[b] : b \in f[n]}
    BY StepsEquation
  <2>3. CASE StepClosed(s, f[n])
    <3>1. f[n + 1] = f[n]
      BY <2>2, <2>3 DEF StepClosed
    <3> QED BY <2>1, <2>3, <3>1
  <2>4. CASE ~StepClosed(s, f[n])
    <3>1. PICK y : y \in f[n + 1] /\ y \notin f[n]
      BY <2>2, <2>4 DEF StepClosed
    <3>2. IsFiniteSet(f[n]) /\ IsFiniteSet(f[n + 1])
      BY <2>1, FiniteArenas
    <3>3. Cardinality(f[n] \cup {y}) = Cardinality(f[n]) + 1 /\ Cardinality(f[n]) \in Nat
      BY <3>1, <3>2, FS_AddElement, FS_CardinalityType
    <3>4. Cardinality(f[n] \cup {y}) <= Cardinality(f[n + 1]) /\ Cardinality(f[n + 1]) \in Nat
      <4>1. f[n] \cup {y} \subseteq f[n + 1]
        BY <2>2, <3>1
      <4> QED BY <3>2, <4>1, FS_Subset, FS_CardinalityType
    <3>5. n + 1 <= Cardinality(f[n])
      BY <2>1, <2>4
    <3>6. n + 1 + 1 <= Cardinality(f[n + 1])
      BY <3>3, <3>4, <3>5
    <3> QED BY <2>1, <2>2, <3>6
  <2> QED BY <2>3, <2>4
<1> HIDE DEF P, Q
<1>3. \A n \in Nat : n \in Q
  BY <1>1, <1>2, SetInduction
<1>4. \A n \in Nat : n <= Size => P(n)
  BY <1>3 DEF Q
<1> QED BY <1>0, <1>4 DEF P

\* As many steps as there are arenas complete a walk.
LEMMA StepsComplete ==
    ASSUME NEW f, NEW a \in Arena, NEW s \in [Arena -> SUBSET Arena], StepsTo(f, a, s, Size)
    PROVE  /\ f[Size] \subseteq Arena /\ a \in f[Size] /\ StepClosed(s, f[Size])
           /\ \A S : a \in S /\ StepClosed(s, S) => f[Size] \subseteq S
<1>1. f[Size] \subseteq Arena /\ a \in f[Size]
      /\ (StepClosed(s, f[Size]) \/ Size + 1 <= Cardinality(f[Size]))
  BY SizeNat, StepsGrow
<1>2. Cardinality(f[Size]) <= Size /\ Cardinality(f[Size]) \in Nat
  BY <1>1, FiniteArenas, FS_Subset, FS_CardinalityType DEF Size
<1>3. StepClosed(s, f[Size])
  BY <1>1, <1>2, SizeNat
<1> QED BY <1>1, <1>3, SizeNat, StepsInside

\* One step forward and one step backward along a list.
Forward == [b \in Arena |-> {next[b]} \ {NULL}]
Backward == [b \in Arena |-> IF IsTaggedTail(previous_or_tail[b]) THEN {}
                             ELSE {previous_or_tail[b].val}]

LEMMA ForwardTyped == OrderInv => Forward \in [Arena -> SUBSET Arena]
<1> SUFFICES ASSUME OrderInv, NEW b \in Arena PROVE {next[b]} \ {NULL} \in SUBSET Arena
  BY DEF Forward
<1>1. next[b] \in MaybeArena
  BY DEF OrderInv, TypeOK
<1> QED BY <1>1, ArenaMaybe

LEMMA BackwardTyped == OrderInv => Backward \in [Arena -> SUBSET Arena]
<1> SUFFICES ASSUME OrderInv, NEW b \in Arena PROVE previous_or_tail[b].val \in Arena
  BY DEF Backward
<1> QED BY ListWordTyped DEF OrderInv, TypeOK

LEMMA ListFromWalks ==
    ASSUME OrderInv, NEW a \in Arena
    PROVE  \E f : StepsTo(f, a, Forward, Size) /\ ListFrom(a) = f[Size]
<1>0. Forward \in [Arena -> SUBSET Arena]
  BY ForwardTyped
<1>1. PICK f : StepsTo(f, a, Forward, Size)
  BY SizeNat, StepsExist
<1> DEFINE E(h) == [n \in 0..Size |-> IF n = 0 THEN {a}
                       ELSE h[n - 1] \cup UNION {{next[b]} \ {NULL} : b \in h[n - 1]}]
           g == CHOOSE h : h = E(h)
<1>2. \A X \in SUBSET Arena : UNION {Forward[b] : b \in X} = UNION {{next[b]} \ {NULL} : b \in X}
  <2> SUFFICES ASSUME NEW X \in SUBSET Arena
               PROVE  \A b \in X : Forward[b] = {next[b]} \ {NULL}
    OBVIOUS
  <2> QED BY DEF Forward
<1>3. f = E(f)
  <2>1. ASSUME NEW n \in 0..Size
        PROVE  f[n] = IF n = 0 THEN {a} ELSE f[n - 1] \cup UNION {{next[b]} \ {NULL} : b \in f[n - 1]}
    <3>1. CASE n = 0
      BY <1>1, <3>1, StepsEquation
    <3>2. CASE n # 0
      <4>1. n - 1 \in Nat /\ (n - 1) + 1 <= Size /\ (n - 1) + 1 = n /\ n - 1 <= Size
        BY <3>2, SizeNat
      <4>2. f[n] = f[n - 1] \cup UNION {Forward[b] : b \in f[n - 1]}
        BY <1>1, <4>1, StepsEquation
      <4>3. f[n - 1] \in SUBSET Arena
        BY <1>0, <1>1, <4>1, StepsGrow
      <4> QED BY <1>2, <3>2, <4>2, <4>3
    <3> QED BY <3>1, <3>2
  <2>2. f = [n \in 0..Size |-> f[n]]
    BY <1>1 DEF StepsTo
  <2> QED BY <2>1, <2>2, Zenon
<1>4. g = E(g)
  BY <1>3
<1>5. ListFrom(a) = g[Size]
  BY DEF ListFrom, Walk, Size
<1> HIDE DEF g
<1>6. \A n \in Nat : n <= Size => g[n] = f[n]
  <2> DEFINE Q == {n \in Nat : n <= Size => g[n] = f[n]}
  <2>1. 0 \in Q
    <3>1. 0 \in 0..Size
      BY SizeNat
    <3>2. g[0] = {a} /\ f[0] = {a}
      BY <1>3, <1>4, <3>1
    <3> QED BY <3>2
  <2>2. ASSUME NEW n \in Nat, n \in Q PROVE n + 1 \in Q
    <3> SUFFICES ASSUME n + 1 <= Size PROVE g[n + 1] = f[n + 1]
      OBVIOUS
    <3>1. n + 1 \in 0..Size /\ n + 1 # 0 /\ (n + 1) - 1 = n /\ n <= Size
      BY SizeNat
    <3>2. g[n + 1] = g[n] \cup UNION {{next[b]} \ {NULL} : b \in g[n]}
      BY <1>4, <3>1
    <3>3. f[n + 1] = f[n] \cup UNION {{next[b]} \ {NULL} : b \in f[n]}
      BY <1>3, <3>1
    <3> QED BY <2>2, <3>1, <3>2, <3>3
  <2> HIDE DEF Q
  <2>3. \A n \in Nat : n \in Q
    BY <2>1, <2>2, SetInduction
  <2> QED BY <2>3 DEF Q
<1> QED BY <1>1, <1>5, <1>6, SizeNat

LEMMA ListBeforeWalks ==
    ASSUME OrderInv, NEW a \in Arena
    PROVE  \E f : StepsTo(f, a, Backward, Size) /\ ListBefore(a) = f[Size]
<1>0. Backward \in [Arena -> SUBSET Arena]
  BY BackwardTyped
<1>1. PICK f : StepsTo(f, a, Backward, Size)
  BY SizeNat, StepsExist
<1> DEFINE prev(b) == IF IsTaggedTail(previous_or_tail[b]) THEN {}
                      ELSE {previous_or_tail[b].val}
           E(h) == [n \in 0..Size |-> IF n = 0 THEN {a}
                       ELSE h[n - 1] \cup UNION {prev(b) : b \in h[n - 1]}]
           g == CHOOSE h : h = E(h)
<1>2. \A X \in SUBSET Arena : UNION {Backward[b] : b \in X} = UNION {prev(b) : b \in X}
  <2> SUFFICES ASSUME NEW X \in SUBSET Arena
               PROVE  \A b \in X : Backward[b] = prev(b)
    OBVIOUS
  <2> QED BY DEF Backward
<1>3. f = E(f)
  <2>1. ASSUME NEW n \in 0..Size
        PROVE  f[n] = IF n = 0 THEN {a} ELSE f[n - 1] \cup UNION {prev(b) : b \in f[n - 1]}
    <3>1. CASE n = 0
      BY <1>1, <3>1, StepsEquation
    <3>2. CASE n # 0
      <4>1. n - 1 \in Nat /\ (n - 1) + 1 <= Size /\ (n - 1) + 1 = n /\ n - 1 <= Size
        BY <3>2, SizeNat
      <4>2. f[n] = f[n - 1] \cup UNION {Backward[b] : b \in f[n - 1]}
        BY <1>1, <4>1, StepsEquation
      <4>3. f[n - 1] \in SUBSET Arena
        BY <1>0, <1>1, <4>1, StepsGrow
      <4> QED BY <1>2, <3>2, <4>2, <4>3
    <3> QED BY <3>1, <3>2
  <2>2. f = [n \in 0..Size |-> f[n]]
    BY <1>1 DEF StepsTo
  <2> QED BY <2>1, <2>2, Zenon
<1>4. g = E(g)
  BY <1>3
<1>5. ListBefore(a) = g[Size]
  BY DEF ListBefore, Walk, Size
<1> HIDE DEF g
<1>6. \A n \in Nat : n <= Size => g[n] = f[n]
  <2> DEFINE Q == {n \in Nat : n <= Size => g[n] = f[n]}
  <2>1. 0 \in Q
    <3>1. 0 \in 0..Size
      BY SizeNat
    <3>2. g[0] = {a} /\ f[0] = {a}
      BY <1>3, <1>4, <3>1
    <3> QED BY <3>2
  <2>2. ASSUME NEW n \in Nat, n \in Q PROVE n + 1 \in Q
    <3> SUFFICES ASSUME n + 1 <= Size PROVE g[n + 1] = f[n + 1]
      OBVIOUS
    <3>1. n + 1 \in 0..Size /\ n + 1 # 0 /\ (n + 1) - 1 = n /\ n <= Size
      BY SizeNat
    <3>2. g[n + 1] = g[n] \cup UNION {prev(b) : b \in g[n]}
      BY <1>4, <3>1
    <3>3. f[n + 1] = f[n] \cup UNION {prev(b) : b \in f[n]}
      BY <1>3, <3>1
    <3> QED BY <2>2, <3>1, <3>2, <3>3
  <2> HIDE DEF Q
  <2>3. \A n \in Nat : n \in Q
    BY <2>1, <2>2, SetInduction
  <2> QED BY <2>3 DEF Q
<1> QED BY <1>1, <1>5, <1>6, SizeNat

LEMMA ForwardClosed == \A S \in SUBSET Arena : StepClosed(Forward, S) <=> NextClosed(next, S)
BY DEF StepClosed, Forward, NextClosed

\* ListFrom(a) is what next pointers reach from a.
LEMMA ListFromIs ==
    ASSUME OrderInv, NEW a \in Arena
    PROVE  /\ ListFrom(a) \subseteq Arena /\ a \in ListFrom(a) /\ NextClosed(next, ListFrom(a))
           /\ \A S \in SUBSET Arena : a \in S /\ NextClosed(next, S) => ListFrom(a) \subseteq S
<1>1. PICK f : StepsTo(f, a, Forward, Size) /\ ListFrom(a) = f[Size]
  BY ListFromWalks
<1>2. /\ f[Size] \subseteq Arena /\ a \in f[Size] /\ StepClosed(Forward, f[Size])
      /\ \A S : a \in S /\ StepClosed(Forward, S) => f[Size] \subseteq S
  BY <1>1, ForwardTyped, StepsComplete
<1> QED BY <1>1, <1>2, ForwardClosed

\* A cached tail, however stale, is a node of the list of the arena that caches
\* it; and the list of a root holds exactly its group whenever no call runs, in
\* whatever order the fuses that built it linked their lists.
THEOREM ListsAreSound == Spec => []ListsSound
<1>1. FuseInv /\ WholeInv => ListsSound
  <2> SUFFICES ASSUME FuseInv, WholeInv PROVE ListsSound
    OBVIOUS
  <2>0. OrderInv /\ ListGroupInv /\ TailsInv
    BY DEF FuseInv, WholeInv, HeadInv
  <2>1. ASSUME NEW a \in Arena, IsTaggedTail(previous_or_tail[a])
        PROVE  previous_or_tail[a].val \in ListFrom(a)
    <3>1. Reaches(next, a, previous_or_tail[a].val)
      BY <2>0, <2>1 DEF TailsInv, TailReached
    <3> QED BY <2>0, <3>1, ListFromIs DEF Reaches
  <2>2. ASSUME \A t \in Thread : pc[t] = "idle", NEW a \in Arena
        PROVE  ListFrom(Root[a]) = Group(a)
    <3> PICK r : r = Root[a]
      OBVIOUS
    <3>1. r \in Arena /\ Root[r] = r
      BY <2>0, RootsNow
    <3>2. /\ ListFrom(r) \in SUBSET Arena /\ r \in ListFrom(r) /\ NextClosed(next, ListFrom(r))
          /\ \A S \in SUBSET Arena : r \in S /\ NextClosed(next, S) => ListFrom(r) \subseteq S
      BY <2>0, <3>1, ListFromIs
    <3>3. Group(a) \subseteq ListFrom(r)
      BY <2>2, <3>2, GroupOnList
    <3>4. Group(a) \in SUBSET Arena /\ r \in Group(a)
      BY <3>1 DEF Group
    <3>5. NextClosed(next, Group(a))
      <4> SUFFICES ASSUME NEW b \in Group(a), next[b] # NULL PROVE next[b] \in Group(a)
        BY DEF NextClosed
      <4>1. b \in Arena /\ Root[b] = Root[a]
        BY DEF Group
      <4>2. next[b] \in Arena
        BY <2>0, <4>1, ArenaMaybe DEF OrderInv, TypeOK
      <4> QED BY <2>0, <4>1, <4>2 DEF ListGroupInv, LinksInGroup, Group
    <3> QED BY <3>2, <3>3, <3>4, <3>5
  <2> QED BY <2>1, <2>2 DEF ListsSound
<1> QED BY <1>1, WholeInvariant, PTL

----------------------------------------------------------------------------
(***************************************************************************)
(* What upb_Arena_SpaceAllocated counts.  It walks from a backward to the  *)
(* arena ai, counting those between, and then forward from a, while others *)
(* append to the list and set previous pointers.                           *)
(***************************************************************************)
PreviousClosed(w, T) == \A x \in T : IsTaggedTail(w[x]) \/ w[x].val \in T

\* Going backward: a chain of previous pointers leads from a to ai, and what
\* was visible is still to be met in one of the two directions.
Behind(n, w, a, ai, s) ==
    /\ Reaches(n, ai, a)
    /\ \A x \in s.counted : Reaches(n, ai, x) /\ Reaches(n, x, a) /\ x # a
    /\ \A x \in s.counted \cup {a} : x = ai \/ (~IsTaggedTail(w[x]) /\ w[x].val \in s.counted)
    /\ \A S, T \in SUBSET Arena :
           a \in S /\ NextClosed(n, S) /\ a \in T /\ PreviousClosed(w, T) =>
               s.visible \subseteq S \cup T

\* Going forward: what is counted lies before ai, and what was visible is
\* counted or still to be met.
Ahead(n, ai, s) ==
    /\ \A x \in s.counted : Reaches(n, x, ai) /\ x # ai
    /\ \A S \in SUBSET Arena : ai \in S /\ NextClosed(n, S) =>
           s.visible \subseteq S \cup s.counted

SpaceOK(t) ==
    LET s == space[t]
        a == call[t].a
    IN  /\ call[t].op # "space" => s = NoSpace
        /\ call[t].op = "space" =>
              /\ pc[t] \in {"space_backward", "space_forward", "return"}
              /\ a \in Arena
              /\ s.fused_count = Cardinality(s.counted)
              /\ \A x \in s.counted : Root[x] = Root[a]
              /\ pc[t] = "space_backward" => Behind(next, previous_or_tail, a, find[t].ai, s)
              /\ pc[t] = "space_forward" => Ahead(next, find[t].ai, s)
              /\ pc[t] = "return" => s.visible \subseteq s.counted
SpaceInv == \A t \in Thread : SpaceOK(t)

\* ListBefore(a) is what previous pointers reach from a.
LEMMA ListBeforeIs ==
    ASSUME OrderInv, NEW a \in Arena, NEW T \in SUBSET Arena, a \in T,
           PreviousClosed(previous_or_tail, T)
    PROVE  ListBefore(a) \subseteq T
<1>1. PICK f : StepsTo(f, a, Backward, Size) /\ ListBefore(a) = f[Size]
  BY ListBeforeWalks
<1>2. StepClosed(Backward, T)
  BY DEF StepClosed, Backward, PreviousClosed
<1> QED BY <1>1, <1>2, BackwardTyped, StepsComplete

\* A list does not lead back to the predecessor of its first arena.
LEMMA NoReturn ==
    ASSUME NEW n \in [Arena -> MaybeArena], Acyclic(n), NEW x \in Arena, NEW y \in Arena,
           n[y] = x
    PROVE  ~Reaches(n, x, y)
<1> SUFFICES ASSUME Reaches(n, x, y) PROVE FALSE
  OBVIOUS
<1> DEFINE S == {z \in Arena : Reaches(n, x, z) /\ Reaches(n, z, y)}
<1>1. y \in S
  BY ReachSelf
<1>2. PICK z \in S : \A p \in S : n[p] # z
  BY <1>1 DEF Acyclic
<1>3. z # x
  BY <1>1, <1>2
<1>4. PICK p \in Arena : Reaches(n, x, p) /\ n[p] = z
  <2> SUFFICES ASSUME \A p \in Arena : Reaches(n, x, p) => n[p] # z PROVE FALSE
    OBVIOUS
  <2> DEFINE Q == {q \in Arena : Reaches(n, x, q) /\ q # z}
  <2>1. x \in Q /\ Q \in SUBSET Arena
    BY <1>3, ReachSelf
  <2>2. NextClosed(n, Q)
    <3> SUFFICES ASSUME NEW q \in Q, n[q] # NULL PROVE n[q] \in Q
      BY DEF NextClosed
    <3>1. n[q] \in Arena
      BY ArenaMaybe
    <3>2. Reaches(n, x, n[q])
      BY ReachStep
    <3> QED BY <3>1, <3>2
  <2>3. z \in Q
    BY <1>2, <2>1, <2>2 DEF Reaches
  <2> QED BY <2>3
<1>5. Reaches(n, p, z)
  <2>1. z # NULL
    BY ArenaNat
  <2> QED BY <1>4, <2>1, ReachSelf, ReachStep
<1>6. Reaches(n, p, y)
  BY <1>2, <1>5, ReachOn
<1> QED BY <1>2, <1>4, <1>6

\* What the walks know stays true when lists grow.
LEMMA BehindStays ==
    ASSUME NEW n, NEW m, \A x \in Arena : n[x] # NULL => m[x] = n[x],
           NEW w, NEW v, \A x \in Arena : ~IsTaggedTail(w[x]) => v[x] = w[x],
           NEW a \in Arena, NEW ai, NEW s, s.counted \in SUBSET Arena, Behind(n, w, a, ai, s)
    PROVE  Behind(m, v, a, ai, s)
<1>1. Reaches(m, ai, a)
  BY ReachGrows DEF Behind
<1>2. \A x \in s.counted : Reaches(m, ai, x) /\ Reaches(m, x, a) /\ x # a
  BY ReachGrows DEF Behind
<1>3. \A x \in s.counted \cup {a} : x = ai \/ (~IsTaggedTail(v[x]) /\ v[x].val \in s.counted)
  BY DEF Behind
<1>4. ASSUME NEW S \in SUBSET Arena, NEW T \in SUBSET Arena,
             a \in S, NextClosed(m, S), a \in T, PreviousClosed(v, T)
      PROVE  s.visible \subseteq S \cup T
  <2>1. NextClosed(n, S)
    BY <1>4 DEF NextClosed
  <2>2. PreviousClosed(w, T)
    BY <1>4 DEF PreviousClosed
  <2> QED BY <1>4, <2>1, <2>2 DEF Behind
<1> QED BY <1>1, <1>2, <1>3, <1>4 DEF Behind

LEMMA AheadStays ==
    ASSUME NEW n, NEW m, \A x \in Arena : n[x] # NULL => m[x] = n[x],
           NEW ai, NEW s, Ahead(n, ai, s)
    PROVE  Ahead(m, ai, s)
<1>1. \A x \in s.counted : Reaches(m, x, ai) /\ x # ai
  BY ReachGrows DEF Ahead
<1>2. ASSUME NEW S \in SUBSET Arena, ai \in S, NextClosed(m, S)
      PROVE  s.visible \subseteq S \cup s.counted
  <2>1. NextClosed(n, S)
    BY <1>2 DEF NextClosed
  <2> QED BY <1>2, <2>1 DEF Ahead
<1> QED BY <1>1, <1>2 DEF Ahead

LEMMA SpaceStays ==
    ASSUME OrderInv, LinksStay, RootsJoin, NEW u \in Thread, SpaceOK(u),
           pc'[u] = pc[u], call'[u] = call[u], find'[u] = find[u], space'[u] = space[u]
    PROVE  SpaceOK(u)'
<1> PICK s, a, ai : s = space[u] /\ a = call[u].a /\ ai = find[u].ai
  OBVIOUS
<1>1. s.counted \in SUBSET Arena
  BY DEF OrderInv, TypeOK, SpaceFrame
<1>2. /\ \A x \in Arena : next[x] # NULL => next'[x] = next[x]
      /\ \A x \in Arena : ~IsTaggedTail(previous_or_tail[x]) => previous_or_tail'[x] = previous_or_tail[x]
  BY DEF LinksStay
<1>3. CASE call[u].op # "space"
  BY <1>3 DEF SpaceOK
<1>4. CASE call[u].op = "space"
  <2>1. a \in Arena
    BY <1>4 DEF SpaceOK
  <2>2. \A x \in s.counted : Root'[x] = Root'[a]
    BY <1>1, <1>4, <2>1 DEF SpaceOK, RootsJoin
  <2>3. pc[u] = "space_backward" => Behind(next', previous_or_tail', a, ai, s)
    <3> SUFFICES ASSUME pc[u] = "space_backward" PROVE Behind(next', previous_or_tail', a, ai, s)
      OBVIOUS
    <3>1. Behind(next, previous_or_tail, a, ai, s)
      BY <1>4 DEF SpaceOK
    <3> QED BY <1>1, <1>2, <2>1, <3>1, BehindStays
  <2>4. pc[u] = "space_forward" => Ahead(next', ai, s)
    BY <1>2, <1>4, AheadStays DEF SpaceOK
  <2> QED BY <1>4, <2>1, <2>2, <2>3, <2>4 DEF SpaceOK
<1> QED BY <1>3, <1>4

\* The steps of the two walks.
LEMMA WalkStarts ==
    ASSUME OrderInv, NEW a \in Arena, NEW s, s.counted = {}, s.visible = Visible(a)
    PROVE  Behind(next, previous_or_tail, a, a, s)
<1>1. ASSUME NEW S \in SUBSET Arena, NEW T \in SUBSET Arena,
             a \in S, NextClosed(next, S), a \in T, PreviousClosed(previous_or_tail, T)
      PROVE  s.visible \subseteq S \cup T
  <2>1. ListFrom(a) \subseteq S
    BY <1>1, ListFromIs
  <2>2. ListBefore(a) \subseteq T
    BY <1>1, ListBeforeIs
  <2> QED BY <2>1, <2>2 DEF Visible
<1> QED BY <1>1, ReachSelf DEF Behind

LEMMA WalkGoesBack ==
    ASSUME NEW n \in [Arena -> MaybeArena], Acyclic(n), NEW w, NEW a \in Arena, NEW ai \in Arena,
           NEW y \in Arena, n[y] = ai, ~IsTaggedTail(w[ai]), w[ai].val = y,
           NEW s, NEW r, s.counted \in SUBSET Arena, Behind(n, w, a, ai, s),
           r.counted = s.counted \cup {y}, r.visible = s.visible
    PROVE  y \notin s.counted /\ Behind(n, w, a, y, r)
<1>0. ai # NULL
  BY ArenaNat
<1>1. ~Reaches(n, ai, y)
  BY NoReturn
<1>2. y \notin s.counted /\ y # a
  BY <1>1 DEF Behind
<1>3. Reaches(n, y, ai)
  BY <1>0, ReachSelf, ReachStep
<1>4. Reaches(n, y, a)
  BY <1>3, ReachOn DEF Behind
<1>5. \A x \in r.counted : Reaches(n, y, x) /\ Reaches(n, x, a) /\ x # a
  <2> SUFFICES ASSUME NEW x \in r.counted PROVE Reaches(n, y, x) /\ Reaches(n, x, a) /\ x # a
    OBVIOUS
  <2>1. CASE x = y
    BY <1>2, <1>4, <2>1, ReachSelf
  <2>2. CASE x \in s.counted
    <3>1. Reaches(n, ai, x) /\ Reaches(n, x, a) /\ x # a
      BY <2>2 DEF Behind
    <3> QED BY <1>3, <3>1, ReachOn
  <2> QED BY <2>1, <2>2
<1>6. \A x \in r.counted \cup {a} : x = y \/ (~IsTaggedTail(w[x]) /\ w[x].val \in r.counted)
  BY DEF Behind
<1> QED BY <1>2, <1>4, <1>5, <1>6 DEF Behind

LEMMA WalkTurns ==
    ASSUME NEW n, NEW w, NEW a \in Arena, NEW ai, IsTaggedTail(w[ai]),
           NEW s, s.counted \in SUBSET Arena, Behind(n, w, a, ai, s)
    PROVE  Ahead(n, a, s)
<1>1. \A x \in s.counted : Reaches(n, x, a) /\ x # a
  BY DEF Behind
<1>2. ASSUME NEW S \in SUBSET Arena, a \in S, NextClosed(n, S)
      PROVE  s.visible \subseteq S \cup s.counted
  <2> DEFINE T == s.counted \cup {a}
  <2>1. PreviousClosed(w, T)
    BY DEF Behind, PreviousClosed
  <2>2. T \in SUBSET Arena /\ a \in T
    OBVIOUS
  <2> HIDE DEF T
  <2>3. s.visible \subseteq S \cup T
    BY <1>2, <2>1, <2>2 DEF Behind
  <2> QED BY <1>2, <2>3 DEF T
<1> QED BY <1>1, <1>2 DEF Ahead

LEMMA WalkGoesOn ==
    ASSUME NEW n \in [Arena -> MaybeArena], Acyclic(n), NEW ai \in Arena, n[ai] # NULL,
           NEW s, NEW r, s.counted \in SUBSET Arena, Ahead(n, ai, s),
           r.counted = s.counted \cup {ai}, r.visible = s.visible
    PROVE  Ahead(n, n[ai], r)
<1>0. n[ai] \in Arena
  BY ArenaMaybe
<1>1. ~Reaches(n, n[ai], ai)
  BY <1>0, NoReturn
<1>2. ASSUME NEW x \in r.counted PROVE Reaches(n, x, n[ai]) /\ x # n[ai]
  <2>1. Reaches(n, x, ai)
    BY ReachSelf DEF Ahead
  <2> QED BY <1>1, <2>1, ReachStep
<1>3. ASSUME NEW S \in SUBSET Arena, n[ai] \in S, NextClosed(n, S)
      PROVE  r.visible \subseteq S \cup r.counted
  <2>1. NextClosed(n, S \cup {ai}) /\ S \cup {ai} \in SUBSET Arena
    BY <1>3 DEF NextClosed
  <2>2. s.visible \subseteq (S \cup {ai}) \cup s.counted
    BY <2>1 DEF Ahead
  <2> QED BY <2>2
<1> QED BY <1>2, <1>3 DEF Ahead

LEMMA WalkEnds ==
    ASSUME NEW n, NEW ai \in Arena, n[ai] = NULL, NEW s, Ahead(n, ai, s)
    PROVE  s.visible \subseteq s.counted \cup {ai}
<1>1. NextClosed(n, {ai}) /\ {ai} \in SUBSET Arena
  BY DEF NextClosed
<1> QED BY <1>1 DEF Ahead

\* Who writes the frame of SpaceAllocated, and where.
LEMMA SpaceSteps ==
    ASSUME OrderInv, NEW t \in Thread, Start(t) \/ Step(t)
    PROVE  \/ space' = space /\ pc[t] \notin {"space_backward", "space_forward", "return"}
           \/ Return(t) \/ SpaceBackward(t) \/ SpaceForward(t)
           \/ \E a \in Arena : StartSpaceAllocated(t, a)
<1> USE DEF At
<1>1. CASE Start(t)
  BY <1>1 DEF Start, StartFuse, StartIsFused, StartIncRef, StartFree, CallFindRoot
<1>2. CASE FindRootLoad(t) \/ FindRootReload(t) \/ FindRootNext(t) \/ FindRootSplit(t)
  BY <1>2 DEF FindRootLoad, FindRootReload, FindRootNext, FindRootSplit
<1>3. CASE \/ DoFuseAddRefs(t) \/ DoFuseReparent(t) \/ FixupRefsLoad(t) \/ FixupRefsCAS(t)
           \/ IncRefCAS(t) \/ FreeLoad(t) \/ FreeCAS(t) \/ DoFree(t)
  BY <1>3 DEF DoFuseAddRefs, DoFuseReparent, FixupRefsLoad, FixupRefsCAS, IncRefCAS,
              FreeLoad, FreeCAS, DoFree
<1>4. CASE \/ LinkForwardStart(t) \/ LinkForwardWalk(t) \/ LinkForwardCAS(t)
           \/ UpdateTailChild(t) \/ UpdateTailParent(t) \/ UpdateTailCAS(t) \/ LinkBackward(t)
  BY <1>4 DEF LinkForwardStart, LinkForwardWalk, LinkForwardCAS, UpdateTailChild,
              UpdateTailParent, UpdateTailCAS, LinkBackward
<1> QED BY <1>1, <1>2, <1>3, <1>4 DEF Step

LEMMA CountedOne ==
    ASSUME NEW s \in SpaceFrame, s.fused_count = Cardinality(s.counted), NEW y \in Arena,
           y \notin s.counted
    PROVE  s.fused_count + 1 = Cardinality(s.counted \cup {y})
<1>1. IsFiniteSet(s.counted)
  BY FiniteArenas DEF SpaceFrame
<1> QED BY <1>1, FS_AddElement

LEMMA SpaceBackwardOK ==
    ASSUME FuseInv, WholeInv, NEW t \in Thread, SpaceOK(t), SpaceBackward(t)
    PROVE  SpaceOK(t)'
<1> PICK s, a, ai, y : s = space[t] /\ a = call[t].a /\ ai = find[t].ai /\ y = previous_or_tail[ai].val
  OBVIOUS
<1>0. /\ OrderInv /\ GroupInv /\ ListGroupInv /\ PreviousPointsBack /\ Acyclic(next)
      /\ pc \in [Thread -> Label] /\ call \in [Thread -> CallFrame] /\ find \in [Thread -> FindFrame]
      /\ space \in [Thread -> SpaceFrame] /\ next \in [Arena -> MaybeArena]
      /\ s \in SpaceFrame
  BY DEF FuseInv, WholeInv, HeadInv, ListInv, OrderInv, TypeOK
<1>1. pc[t] = "space_backward" /\ call[t].op = "space"
  BY <1>0 DEF SpaceBackward, At, GroupInv, ThreadInGroups, InGroups, CountInGroup
<1>2. /\ a \in Arena /\ s.fused_count = Cardinality(s.counted)
      /\ \A x \in s.counted : Root[x] = Root[a]
      /\ Behind(next, previous_or_tail, a, ai, s) /\ s.counted \in SUBSET Arena
  BY <1>0, <1>1 DEF SpaceOK, SpaceFrame
<1>3. ai \in Arena /\ Root[ai] = Root[a]
  BY <1>0, <1>1 DEF ListGroupInv, LinkerInGroup, OrderInv, WalkOrdered
<1>4. UNCHANGED <<next, previous_or_tail>> /\ Root' = Root
  BY RootsSame DEF SpaceBackward, memory
<1>5. CASE IsTaggedTail(previous_or_tail[ai])
  <2>1. TurnAround(t)
    BY <1>5 DEF SpaceBackward
  <2>2. pc'[t] = "space_forward" /\ find'[t].ai = a /\ call'[t] = call[t] /\ space'[t] = s
    BY <1>0, <2>1 DEF TurnAround, Goto, FindFrame
  <2>3. Ahead(next, a, s)
    BY <1>2, <1>5, WalkTurns
  <2> QED BY <1>1, <1>2, <1>4, <2>2, <2>3 DEF SpaceOK
<1>6. CASE ~IsTaggedTail(previous_or_tail[ai])
  <2>1. Count(t, y) /\ WalkTo(t, y)
    BY <1>6 DEF SpaceBackward
  <2> PICK r : r = space'[t]
    OBVIOUS
  <2>2. pc'[t] = "space_backward" /\ find'[t].ai = y /\ call'[t] = call[t]
    BY <1>0, <1>1, <2>1 DEF WalkTo, FindFrame
  <2>3. r.counted = s.counted \cup {y} /\ r.fused_count = s.fused_count + 1 /\ r.visible = s.visible
    BY <1>0, <2>1 DEF Count
  <2>4. y \in Arena /\ next[y] = ai /\ Root[y] = Root[a]
    BY <1>0, <1>3, <1>6, ListWordTyped DEF PreviousPointsBack, ListGroupInv, LinksInGroup, OrderInv, TypeOK
  <2>5. y \notin s.counted /\ Behind(next, previous_or_tail, a, y, r)
    <3>1. next \in [Arena -> MaybeArena] /\ Acyclic(next) /\ a \in Arena /\ ai \in Arena /\ y \in Arena
      BY <1>0, <1>2, <1>3, <2>4
    <3>2. next[y] = ai /\ ~IsTaggedTail(previous_or_tail[ai]) /\ previous_or_tail[ai].val = y
      BY <1>6, <2>4
    <3>3. s.counted \in SUBSET Arena /\ Behind(next, previous_or_tail, a, ai, s)
      BY <1>2
    <3> QED BY ONLY <2>3, <3>1, <3>2, <3>3, WalkGoesBack
  <2>6. r.fused_count = Cardinality(r.counted)
    BY <1>0, <1>2, <2>3, <2>4, <2>5, CountedOne
  <2>7. \A x \in r.counted : Root[x] = Root[a]
    BY <1>2, <2>3, <2>4
  <2> QED BY <1>1, <1>2, <1>4, <2>2, <2>5, <2>6, <2>7 DEF SpaceOK
<1> QED BY <1>5, <1>6

LEMMA SpaceForwardOK ==
    ASSUME FuseInv, WholeInv, NEW t \in Thread, SpaceOK(t), SpaceForward(t)
    PROVE  SpaceOK(t)'
<1> PICK s, a, ai, r : s = space[t] /\ a = call[t].a /\ ai = find[t].ai /\ r = space'[t]
  OBVIOUS
<1>0. /\ OrderInv /\ GroupInv /\ ListGroupInv /\ Acyclic(next)
      /\ pc \in [Thread -> Label] /\ call \in [Thread -> CallFrame] /\ find \in [Thread -> FindFrame]
      /\ space \in [Thread -> SpaceFrame] /\ next \in [Arena -> MaybeArena]
      /\ s \in SpaceFrame
  BY DEF FuseInv, WholeInv, HeadInv, OrderInv, TypeOK
<1>1. pc[t] = "space_forward" /\ call[t].op = "space"
  BY <1>0 DEF SpaceForward, At, GroupInv, ThreadInGroups, InGroups, CountInGroup
<1>2. /\ a \in Arena /\ s.fused_count = Cardinality(s.counted)
      /\ \A x \in s.counted : Root[x] = Root[a]
      /\ Ahead(next, ai, s) /\ s.counted \in SUBSET Arena
  BY <1>0, <1>1 DEF SpaceOK, SpaceFrame
<1>3. ai \in Arena /\ Root[ai] = Root[a] /\ ai \notin s.counted
  BY <1>0, <1>1, <1>2 DEF ListGroupInv, LinkerInGroup, OrderInv, WalkOrdered, Ahead
<1>4. UNCHANGED <<next, previous_or_tail>> /\ Root' = Root
  BY RootsSame DEF SpaceForward, memory
<1>5. r.counted = s.counted \cup {ai} /\ r.fused_count = s.fused_count + 1 /\ r.visible = s.visible
  BY <1>0 DEF SpaceForward, Count
<1>6. r.fused_count = Cardinality(r.counted)
  BY <1>0, <1>2, <1>3, <1>5, CountedOne
<1>7. \A x \in r.counted : Root[x] = Root[a]
  BY <1>2, <1>3, <1>5
<1>8. CASE next[ai] = NULL
  <2>1. Finish(t, "true")
    BY <1>8 DEF SpaceForward
  <2>2. pc'[t] = "return" /\ call'[t].op = "space" /\ call'[t].a = a
    BY <1>0, <1>1, <2>1 DEF Finish, Goto, CallFrame
  <2>3. r.visible \subseteq r.counted
    BY <1>2, <1>3, <1>5, <1>8, WalkEnds
  <2> QED BY <1>2, <1>4, <1>6, <1>7, <2>2, <2>3 DEF SpaceOK
<1>9. CASE next[ai] # NULL
  <2>1. WalkTo(t, next[ai])
    BY <1>9 DEF SpaceForward
  <2>2. pc'[t] = "space_forward" /\ find'[t].ai = next[ai] /\ call'[t] = call[t]
    BY <1>0, <1>1, <2>1 DEF WalkTo, FindFrame
  <2>3. Ahead(next, next[ai], r)
    BY <1>0, <1>2, <1>3, <1>5, <1>9, WalkGoesOn
  <2> QED BY <1>1, <1>2, <1>4, <1>6, <1>7, <2>2, <2>3 DEF SpaceOK
<1> QED BY <1>8, <1>9

LEMMA StartSpaceOK ==
    ASSUME OrderInv, NEW t \in Thread, SpaceOK(t), NEW a \in Arena, StartSpaceAllocated(t, a)
    PROVE  SpaceOK(t)'
<1> PICK r : r = space'[t]
  OBVIOUS
<1>0. /\ pc \in [Thread -> Label] /\ call \in [Thread -> CallFrame] /\ find \in [Thread -> FindFrame]
      /\ space \in [Thread -> SpaceFrame]
  BY DEF OrderInv, TypeOK
<1>1. UNCHANGED <<next, previous_or_tail>> /\ pc[t] = "idle"
  BY DEF StartSpaceAllocated, memory, At
<1>2. space[t] = NoSpace
  BY <1>1 DEF SpaceOK
<1>3. r.counted = {} /\ r.fused_count = 0 /\ r.visible = Visible(a)
  BY <1>0, <1>2 DEF StartSpaceAllocated, NoSpace, SpaceFrame
<1>4. pc'[t] = "space_backward" /\ call'[t].op = "space" /\ call'[t].a = a /\ find'[t].ai = a
  <2>1. call'[t] = CallOf("space", a, NULL, "none", "false") /\ find'[t] = FindFrom(a, "none")
    BY <1>0 DEF StartSpaceAllocated
  <2> QED BY <1>0, <2>1 DEF StartSpaceAllocated, Goto, CallOf, FindFrom
<1>5. Behind(next, previous_or_tail, a, a, r)
  BY <1>3, WalkStarts
<1>6. r.fused_count = Cardinality(r.counted)
  BY <1>3, FS_EmptySet
<1> QED BY <1>1, <1>3, <1>4, <1>5, <1>6 DEF SpaceOK

LEMMA NextSpace ==
    ASSUME FuseInv, WholeInv, SpaceInv, Next
    PROVE  SpaceInv'
<1>0. OrderInv /\ ListInv /\ GroupInv /\ pc \in [Thread -> Label] /\ call \in [Thread -> CallFrame]
      /\ space \in [Thread -> SpaceFrame]
  BY DEF FuseInv, OrderInv, TypeOK
<1>1. PICK t \in Thread : Start(t) \/ Step(t)
  BY DEF Next
<1>2. LinksStay /\ RootsJoin /\ OthersSame(t)
  BY <1>0, <1>1, NextOrdered, NextLists, NextGroups, StartOthers, StepOthers DEF ListStep, GroupStep
<1>3. \/ space' = space /\ pc[t] \notin {"space_backward", "space_forward", "return"}
      \/ Return(t) \/ SpaceBackward(t) \/ SpaceForward(t)
      \/ \E a \in Arena : StartSpaceAllocated(t, a)
  BY <1>0, <1>1, SpaceSteps
<1>4. ASSUME NEW u \in Thread, u # t PROVE SpaceOK(u)'
  <2>1. space'[u] = space[u]
    BY <1>0, <1>3, <1>4 DEF Return, SpaceBackward, SpaceForward, StartSpaceAllocated, TurnAround, Count
  <2> QED BY <1>0, <1>2, <1>4, <2>1, SpaceStays DEF SpaceInv, OthersSame
<1>5. SpaceOK(t)'
  <2>0. SpaceOK(t)
    BY DEF SpaceInv
  <2>1. CASE SpaceBackward(t) \/ SpaceForward(t) \/ \E a \in Arena : StartSpaceAllocated(t, a)
    BY <1>0, <2>0, <2>1, SpaceBackwardOK, SpaceForwardOK, StartSpaceOK
  <2>2. CASE Return(t)
    <3>1. space'[t] = NoSpace /\ call'[t] = NoCall
      BY <1>0, <2>2 DEF Return
    <3> QED BY <3>1 DEF SpaceOK, NoCall, CallOf
  <2>3. CASE /\ space' = space /\ pc[t] \notin {"space_backward", "space_forward", "return"}
             /\ ~\E a \in Arena : StartSpaceAllocated(t, a)
    <3>1. call[t].op # "space" /\ space[t] = NoSpace
      BY <2>0, <2>3 DEF SpaceOK
    <3>2. call'[t].op # "space"
      <4>1. CASE Step(t)
        <5>1. CASE Return(t)
          BY <2>3, <5>1 DEF Return, At
        <5> QED BY <1>0, <3>1, <4>1, <5>1, StepCall
      <4>2. CASE Start(t)
        <5>1. PICK op \in {"fuse", "isfused", "incref", "free"} :
                  \E a, b, was, res : call'[t] = CallOf(op, a, b, was, res)
          BY <1>0, <2>3, <4>2 DEF Start, StartFuse, StartIsFused, StartIncRef, StartFree
        <5> QED BY <5>1 DEF CallOf
      <4> QED BY <1>1, <4>1, <4>2
    <3> QED BY <2>3, <3>1, <3>2 DEF SpaceOK
  <2> QED BY <1>3, <2>1, <2>2, <2>3
<1> QED BY <1>4, <1>5 DEF SpaceInv

LEMMA SpaceInvariant == Spec => [](FuseInv /\ WholeInv /\ SpaceInv)
<1>1. Init => SpaceInv
  <2> SUFFICES ASSUME Init, NEW t \in Thread PROVE SpaceOK(t)
    BY DEF SpaceInv
  <2>1. call[t] = NoCall /\ space[t] = NoSpace
    BY DEF Init
  <2> QED BY <2>1 DEF SpaceOK, NoCall, CallOf
<1>2. FuseInv /\ WholeInv /\ SpaceInv /\ [Next]_vars => SpaceInv'
  <2> SUFFICES ASSUME FuseInv, WholeInv, SpaceInv, [Next]_vars PROVE SpaceInv'
    OBVIOUS
  <2>1. CASE Next
    BY <2>1, NextSpace
  <2>2. CASE UNCHANGED vars
    <3>1. UNCHANGED <<parent_or_count, next, previous_or_tail, pc, call, find, space>>
      BY <2>2 DEF vars, memory
    <3>2. Root' = Root
      BY <3>1, RootsSame
    <3> QED BY <3>1, <3>2 DEF SpaceInv, SpaceOK
  <2> QED BY <2>1, <2>2
<1> QED BY <1>1, <1>2, WholeInvariant, PTL DEF Spec

\* upb_Arena_SpaceAllocated counts every arena once, only fused ones, and at
\* least those that were on the list when it was called, however many fuses
\* append to the list and set previous pointers during its two walks.
THEOREM SpaceIsMonotone == Spec => []SpaceMonotone
<1>1. FuseInv /\ SpaceInv => SpaceMonotone
  <2> SUFFICES ASSUME FuseInv, SpaceInv, NEW t \in Thread, At(t, "return"), call[t].op = "space"
               PROVE  /\ space[t].fused_count = Cardinality(space[t].counted)
                      /\ space[t].visible \subseteq space[t].counted
                      /\ space[t].counted \subseteq Group(call[t].a)
    BY DEF SpaceMonotone
  <2>1. space[t].counted \in SUBSET Arena
    BY DEF FuseInv, OrderInv, TypeOK, SpaceFrame
  <2>2. SpaceOK(t)
    BY DEF SpaceInv
  <2> QED BY <2>1, <2>2 DEF SpaceOK, At, Group
<1> QED BY <1>1, SpaceInvariant, PTL
============================================================================
