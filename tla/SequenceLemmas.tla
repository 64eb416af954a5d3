--------------------------- MODULE SequenceLemmas ---------------------------
(* What the proofs need of numbers, orders and folds.  Induction is stated   *)
(* of sets, without an operator as a parameter: the numbers that have a      *)
(* property are a set, and so are the values that a fold may reach.          *)
EXTENDS Integers, Sequences, SequencesExt, FiniteSetsExt, FunctionTheorems, FiniteSetTheorems,
        SequenceTheorems, WellFoundedInduction, TLAPS

-----------------------------------------------------------------------------
(* Numbers                                                                 *)

LEMMA LeastNumber ==
  ASSUME NEW T \in SUBSET Nat, T # {}
  PROVE  \E x \in T : \A y \in T : x <= y
<1> DEFINE R == OpToRel(<, Nat)
<1>1. IsWellFoundedOn(R, Nat)
  BY NatLessThanWellFounded DEF OpToRel
<1> HIDE DEF R
<1>2. PICK x \in T : \A y \in T : <<y, x>> \notin R
  BY <1>1, WFMin
<1>3. \A y \in T : ~(y < x)
  BY <1>2 DEF R, OpToRel
<1> QED
  BY <1>3

LEMMA Induction ==
  ASSUME NEW T, 0 \in T, \A n \in Nat : n \in T => n + 1 \in T
  PROVE  Nat \subseteq T
<1> SUFFICES ASSUME Nat \ T # {} PROVE FALSE
  OBVIOUS
<1>1. PICK x \in Nat \ T : \A y \in Nat \ T : x <= y
  BY LeastNumber
<1>2. x # 0 /\ x - 1 \in Nat /\ x - 1 \notin Nat \ T
  BY <1>1
<1>3. x - 1 + 1 \in T
  BY <1>2
<1> QED
  BY <1>1, <1>3

\* The same for the finite subsets of a set, one member at a time.
LEMMA FiniteInduction ==
  ASSUME NEW S, IsFiniteSet(S), NEW T, {} \in T,
         \A A \in SUBSET S : \A x \in S \ A : A \in T => A \cup {x} \in T
  PROVE  S \in T
<1> DEFINE U == {n \in Nat : \A A \in SUBSET S : Cardinality(A) = n => A \in T}
<1>1. \A A \in SUBSET S : IsFiniteSet(A) /\ Cardinality(A) \in Nat
  BY FS_Subset, FS_CardinalityType
<1>2. 0 \in U
  BY <1>1, FS_EmptySet
<1>3. ASSUME NEW n \in Nat, n \in U PROVE n + 1 \in U
  <2> SUFFICES ASSUME NEW A \in SUBSET S, Cardinality(A) = n + 1 PROVE A \in T
    OBVIOUS
  <2>1. A # {}
    BY FS_EmptySet
  <2>2. PICK x \in A : TRUE
    BY <2>1
  <2>3. Cardinality(A \ {x}) = n
    <3>1. IsFiniteSet(A)
      BY <1>1
    <3>2. Cardinality(A \ {x}) = Cardinality(A) - 1
      BY <2>2, <3>1, FS_RemoveElement
    <3> QED
      BY <3>2
  <2>4. A \ {x} \in SUBSET S /\ x \in S \ (A \ {x}) /\ (A \ {x}) \cup {x} = A
    OBVIOUS
  <2>5. A \ {x} \in T
    BY <1>3, <2>3, <2>4
  <2> QED
    BY <2>4, <2>5
<1>4. Nat \subseteq U
  <2> HIDE DEF U
  <2> QED
    BY <1>2, <1>3, Induction
<1>5. Cardinality(S) \in U
  BY <1>1, <1>4
<1> QED
  BY <1>5

\* The same up to a bound.
LEMMA InductionUpTo ==
  ASSUME NEW n \in Nat, NEW T, 0 \in T, \A k \in 1..n : k - 1 \in T => k \in T
  PROVE  0..n \subseteq T
<1> DEFINE U == {k \in Nat : k <= n => k \in T}
<1>1. 0 \in U
  OBVIOUS
<1>2. ASSUME NEW k \in Nat, k \in U PROVE k + 1 \in U
  <2> SUFFICES ASSUME k + 1 <= n PROVE k + 1 \in T
    OBVIOUS
  <2>1. k + 1 \in 1..n /\ (k + 1) - 1 = k
    OBVIOUS
  <2>2. k \in T
    BY <1>2
  <2> QED
    BY <2>1, <2>2
<1> HIDE DEF U
<1>3. Nat \subseteq U
  BY <1>1, <1>2, Induction
<1> QED
  BY <1>3 DEF U

\* A set of numbers that has an upper bound has a greatest, which is its Max.
LEMMA MaxOfBounded ==
  ASSUME NEW S \in SUBSET Int, S # {}, NEW b \in Int, \A x \in S : x <= b
  PROVE  Max(S) \in S /\ \A x \in S : x <= Max(S)
<1> DEFINE T == {b - x : x \in S}
<1>1. T \in SUBSET Nat /\ T # {}
  <2>1. \A x \in S : b - x \in Nat
    OBVIOUS
  <2> QED
    BY <2>1
<1>2. PICK t \in T : \A y \in T : t <= y
  BY <1>1, LeastNumber
<1>3. PICK m \in S : t = b - m
  BY <1>2
<1>4. \A x \in S : m >= x
  BY <1>2, <1>3
<1> QED
  BY <1>4 DEF Max

LEMMA MinOfNumbers ==
  ASSUME NEW S \in SUBSET Nat, S # {}
  PROVE  Min(S) \in S /\ \A x \in S : Min(S) <= x
<1>1. PICK m \in S : \A x \in S : m <= x
  BY LeastNumber
<1> QED
  BY <1>1 DEF Min

LEMMA FirstNumbers ==
  ASSUME NEW n \in Nat
  PROVE  IsFiniteSet(1..n) /\ Cardinality(1..n) = n
BY FS_Interval

\* A set of positions that with each has those before it is the first ones.
LEMMA FirstOnes ==
  ASSUME NEW n \in Nat, NEW S \in SUBSET (1..n), \A i, j \in 1..n : i < j /\ j \in S => i \in S
  PROVE  S = 1..Cardinality(S) /\ Cardinality(S) \in 0..n
<1>1. CASE S = {}
  <2>1. Cardinality(S) = 0 /\ 1..0 = {}
    BY <1>1, FS_EmptySet
  <2> QED
    BY <1>1, <2>1
<1>2. CASE S # {}
  <2> DEFINE c == Max(S)
  <2>1. c \in S /\ \A x \in S : x <= c
    <3>1. S \in SUBSET Int /\ n \in Int /\ \A x \in S : x <= n
      OBVIOUS
    <3> QED
      BY <1>2, <3>1, MaxOfBounded
  <2> HIDE DEF c
  <2>2. S = 1..c /\ c \in 0..n
    <3>1. c \in 1..n
      BY <2>1
    <3>2. ASSUME NEW i \in 1..c PROVE i \in S
      <4>1. i \in 1..n /\ (i = c \/ i < c)
        BY <3>1
      <4> QED
        BY <2>1, <3>1, <4>1
    <3>3. \A i \in S : i \in 1..c
      BY <2>1, <3>1
    <3>4. S = 1..c
      BY <3>2, <3>3
    <3> QED
      BY <3>1, <3>4
  <2>3. Cardinality(1..c) = c
    BY <2>2, FirstNumbers
  <2> QED
    BY <2>2, <2>3
<1> QED
  BY <1>1, <1>2

-----------------------------------------------------------------------------
(* Folds.  A fold over a sequence is a function of the sets of positions; of *)
(* the first k positions it is what k steps lead to.                         *)

Folds(f, n, V, base, G) ==
  /\ f \in [SUBSET (1..n) -> V]
  /\ \A s \in SUBSET (1..n) :
       f[s] = IF s = {} THEN base ELSE G[<<Max(s), f[s \ {Max(s)}]>>]

Steps(h, n, V, base, G, end) ==
  /\ h \in [0..n -> V]
  /\ h[0] = base /\ h[n] = end
  /\ \A k \in 1..n : h[k] = G[<<k, h[k - 1]>>]

\* Steps that stay in V are those of a fold.
LEMMA FoldIsDefined ==
  ASSUME NEW n \in Nat, NEW V, NEW base \in V, NEW G \in [(1..n) \X V -> V]
  PROVE  \E f : Folds(f, n, V, base, G)
<1> DEFINE Defined(m, f) ==
             \A s \in SUBSET (1..m) :
               f[s] = IF s = {} THEN base ELSE G[<<Max(s), f[s \ {Max(s)}]>>]
           Exists(m) == \E f \in [SUBSET (1..m) -> V] : Defined(m, f)
           T == {m \in Nat : m <= n => Exists(m)}
<1>1. \A m \in Nat : \A s \in SUBSET (1..m) :
        s # {} => Max(s) \in s /\ (\A x \in s : x <= Max(s)) /\ s \ {Max(s)} \in SUBSET (1..m)
  <2> TAKE m \in Nat
  <2> TAKE s \in SUBSET (1..m)
  <2> HAVE s # {}
  <2>1. s \in SUBSET Int /\ \A x \in s : x <= m
    OBVIOUS
  <2>2. m \in Int
    OBVIOUS
  <2>3. Max(s) \in s /\ \A x \in s : x <= Max(s)
    BY <2>1, <2>2, MaxOfBounded
  <2> QED
    BY <2>3
<1>2. 0 \in T
  <2> DEFINE f == [s \in SUBSET (1..0) |-> base]
  <2>1. 1..0 = {}
    OBVIOUS
  <2>2. f \in [SUBSET (1..0) -> V]
    OBVIOUS
  <2>3. Defined(0, f)
    <3> SUFFICES ASSUME NEW s \in SUBSET (1..0)
                 PROVE  f[s] = IF s = {} THEN base ELSE G[<<Max(s), f[s \ {Max(s)}]>>]
      OBVIOUS
    <3>1. s = {} /\ f[s] = base
      BY <2>1
    <3> HIDE DEF f
    <3> QED
      BY <3>1
  <2> HIDE DEF f, Defined
  <2>4. Exists(0)
    BY <2>2, <2>3
  <2> HIDE DEF Exists
  <2> QED
    BY <2>4
<1>3. ASSUME NEW m \in Nat, m \in T
      PROVE  m + 1 \in T
  <2> SUFFICES ASSUME m + 1 <= n
               PROVE  Exists(m + 1)
    <3> HIDE DEF Exists
    <3> QED
      OBVIOUS
  <2>1. PICK f \in [SUBSET (1..m) -> V] : Defined(m, f)
    <3>1. Exists(m)
      <4> HIDE DEF Exists
      <4> QED
        BY <1>3
    <3> HIDE DEF Defined
    <3> QED
      BY <3>1
  <2> DEFINE g == [s \in SUBSET (1..(m + 1)) |->
                     IF m + 1 \in s THEN G[<<m + 1, f[s \ {m + 1}]>>] ELSE f[s]]
  <2>2. \A s \in SUBSET (1..(m + 1)) :
          /\ m + 1 \in s => s \ {m + 1} \in SUBSET (1..m) /\ Max(s) = m + 1
          /\ m + 1 \notin s => s \in SUBSET (1..m)
    <3> TAKE s \in SUBSET (1..(m + 1))
    <3>1. m + 1 \in s => s \ {m + 1} \in SUBSET (1..m)
      OBVIOUS
    <3>2. m + 1 \in s => Max(s) = m + 1
      <4> HAVE m + 1 \in s
      <4>1. Max(s) \in s /\ m + 1 <= Max(s)
        BY <1>1
      <4>2. Max(s) \in 1..(m + 1)
        BY <4>1
      <4> QED
        BY <4>1, <4>2
    <3>3. m + 1 \notin s => s \in SUBSET (1..m)
      OBVIOUS
    <3> QED
      BY <3>1, <3>2, <3>3
  <2>3. g \in [SUBSET (1..(m + 1)) -> V]
    BY <2>1, <2>2
  <2>4. Defined(m + 1, g)
    <3> SUFFICES ASSUME NEW s \in SUBSET (1..(m + 1))
                 PROVE  g[s] = IF s = {} THEN base ELSE G[<<Max(s), g[s \ {Max(s)}]>>]
      OBVIOUS
    <3>1. CASE m + 1 \in s
      <4>1. s \ {m + 1} \in SUBSET (1..(m + 1)) /\ m + 1 \notin s \ {m + 1}
        BY <2>2, <3>1
      <4>2. g[s \ {m + 1}] = f[s \ {m + 1}]
        BY <4>1
      <4>3. g[s] = G[<<m + 1, f[s \ {m + 1}]>>]
        BY <3>1
      <4> HIDE DEF g
      <4> QED
        BY <2>2, <3>1, <4>2, <4>3
    <3>2. CASE m + 1 \notin s
      <4>1. s \in SUBSET (1..m) /\ g[s] = f[s]
        BY <2>2, <3>2
      <4>2. CASE s = {}
        BY <2>1, <4>1, <4>2
      <4>3. CASE s # {}
        <5>1. s \ {Max(s)} \in SUBSET (1..m) /\ s \ {Max(s)} \in SUBSET (1..(m + 1))
              /\ m + 1 \notin s \ {Max(s)}
          BY <1>1, <3>2, <4>1, <4>3
        <5>2. g[s \ {Max(s)}] = f[s \ {Max(s)}]
          BY <5>1
        <5> HIDE DEF g
        <5> QED
          BY <2>1, <4>1, <4>3, <5>2
      <4> QED
        BY <4>2, <4>3
    <3> QED
      BY <3>1, <3>2
  <2> HIDE DEF g, Defined
  <2> QED
    BY <2>3, <2>4
<1>4. n \in T
  <2> HIDE DEF T
  <2> QED
    BY <1>2, <1>3, Induction
<1>5. PICK f \in [SUBSET (1..n) -> V] : Defined(n, f)
  <2>1. Exists(n)
    <3> HIDE DEF Exists
    <3> QED
      BY <1>4
  <2> HIDE DEF Defined
  <2> QED
    BY <2>1
<1> QED
  BY <1>5 DEF Folds

\* The first k positions: none for 0, and of k the last is k.
LEMMA FirstPositions ==
  ASSUME NEW n \in Nat, NEW k \in 1..n
  PROVE  /\ 1..k \in SUBSET (1..n) /\ 1..(k - 1) \in SUBSET (1..n)
         /\ 1..k # {} /\ Max(1..k) = k
         /\ (1..k) \ {k} = 1..(k - 1)
<1>1. 1..k \in SUBSET Int /\ 1..k # {} /\ \A x \in 1..k : x <= k
  OBVIOUS
<1>2. Max(1..k) \in 1..k /\ \A x \in 1..k : x <= Max(1..k)
  <2> DEFINE K == 1..k
  <2>1. K \in SUBSET Int /\ K # {} /\ k \in Int /\ \A x \in K : x <= k
    BY <1>1
  <2> HIDE DEF K
  <2>2. Max(K) \in K /\ \A x \in K : x <= Max(K)
    BY <2>1, MaxOfBounded
  <2> QED
    BY <2>2 DEF K
<1>3. Max(1..k) = k
  <2>1. k \in 1..k
    OBVIOUS
  <2>2. k <= Max(1..k) /\ Max(1..k) \in 1..k
    BY <1>2, <2>1
  <2> QED
    BY <2>2
<1> QED
  BY <1>1, <1>3

\* The steps of a fold.
LEMMA FoldSteps ==
  ASSUME NEW n \in Nat, NEW V, NEW base \in V, NEW G \in [(1..n) \X V -> V],
         NEW f, Folds(f, n, V, base, G)
  PROVE  \E h : Steps(h, n, V, base, G, f[1..n])
<1> DEFINE h == [k \in 0..n |-> f[1..k]]
<1>1. \A k \in 0..n : 1..k \in SUBSET (1..n)
  OBVIOUS
<1>2. h \in [0..n -> V]
  BY <1>1 DEF Folds
<1>3. 1..0 = {} /\ {} \in SUBSET (1..n)
  OBVIOUS
<1>4. f[{}] = base
  BY DEF Folds
<1>5. h[0] = base
  BY <1>3, <1>4
<1>6. ASSUME NEW k \in 1..n
      PROVE  h[k] = G[<<k, h[k - 1]>>]
  <2>1. /\ 1..k \in SUBSET (1..n) /\ 1..k # {} /\ Max(1..k) = k
        /\ (1..k) \ {k} = 1..(k - 1)
    BY FirstPositions
  <2>2. f[1..k] = G[<<Max(1..k), f[(1..k) \ {Max(1..k)}]>>]
    BY <2>1 DEF Folds
  <2>3. k \in 0..n /\ k - 1 \in 0..n
    OBVIOUS
  <2> QED
    BY <2>1, <2>2, <2>3
<1>7. h[n] = f[1..n]
  <2>1. n \in 0..n
    OBVIOUS
  <2> QED
    BY <2>1
<1> HIDE DEF h
<1> QED
  BY <1>2, <1>5, <1>6, <1>7 DEF Steps

\* A loop of n turns is defined.
Turns(h, n, V, base, G) ==
  /\ h \in [0..n -> V]
  /\ h[0] = base /\ \A k \in 1..n : h[k] = G[h[k - 1]]

LEMMA LoopIsDefined ==
  ASSUME NEW n \in Nat, NEW V, NEW base \in V, NEW G \in [V -> V]
  PROVE  \E h : Turns(h, n, V, base, G)
<1> DEFINE F == [p \in (1..n) \X V |-> G[p[2]]]
<1>1. F \in [(1..n) \X V -> V]
  OBVIOUS
<1>2. \A k \in 1..n : \A v \in V : F[<<k, v>>] = G[v]
  OBVIOUS
<1> HIDE DEF F
<1>3. PICK f : Folds(f, n, V, base, F)
  BY <1>1, FoldIsDefined
<1>4. PICK h : Steps(h, n, V, base, F, f[1..n])
  BY <1>1, <1>3, FoldSteps
<1>5. /\ h \in [0..n -> V] /\ h[0] = base
      /\ \A k \in 1..n : h[k] = F[<<k, h[k - 1]>>]
  BY <1>4 DEF Steps
<1>6. ASSUME NEW k \in 1..n PROVE h[k] = G[h[k - 1]]
  <2>1. k - 1 \in 0..n
    OBVIOUS
  <2>2. h[k - 1] \in V
    BY <1>5, <2>1
  <2> QED
    BY <1>2, <1>5, <2>2
<1>7. Turns(h, n, V, base, G)
  BY <1>5, <1>6 DEF Turns
<1> QED
  BY <1>7

\* Two folds that start the same and take the same steps end the same.
LEMMA FoldIsUnique ==
  ASSUME NEW n \in Nat, NEW f, NEW g, f[{}] = g[{}],
         \A s \in SUBSET (1..n) :
           s # {} /\ f[s \ {Max(s)}] = g[s \ {Max(s)}] => f[s] = g[s]
  PROVE  f[1..n] = g[1..n]
<1> DEFINE T == {k \in 0..n : f[1..k] = g[1..k]}
<1>1. 0 \in T
  <2>1. 1..0 = {} /\ 0 \in 0..n
    OBVIOUS
  <2> QED
    BY <2>1
<1>2. ASSUME NEW k \in 1..n, k - 1 \in T PROVE k \in T
  <2>1. /\ 1..k \in SUBSET (1..n) /\ 1..k # {} /\ Max(1..k) = k
        /\ (1..k) \ {k} = 1..(k - 1)
    BY FirstPositions
  <2>2. f[1..(k - 1)] = g[1..(k - 1)]
    BY <1>2
  <2>3. f[1..k] = g[1..k]
    BY <2>1, <2>2
  <2>4. k \in 0..n
    OBVIOUS
  <2> QED
    BY <2>3, <2>4
<1> HIDE DEF T
<1>3. 0..n \subseteq T
  BY <1>1, <1>2, InductionUpTo
<1>4. n \in 0..n
  OBVIOUS
<1> QED
  BY <1>3, <1>4 DEF T

-----------------------------------------------------------------------------
(* Orders.  Of a finite one each member is told by how many come before it. *)

IsOrder(P, R) ==
  \A i, j, k \in P :
    /\ <<i, i>> \notin R
    /\ <<i, j>> \in R /\ <<j, k>> \in R => <<i, k>> \in R
    /\ i # j => <<i, j>> \in R \/ <<j, i>> \in R

Below(P, R, i) == {j \in P : <<j, i>> \in R}

\* In an order of n, each number below n is that of what comes before one.
LEMMA RanksAreAll ==
  ASSUME NEW P, IsFiniteSet(P), NEW R, IsOrder(P, R)
  PROVE  LET n == Cardinality(P)
             rank == [i \in P |-> Cardinality(Below(P, R, i))]
         IN  /\ n \in Nat
             /\ rank \in Injection(P, 0..(n - 1))
             /\ rank \in Surjection(P, 0..(n - 1))
<1> DEFINE n == Cardinality(P)
           rank == [i \in P |-> Cardinality(Below(P, R, i))]
<1>1. n \in Nat
  BY FS_CardinalityType
<1>2. ASSUME NEW i \in P
      PROVE  IsFiniteSet(Below(P, R, i)) /\ rank[i] \in 0..(n - 1)
  <2>1. Below(P, R, i) \in SUBSET P /\ i \notin Below(P, R, i)
    BY DEF Below, IsOrder
  <2>2. /\ IsFiniteSet(Below(P, R, i)) /\ Cardinality(Below(P, R, i)) <= n
        /\ Cardinality(Below(P, R, i)) # n
    BY <2>1, FS_Subset
  <2>3. Cardinality(Below(P, R, i)) \in Nat
    BY <2>2, FS_CardinalityType
  <2> QED
    BY <1>1, <2>2, <2>3
<1>3. ASSUME NEW i \in P, NEW j \in P, <<i, j>> \in R
      PROVE  rank[i] # rank[j]
  <2>1. Below(P, R, i) \in SUBSET Below(P, R, j)
    BY <1>3 DEF Below, IsOrder
  <2>2. i \in Below(P, R, j) /\ i \notin Below(P, R, i)
    BY <1>3 DEF Below, IsOrder
  <2>3. Cardinality(Below(P, R, i)) # Cardinality(Below(P, R, j))
    BY <1>2, <2>1, <2>2, FS_Subset
  <2> QED
    BY <2>3
<1>4. \A i, j \in P : rank[i] = rank[j] => i = j
  BY <1>3 DEF IsOrder
<1>5. rank \in [P -> 0..(n - 1)]
  BY <1>2
<1>6. rank \in Injection(P, 0..(n - 1))
  <2> HIDE DEF rank, n
  <2> QED
    BY <1>4, <1>5 DEF Injection, IsInjective
<1>7. IsFiniteSet(0..(n - 1)) /\ Cardinality(0..(n - 1)) = n
  <2> HIDE DEF n
  <2>1. 0 \in Int /\ n - 1 \in Int /\ (IF 0 > n - 1 THEN 0 ELSE (n - 1) - 0 + 1) = n
    BY <1>1
  <2> QED
    BY <2>1, FS_Interval
<1>8. rank \in Surjection(P, 0..(n - 1))
  <2> HIDE DEF rank
  <2> QED
    BY <1>6, <1>7, FS_Injection DEF n
<1> QED
  BY <1>1, <1>6, <1>8

\* What comes earlier has fewer before it.
LEMMA RanksGrow ==
  ASSUME NEW P, IsFiniteSet(P), NEW R, IsOrder(P, R), NEW i \in P, NEW j \in P, <<i, j>> \in R
  PROVE  Cardinality(Below(P, R, i)) < Cardinality(Below(P, R, j))
<1>1. Below(P, R, i) \in SUBSET Below(P, R, j) /\ Below(P, R, j) \in SUBSET P
  BY DEF Below, IsOrder
<1>2. i \in Below(P, R, j) /\ i \notin Below(P, R, i)
  BY DEF Below, IsOrder
<1>3. IsFiniteSet(Below(P, R, j)) /\ IsFiniteSet(Below(P, R, i))
  BY <1>1, FS_Subset
<1>4. /\ Cardinality(Below(P, R, i)) <= Cardinality(Below(P, R, j))
      /\ Cardinality(Below(P, R, i)) # Cardinality(Below(P, R, j))
  BY <1>1, <1>2, <1>3, FS_Subset
<1> QED
  BY <1>3, <1>4, FS_CardinalityType

\* at counts through an order: its k-th is the one that k - 1 come before.
CountsRanks(at, P, R, n) ==
  /\ at \in [1..n -> P]
  /\ \A k, l \in 1..n : at[k] = at[l] => k = l
  /\ \A i \in P : \E k \in 1..n : at[k] = i
  /\ \A k, l \in 1..n : k < l => <<at[k], at[l]>> \in R
  /\ \A k \in 1..n : \A i \in P : Cardinality(Below(P, R, i)) = k - 1 <=> i = at[k]

\* The same of places in a sequence, counted from the first.
CountsPlaces(at, P, n) ==
  /\ at \in [1..n -> P]
  /\ \A k, l \in 1..n : at[k] = at[l] => k = l
  /\ \A i \in P : \E k \in 1..n : at[k] = i
  /\ \A k, l \in 1..n : k < l => at[k] < at[l]
  /\ \A k \in 1..n : \A i \in P : Cardinality({j \in P : j < i}) = k - 1 <=> i = at[k]

\* A finite order can be counted through.
LEMMA OrderIsCounted ==
  ASSUME NEW P, IsFiniteSet(P), NEW R, IsOrder(P, R)
  PROVE  /\ Cardinality(P) \in Nat
         /\ \E at : CountsRanks(at, P, R, Cardinality(P))
<1> DEFINE n == Cardinality(P)
           rank == [i \in P |-> Cardinality(Below(P, R, i))]
           at == [k \in 1..n |-> CHOOSE i \in P : rank[i] = k - 1]
<1>1. n \in Nat /\ rank \in Injection(P, 0..(n - 1)) /\ rank \in Surjection(P, 0..(n - 1))
  BY RanksAreAll
<1>2. \A i \in P : Cardinality(Below(P, R, i)) = rank[i]
  OBVIOUS
<1> HIDE DEF rank
<1>3. ASSUME NEW k \in 1..n
      PROVE  at[k] \in P /\ rank[at[k]] = k - 1
  <2>1. k - 1 \in 0..(n - 1)
    BY <1>1
  <2>2. \E i \in P : rank[i] = k - 1
    BY <1>1, <2>1 DEF Surjection
  <2> QED
    BY <2>2
<1>4. at \in [1..n -> P]
  BY <1>3
<1> HIDE DEF at
<1>5. \A k, l \in 1..n : at[k] = at[l] => k = l
  <2> TAKE k, l \in 1..n
  <2> HAVE at[k] = at[l]
  <2>1. k - 1 = l - 1
    BY <1>3
  <2> QED
    BY <2>1
<1>6. ASSUME NEW k \in 1..n, NEW i \in P
      PROVE  rank[i] = k - 1 <=> i = at[k]
  BY <1>1, <1>3 DEF Injection, IsInjective
<1>7. ASSUME NEW i \in P
      PROVE  \E k \in 1..n : at[k] = i
  <2>1. rank[i] \in 0..(n - 1)
    BY <1>1 DEF Injection
  <2>2. rank[i] + 1 \in 1..n /\ (rank[i] + 1) - 1 = rank[i]
    BY <1>1, <2>1
  <2> QED
    BY <1>6, <2>2
<1>8. ASSUME NEW k \in 1..n, NEW l \in 1..n, k < l
      PROVE  <<at[k], at[l]>> \in R
  <2>1. at[k] \in P /\ at[l] \in P /\ rank[at[k]] = k - 1 /\ rank[at[l]] = l - 1
    BY <1>3
  <2>2. at[k] # at[l]
    BY <1>1, <1>5, <1>8
  <2>3. ASSUME <<at[l], at[k]>> \in R PROVE FALSE
    <3>1. rank[at[l]] < rank[at[k]]
      BY <1>2, <2>1, <2>3, RanksGrow
    <3> QED
      BY <1>1, <1>8, <2>1, <3>1
  <2> QED
    BY <2>1, <2>2, <2>3 DEF IsOrder
<1>9. \A k \in 1..n : \A i \in P : Cardinality(Below(P, R, i)) = k - 1 <=> i = at[k]
  BY <1>2, <1>6
<1>10. CountsRanks(at, P, R, n)
  BY <1>4, <1>5, <1>7, <1>8, <1>9 DEF CountsRanks
<1> QED
  BY <1>1, <1>10

LEMMA PlacesAreCounted ==
  ASSUME NEW m \in Nat, NEW P \in SUBSET (1..m)
  PROVE  /\ IsFiniteSet(P) /\ Cardinality(P) \in Nat /\ Cardinality(P) <= m
         /\ \E at : CountsPlaces(at, P, Cardinality(P))
<1> DEFINE n == Cardinality(P)
           R == {p \in P \X P : p[1] < p[2]}
<1>1. IsFiniteSet(1..m) /\ Cardinality(1..m) = m
  BY FS_Interval
<1>2. IsFiniteSet(P) /\ n <= m /\ n \in Nat
  BY <1>1, FS_Subset, FS_CardinalityType
<1>3. P \in SUBSET Int /\ \A i, j \in P : <<i, j>> \in R <=> i < j
  OBVIOUS
<1> HIDE DEF R
<1>4. IsOrder(P, R)
  <2>1. \A i, j, k \in P :
          /\ ~(i < i)
          /\ i < j /\ j < k => i < k
          /\ i # j => i < j \/ j < i
    BY <1>3
  <2> QED
    BY <1>3, <2>1, Zenon DEF IsOrder
<1>5. \A i \in P : Below(P, R, i) = {j \in P : j < i}
  BY <1>3 DEF Below
<1>6. PICK at : CountsRanks(at, P, R, n)
  BY <1>2, <1>4, OrderIsCounted
<1> HIDE DEF n
<1>7. \A k, l \in 1..n : k < l => at[k] < at[l]
  BY <1>3, <1>6 DEF CountsRanks
<1>8. \A k \in 1..n : \A i \in P : Cardinality({j \in P : j < i}) = k - 1 <=> i = at[k]
  BY <1>5, <1>6 DEF CountsRanks
<1>9. CountsPlaces(at, P, n)
  BY <1>6, <1>7, <1>8 DEF CountsRanks, CountsPlaces
<1> QED
  BY <1>2, <1>9 DEF n

\* What two lists name, one after the other.
LEMMA ConcatNames ==
  ASSUME NEW X, NEW s \in Seq(X), NEW t \in Seq(X)
  PROVE  ToSet(s \o t) = ToSet(s) \cup ToSet(t)
<1> DEFINE m == Len(s)
           n == Len(t)
           r == s \o t
<1>1. m \in Nat /\ n \in Nat /\ DOMAIN s = 1..m /\ DOMAIN t = 1..n
  BY LenProperties
<1>2. /\ r \in Seq(X) /\ Len(r) = m + n
      /\ \A j \in 1..(m + n) : r[j] = IF j <= m THEN s[j] ELSE t[j - m]
  BY ConcatProperties
<1>3. DOMAIN r = 1..(m + n)
  BY <1>2, LenProperties
<1> HIDE DEF r, m, n
<1>4. \A j \in DOMAIN r : r[j] \in ToSet(s) \cup ToSet(t)
  <2>1. \A j \in 1..(m + n) : j \in 1..m \/ (~(j <= m) /\ j - m \in 1..n)
    BY <1>1
  <2>2. \A j \in 1..m : j <= m
    BY <1>1
  <2> QED
    BY <1>1, <1>2, <1>3, <2>1, <2>2 DEF ToSet
<1>5. \A j \in DOMAIN s : s[j] \in ToSet(r)
  <2>1. \A j \in 1..m : j \in 1..(m + n) /\ j <= m
    BY <1>1
  <2> QED
    BY <1>1, <1>2, <1>3, <2>1 DEF ToSet
<1>6. \A j \in DOMAIN t : t[j] \in ToSet(r)
  <2>1. \A j \in 1..n : j + m \in 1..(m + n) /\ ~(j + m <= m) /\ (j + m) - m = j
    BY <1>1
  <2>2. \A j \in 1..n : r[j + m] = t[j]
    BY <1>2, <2>1
  <2> QED
    BY <1>1, <1>3, <2>1, <2>2 DEF ToSet
<1>7. ToSet(s) \subseteq ToSet(r) /\ ToSet(t) \subseteq ToSet(r)
  BY <1>5, <1>6 DEF ToSet
<1>8. ToSet(r) \subseteq ToSet(s) \cup ToSet(t)
  BY <1>4 DEF ToSet
<1> QED
  BY <1>7, <1>8 DEF r
===============================================================================
