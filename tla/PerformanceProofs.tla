-------------------------- MODULE PerformanceProofs --------------------------
(* Proofs about packages/core/src/intervention/performance: the metrics, the *)
(* shards of conversations and the queue of requests, for any limits and any *)
(* number of messages, events and requests.                                  *)
EXTENDS PerformanceMetrics, ConversationShard, InterventionQueue, SequenceLemmas,
        FiniteSetTheorems, SequenceTheorems, TLAPS

-----------------------------------------------------------------------------
(***************************************************************************)
(* Proofs about the metrics, for any latencies, windows and thresholds.    *)
(* What was recorded is in order, what the tracker still holds is its end, *)
(* and what it has forgotten is old: a rate is a number of last events.    *)
(***************************************************************************)

\* A window that was within its limit is within it again after a shift.
LEMMA ShiftedType ==
  ASSUME NEW S, NEW q \in Seq(S), NEW v \in S, NEW limit \in Nat \ {0}, Len(q) <= limit
  PROVE  Shifted(Append(q, v), limit) \in Seq(S) /\ Len(Shifted(Append(q, v), limit)) <= limit
<1> DEFINE r == Append(q, v)
<1>1. r \in Seq(S) /\ Len(r) = Len(q) + 1 /\ r # <<>>
  BY AppendProperties
<1> HIDE DEF r
<1>2. Tail(r) \in Seq(S) /\ Len(Tail(r)) = Len(r) - 1
  BY <1>1, HeadTailProperties
<1> QED
  BY <1>1, <1>2 DEF Shifted, r

\* Pruning takes c from the front: the old ones up to the first that is not.
PrunesOf(ts, c) ==
  /\ c \in 0..Len(ts)
  /\ Pruned(ts) \in Seq(Nat) /\ Len(Pruned(ts)) = Len(ts) - c
  /\ \A i \in 1..(Len(ts) - c) : Pruned(ts)[i] = ts[c + i]
  /\ \A i \in 1..c : IsOld(ts[i])
  /\ c < Len(ts) => ~IsOld(ts[c + 1])

LEMMA PruningIs ==
  ASSUME NEW ts \in Seq(Nat)
  PROVE  \E c \in Nat : PrunesOf(ts, c)
<1> DEFINE fresh == {i \in DOMAIN ts : ~IsOld(ts[i])}
           n == Len(ts)
<1>1. n \in Nat /\ DOMAIN ts = 1..n /\ fresh \in SUBSET Nat
  BY LenProperties
<1>2. CASE fresh = {}
  <2>1. Pruned(ts) = <<>>
    BY <1>2 DEF Pruned
  <2>2. \A i \in 1..n : IsOld(ts[i])
    BY <1>1, <1>2
  <2>3. <<>> \in Seq(Nat) /\ Len(<<>>) = 0
    BY EmptySeq
  <2>4. n \in 0..Len(ts) /\ Len(ts) - n = 0
    BY <1>1
  <2>5. PrunesOf(ts, n)
    BY <1>1, <2>1, <2>2, <2>3, <2>4 DEF PrunesOf
  <2> QED
    BY <1>1, <2>5
<1>3. CASE fresh # {}
  <2> DEFINE f == CHOOSE i \in fresh : \A j \in fresh : i <= j
  <2>1. f \in fresh /\ \A j \in fresh : f <= j
    BY <1>1, <1>3, LeastNumber
  <2>2. Pruned(ts) = SubSeq(ts, f, n)
    BY <1>3 DEF Pruned
  <2> HIDE DEF f
  <2>3. f \in 1..n /\ ~IsOld(ts[f])
    BY <1>1, <2>1
  <2>4. \A i \in 1..(f - 1) : IsOld(ts[i])
    BY <1>1, <2>1, <2>3
  <2> HIDE DEF fresh
  <2>5. /\ SubSeq(ts, f, n) \in Seq(Nat)
        /\ Len(SubSeq(ts, f, n)) = n - f + 1
        /\ \A i \in 1..(n - f + 1) : SubSeq(ts, f, n)[i] = ts[f + i - 1]
    BY <1>1, <2>3, SubSeqProperties
  <2>6. f - 1 \in 0..n /\ n - (f - 1) = n - f + 1 /\ (f - 1) + 1 = f /\ f - 1 \in Nat
    BY <1>1, <2>3
  <2>7. \A i \in 1..(n - f + 1) : f + i - 1 = (f - 1) + i
    BY <1>1, <2>3
  <2> HIDE DEF n
  <2>8. PrunesOf(ts, f - 1)
    BY <2>2, <2>3, <2>4, <2>5, <2>6, <2>7 DEF PrunesOf, n
  <2> QED
    BY <2>6, <2>8
<1> QED
  BY <1>2, <1>3

\* ts is the end of what was recorded, and what it lacks is old.
IsTheEndOf(ts, all) ==
  /\ ts \in Seq(Nat) /\ Len(ts) <= Len(all)
  /\ \A i \in 1..Len(ts) : ts[i] = all[Len(all) - Len(ts) + i]
  /\ \A i \in 1..(Len(all) - Len(ts)) : IsOld(all[i])

\* The recorded times are in order and none is to come.
InOrder(all) ==
  /\ all \in Seq(Nat)
  /\ \A i \in 1..Len(all) : all[i] <= time
  /\ \A i, j \in 1..Len(all) : i <= j => all[i] <= all[j]

\* A pruned end is an end.
LEMMA PrunedIsTheEnd ==
  ASSUME NEW all \in Seq(Nat), NEW ts, IsTheEndOf(ts, all)
  PROVE  IsTheEndOf(Pruned(ts), all)
<1>1. ts \in Seq(Nat)
  BY DEF IsTheEndOf
<1>2. PICK c \in Nat : PrunesOf(ts, c)
  BY <1>1, PruningIs
<1> DEFINE m == Len(all)
           n == Len(ts)
           p == Pruned(ts)
<1>3. /\ m \in Nat /\ n \in Nat /\ n <= m
      /\ \A i \in 1..n : ts[i] = all[m - n + i]
      /\ \A i \in 1..(m - n) : IsOld(all[i])
  BY <1>1, LenProperties DEF IsTheEndOf
<1>4. /\ c \in 0..n /\ p \in Seq(Nat) /\ Len(p) = n - c
      /\ \A i \in 1..(n - c) : p[i] = ts[c + i]
      /\ \A i \in 1..c : IsOld(ts[i])
  BY <1>2 DEF PrunesOf
<1> HIDE DEF m, n, p
<1>5. ASSUME NEW i \in 1..Len(p) PROVE p[i] = all[m - Len(p) + i]
  <2>1. i \in 1..(n - c) /\ c + i \in 1..n /\ m - n + (c + i) = m - Len(p) + i
    BY <1>3, <1>4
  <2> QED
    BY <1>3, <1>4, <2>1
<1>6. ASSUME NEW i \in 1..(m - Len(p)) PROVE IsOld(all[i])
  <2>1. CASE i \in 1..(m - n)
    BY <1>3, <2>1
  <2>2. CASE i \notin 1..(m - n)
    <3>1. i - (m - n) \in 1..c /\ i - (m - n) \in 1..n /\ m - n + (i - (m - n)) = i
      BY <1>3, <1>4, <2>2
    <3> QED
      BY <1>3, <1>4, <3>1
  <2> QED
    BY <2>1, <2>2
<1>7. Len(p) <= m
  BY <1>3, <1>4
<1> QED
  BY <1>4, <1>5, <1>6, <1>7 DEF IsTheEndOf, m, p

\* An event that is recorded at both ends keeps one the end of the other.
LEMMA RecordedIsTheEnd ==
  ASSUME NEW all, InOrder(all), NEW ts, IsTheEndOf(ts, all), time \in Nat
  PROVE  /\ InOrder(Append(all, time))
         /\ IsTheEndOf(Append(ts, time), Append(all, time))
<1> DEFINE m == Len(all)
           n == Len(ts)
           a == Append(all, time)
           u == Append(ts, time)
<1>1. /\ all \in Seq(Nat) /\ ts \in Seq(Nat) /\ m \in Nat /\ n \in Nat /\ n <= m
      /\ \A i \in 1..m : all[i] <= time /\ all[i] \in Nat
      /\ \A i, j \in 1..m : i <= j => all[i] <= all[j]
      /\ \A i \in 1..n : ts[i] = all[m - n + i]
      /\ \A i \in 1..(m - n) : IsOld(all[i])
  BY LenProperties DEF InOrder, IsTheEndOf
<1>2. /\ a \in Seq(Nat) /\ Len(a) = m + 1 /\ a[m + 1] = time
      /\ \A i \in 1..m : a[i] = all[i]
  BY <1>1, AppendProperties
<1>3. /\ u \in Seq(Nat) /\ Len(u) = n + 1 /\ u[n + 1] = time
      /\ \A i \in 1..n : u[i] = ts[i]
  BY <1>1, AppendProperties
<1> HIDE DEF m, n, a, u
<1>4. \A i \in 1..(m + 1) : i \in 1..m \/ i = m + 1
  BY <1>1
<1>5. ASSUME NEW i \in 1..(m + 1) PROVE a[i] <= time
  <2>1. CASE i \in 1..m
    BY <1>1, <1>2, <2>1
  <2>2. CASE i = m + 1
    BY <1>2, <2>2
  <2> QED
    BY <1>4, <2>1, <2>2
<1>6. ASSUME NEW i \in 1..(m + 1), NEW j \in 1..(m + 1), i <= j
      PROVE  a[i] <= a[j]
  <2>1. CASE j = m + 1
    BY <1>2, <1>5, <2>1
  <2>2. CASE j \in 1..m
    <3>1. i \in 1..m
      BY <1>1, <1>6, <2>2
    <3> QED
      BY <1>1, <1>2, <1>6, <2>2, <3>1
  <2> QED
    BY <1>4, <2>1, <2>2
<1>7. InOrder(a)
  BY <1>2, <1>5, <1>6 DEF InOrder
<1>8. ASSUME NEW i \in 1..(n + 1) PROVE u[i] = a[(m + 1) - (n + 1) + i]
  <2>1. (m + 1) - (n + 1) + i = m - n + i
    BY <1>1
  <2>2. CASE i = n + 1
    <3>1. m - n + i = m + 1
      BY <1>1, <2>2
    <3> QED
      BY <1>2, <1>3, <2>1, <2>2, <3>1
  <2>3. CASE i # n + 1
    <3>1. i \in 1..n /\ m - n + i \in 1..m
      BY <1>1, <2>3
    <3> QED
      BY <1>1, <1>2, <1>3, <2>1, <3>1
  <2> QED
    BY <2>2, <2>3
<1>9. ASSUME NEW i \in 1..((m + 1) - (n + 1)) PROVE IsOld(a[i])
  <2>1. i \in 1..(m - n) /\ i \in 1..m
    BY <1>1
  <2> QED
    BY <1>1, <1>2, <2>1
<1>10. n + 1 <= m + 1
  BY <1>1
<1>11. IsTheEndOf(u, a)
  BY <1>2, <1>3, <1>8, <1>9, <1>10 DEF IsTheEndOf
<1> QED
  BY <1>7, <1>11 DEF a, u

\* The events of the window are the last ones, those that pruning leaves.
LEMMA RateIsOfTheWindow ==
  ASSUME time \in Nat, RateWindow \in Nat, NEW all, InOrder(all), NEW ts, IsTheEndOf(ts, all)
  PROVE  RateOf(ts) = Cardinality({i \in DOMAIN all : time - all[i] <= RateWindow})
<1> DEFINE p == Pruned(ts)
           m == Len(all)
           W == {i \in DOMAIN all : time - all[i] <= RateWindow}
<1>1. /\ all \in Seq(Nat) /\ m \in Nat /\ DOMAIN all = 1..m
      /\ \A i \in 1..m : all[i] \in Nat
      /\ \A i, j \in 1..m : i <= j => all[i] <= all[j]
  BY LenProperties DEF InOrder
<1>2. IsTheEndOf(p, all)
  BY <1>1, PrunedIsTheEnd
<1>3. ts \in Seq(Nat)
  BY DEF IsTheEndOf
<1>4. PICK c \in Nat : PrunesOf(ts, c)
  BY <1>3, PruningIs
<1> DEFINE k == Len(p)
<1>5. /\ k \in Nat /\ k <= m
      /\ \A i \in 1..k : p[i] = all[m - k + i]
      /\ \A i \in 1..(m - k) : IsOld(all[i])
  BY <1>2, LenProperties DEF IsTheEndOf
<1>6. k > 0 => ~IsOld(p[1])
  <2> SUFFICES ASSUME k > 0 PROVE ~IsOld(p[1])
    OBVIOUS
  <2>1. /\ Len(ts) \in Nat /\ c \in 0..Len(ts) /\ k = Len(ts) - c
        /\ \A i \in 1..(Len(ts) - c) : p[i] = ts[c + i]
        /\ c < Len(ts) => ~IsOld(ts[c + 1])
    BY <1>3, <1>4, LenProperties DEF PrunesOf
  <2> HIDE DEF k, p
  <2>2. c < Len(ts) /\ 1 \in 1..(Len(ts) - c)
    BY <2>1
  <2> QED
    BY <2>1, <2>2
<1> HIDE DEF p, k, m
<1>7. ASSUME NEW i \in 1..m PROVE time - all[i] <= RateWindow <=> i \in (m - k + 1)..m
  <2>1. CASE i \in 1..(m - k)
    BY <1>1, <1>5, <2>1 DEF IsOld
  <2>2. CASE i \notin 1..(m - k)
    <3>1. i \in (m - k + 1)..m /\ k > 0 /\ m - k + 1 \in 1..m /\ m - k + 1 <= i
      BY <1>1, <1>5, <2>2
    <3>2. all[m - k + 1] <= all[i] /\ p[1] = all[m - k + 1] /\ ~IsOld(all[m - k + 1])
      BY <1>1, <1>5, <1>6, <3>1
    <3>3. all[i] \in Nat /\ all[m - k + 1] \in Nat
      BY <1>1, <3>1
    <3> QED
      BY <3>1, <3>2, <3>3 DEF IsOld
  <2> QED
    BY <2>1, <2>2
<1>8. (m - k + 1)..m \subseteq 1..m
  BY <1>5, <1>1
<1>9. W = (m - k + 1)..m
  BY <1>1, <1>7, <1>8
<1> HIDE DEF W
<1>10. Cardinality((m - k + 1)..m) = k
  <2>1. m - k + 1 \in Int /\ m \in Int
    BY <1>1, <1>5
  <2>2. Cardinality((m - k + 1)..m) = IF m - k + 1 > m THEN 0 ELSE m - (m - k + 1) + 1
    BY <2>1, FS_Interval
  <2> QED
    BY <1>1, <1>5, <2>2
<1>11. RateOf(ts) = k
  BY DEF RateOf, k, p
<1> QED
  BY <1>9, <1>10, <1>11 DEF W

-----------------------------------------------------------------------------
(* The percentiles                                                         *)

\* at puts the window in its order.
SortsAt(q, at) ==
  /\ at \in [1..Len(q) -> 1..Len(q)]
  /\ \A k, l \in 1..Len(q) : at[k] = at[l] => k = l
  /\ \A k, l \in 1..Len(q) : k <= l => q[at[k]] <= q[at[l]]
  /\ \A k \in 1..Len(q) : Sorted(q)[k] = q[at[k]]

LEMMA SortedIs ==
  ASSUME NEW q \in Seq(Nat)
  PROVE  \E at : SortsAt(q, at)
<1> DEFINE n == Len(q)
           P == 1..n
           R == {p \in P \X P : \/ q[p[1]] < q[p[2]]
                                \/ q[p[1]] = q[p[2]] /\ p[1] < p[2]}
<1>1. n \in Nat /\ DOMAIN q = P /\ \A i \in P : q[i] \in Nat
  BY LenProperties
<1>2. IsFiniteSet(P) /\ Cardinality(P) = n
  BY <1>1, FirstNumbers
<1>3. \A i, j \in P : <<i, j>> \in R <=> (q[i] < q[j] \/ (q[i] = q[j] /\ i < j))
  OBVIOUS
<1> HIDE DEF R
<1>4. IsOrder(P, R)
  <2>1. ASSUME NEW i \in P, NEW j \in P, NEW k \in P
        PROVE  /\ <<i, i>> \notin R
               /\ <<i, j>> \in R /\ <<j, k>> \in R => <<i, k>> \in R
               /\ i # j => <<i, j>> \in R \/ <<j, i>> \in R
    <3>1. q[i] \in Nat /\ q[j] \in Nat /\ q[k] \in Nat /\ i \in Nat /\ j \in Nat /\ k \in Nat
      BY <1>1
    <3> HIDE DEF P
    <3> QED
      BY <1>3, <3>1
  <2> HIDE DEF P
  <2> QED
    BY <2>1 DEF IsOrder
<1>5. PICK at : CountsRanks(at, P, R, n)
  BY <1>2, <1>4, OrderIsCounted
<1>6. /\ at \in [1..n -> P]
      /\ \A k, l \in 1..n : at[k] = at[l] => k = l
      /\ \A k, l \in 1..n : k < l => <<at[k], at[l]>> \in R
      /\ \A k \in 1..n : \A i \in P : Cardinality(Below(P, R, i)) = k - 1 <=> i = at[k]
  BY <1>5 DEF CountsRanks
<1>7. \A i \in P : Below(P, R, i) = Smaller(q, i)
  BY <1>1, <1>3 DEF Below, Smaller
<1>8. ASSUME NEW k \in 1..n PROVE Sorted(q)[k] = q[at[k]]
  <2>1. \A i \in P : Cardinality(Smaller(q, i)) = k - 1 <=> i = at[k]
    BY <1>6, <1>7
  <2>2. (CHOOSE i \in DOMAIN q : Cardinality(Smaller(q, i)) = k - 1) = at[k]
    BY <1>1, <1>6, <2>1
  <2>3. Sorted(q)[k] = q[CHOOSE i \in DOMAIN q : Cardinality(Smaller(q, i)) = k - 1]
    BY <1>1 DEF Sorted
  <2> QED
    BY <2>2, <2>3
<1>9. ASSUME NEW k \in 1..n, NEW l \in 1..n, k <= l
      PROVE  q[at[k]] <= q[at[l]]
  <2>1. at[k] \in P /\ at[l] \in P
    BY <1>6
  <2>2. CASE k = l
    BY <1>1, <2>1, <2>2
  <2>3. CASE k < l
    <3>1. <<at[k], at[l]>> \in R
      BY <1>6, <2>3
    <3>2. q[at[k]] \in Nat /\ q[at[l]] \in Nat
      BY <1>1, <2>1
    <3> HIDE DEF P
    <3>3. q[at[k]] < q[at[l]] \/ q[at[k]] = q[at[l]]
      BY <1>3, <2>1, <3>1
    <3> QED
      BY <3>2, <3>3
  <2> QED
    BY <1>9, <2>2, <2>3
<1>10. SortsAt(q, at)
  BY <1>6, <1>8, <1>9 DEF SortsAt
<1> QED
  BY <1>10

\* Where a percentile is taken: within the window, after its share.
PlaceOf(n, h) == (n * h) \div 100 + 1

LEMMA PlaceIsInside ==
  ASSUME NEW n \in Nat \ {0}
  PROVE  /\ \A h \in {50, 95, 99} : PlaceOf(n, h) \in 1..n /\ 100 * PlaceOf(n, h) >= h * n
         /\ PlaceOf(n, 50) <= PlaceOf(n, 95)
<1>1. PlaceOf(n, 50) \in 1..n /\ 100 * PlaceOf(n, 50) >= 50 * n
  BY DEF PlaceOf
<1>2. PlaceOf(n, 95) \in 1..n /\ 100 * PlaceOf(n, 95) >= 95 * n
  BY DEF PlaceOf
<1>3. PlaceOf(n, 99) \in 1..n /\ 100 * PlaceOf(n, 99) >= 99 * n
  BY DEF PlaceOf
<1>4. PlaceOf(n, 50) <= PlaceOf(n, 95)
  BY DEF PlaceOf
<1> QED
  BY <1>1, <1>2, <1>3, <1>4

\* As many samples as come up to a place are not above the one that is there.
LEMMA ShareBelow ==
  ASSUME NEW q \in Seq(Nat), NEW at, SortsAt(q, at), NEW k \in 1..Len(q)
  PROVE  LET B == {i \in DOMAIN q : q[i] <= q[at[k]]}
         IN  Cardinality(B) \in Nat /\ k <= Cardinality(B)
<1> DEFINE B == {i \in DOMAIN q : q[i] <= q[at[k]]}
           n == Len(q)
           f == [j \in 1..k |-> at[j]]
<1>1. /\ n \in Nat /\ DOMAIN q = 1..n
      /\ at \in [1..n -> 1..n]
      /\ \A i, j \in 1..n : at[i] = at[j] => i = j
      /\ \A i, j \in 1..n : i <= j => q[at[i]] <= q[at[j]]
  BY LenProperties DEF SortsAt
<1>2. k \in Nat /\ k \in 1..n /\ \A j \in 1..k : j \in 1..n /\ j <= k
  BY <1>1
<1>3. \A j \in 1..k : at[j] \in B
  BY <1>1, <1>2
<1>4. B \in SUBSET (1..n)
  BY <1>1
<1> HIDE DEF B, n
<1>5. f \in [1..k -> B] /\ \A i, j \in 1..k : f[i] = f[j] => i = j
  BY <1>1, <1>2, <1>3
<1> HIDE DEF f
<1>6. f \in Injection(1..k, B)
  BY <1>5 DEF Injection, IsInjective
<1>7. IsFiniteSet(B) /\ Cardinality(B) \in Nat
  BY <1>1, <1>4, FirstNumbers, FS_Subset, FS_CardinalityType
<1>8. Cardinality(1..k) <= Cardinality(B)
  BY <1>6, <1>7, FS_Injection
<1> QED
  BY <1>2, <1>7, <1>8, FirstNumbers DEF B

LEMMA WindowIsOrdered ==
  ASSUME samples \in Seq(Nat)
  PROVE  PercentilesOrdered
<1> SUFFICES ASSUME samples # <<>>
             PROVE  /\ \A h \in {50, 95, 99} :
                         /\ \E i \in DOMAIN samples : samples[i] = Percentile(samples, h)
                         /\ 100 * Cardinality({i \in DOMAIN samples : samples[i] <= Percentile(samples, h)})
                              >= h * Len(samples)
                    /\ Percentile(samples, 50) <= Percentile(samples, 95)
                    /\ Percentile(samples, 99) <= Maximum(samples)
  BY DEF PercentilesOrdered
<1> DEFINE n == Len(samples)
<1>1. n \in Nat \ {0} /\ DOMAIN samples = 1..n
  BY EmptySeq, LenProperties
<1>2. PICK at : SortsAt(samples, at)
  BY SortedIs
<1>3. /\ at \in [1..n -> 1..n]
      /\ \A k, l \in 1..n : k <= l => samples[at[k]] <= samples[at[l]]
      /\ \A k \in 1..n : Sorted(samples)[k] = samples[at[k]]
  BY <1>2 DEF SortsAt
<1>4. \A h \in {50, 95, 99} : Percentile(samples, h) = Sorted(samples)[PlaceOf(n, h)]
  BY DEF Percentile, PlaceOf
<1>5. Maximum(samples) = Sorted(samples)[n]
  BY DEF Maximum
<1>6. /\ \A h \in {50, 95, 99} : PlaceOf(n, h) \in 1..n /\ 100 * PlaceOf(n, h) >= h * n
      /\ PlaceOf(n, 50) <= PlaceOf(n, 95)
  BY <1>1, PlaceIsInside
<1>7. \A k \in 1..n : /\ Cardinality({i \in DOMAIN samples : samples[i] <= samples[at[k]]}) \in Nat
                      /\ k <= Cardinality({i \in DOMAIN samples : samples[i] <= samples[at[k]]})
  BY <1>2, ShareBelow
<1> HIDE DEF n
<1>8. ASSUME NEW h \in {50, 95, 99}
      PROVE  /\ \E i \in DOMAIN samples : samples[i] = Percentile(samples, h)
             /\ 100 * Cardinality({i \in DOMAIN samples : samples[i] <= Percentile(samples, h)})
                  >= h * n
  <2> DEFINE k == PlaceOf(n, h)
             C == Cardinality({i \in DOMAIN samples : samples[i] <= samples[at[k]]})
  <2>1. k \in 1..n /\ 100 * k >= h * n /\ h \in Nat
    BY <1>6
  <2>2. Percentile(samples, h) = samples[at[k]] /\ at[k] \in 1..n
    BY <1>3, <1>4, <2>1
  <2>3. C \in Nat /\ k <= C
    BY <1>7, <2>1
  <2> HIDE DEF C, k
  <2>4. 100 * C >= 100 * k /\ k \in Nat
    BY <1>1, <2>1, <2>3
  <2>5. h * n \in Nat
    BY <1>1, <2>1
  <2>6. 100 * C >= h * n
    BY <2>1, <2>3, <2>4, <2>5
  <2> QED
    BY <1>1, <2>2, <2>6 DEF C
<1>9. Percentile(samples, 50) <= Percentile(samples, 95)
  BY <1>3, <1>4, <1>6
<1>10. Percentile(samples, 99) <= Maximum(samples)
  <2>1. PlaceOf(n, 99) \in 1..n /\ n \in 1..n /\ PlaceOf(n, 99) <= n
    BY <1>1, <1>6
  <2> QED
    BY <1>3, <1>4, <1>5, <2>1
<1> QED
  BY <1>8, <1>9, <1>10 DEF n

-----------------------------------------------------------------------------
(* The inductive invariant                                                 *)

MetricsIInv ==
  /\ MetricsTypeOK
  /\ InOrder(recorded)
  /\ IsTheEndOf(timestamps, recorded)
  /\ snapshots \in Seq(Nat)

LEMMA MetricsImplied ==
  ASSUME MetricsIInv
  PROVE  MetricsInv
<1>1. time \in Nat /\ RateWindow \in Nat
  BY MetricsAssumption DEF MetricsIInv, MetricsTypeOK
<1>2. RateCountsWindow
  BY <1>1, RateIsOfTheWindow DEF MetricsIInv, RateCountsWindow
<1>3. samples \in Seq(Nat)
  <2>1. samples \in Seq(Latencies) /\ Latencies \subseteq Nat
    BY MetricsAssumption DEF MetricsIInv, MetricsTypeOK
  <2>2. /\ Len(samples) \in Nat /\ samples \in [1..Len(samples) -> Nat]
    BY <2>1, LenProperties
  <2> QED
    BY <2>2, SeqDef
<1> QED
  BY <1>2, <1>3, WindowIsOrdered DEF MetricsInv, MetricsIInv

LEMMA MetricsInitial ==
  ASSUME MetricsInit
  PROVE  MetricsIInv
<1>1. MetricsTypeOK
  <2>1. /\ time \in 0..MaxTime /\ samples \in Seq(Latencies) /\ Len(samples) <= WindowSize
        /\ queueDepth \in Nat /\ Len(snapshots) <= MaxSnapshots
        /\ collecting \in BOOLEAN /\ alerts \subseteq Thresholds
    <3>1. \A S : <<>> \in Seq(S) /\ Len(<<>>) = 0
      BY EmptySeq
    <3>2. 0 \in 0..MaxTime /\ 0 <= WindowSize /\ 0 <= MaxSnapshots /\ {} \subseteq Thresholds
      BY MetricsAssumption
    <3> QED
      BY <3>1, <3>2 DEF MetricsInit
  <2>2. DOMAIN connectionStates \subseteq Watched /\ Range(connectionStates) \subseteq MetricStates
    BY DEF MetricsInit, Range
  <2> QED
    BY <2>1, <2>2 DEF MetricsTypeOK
<1>2. recorded = <<>> /\ timestamps = <<>> /\ snapshots = <<>> /\ Len(<<>>) = 0
      /\ <<>> \in Seq(Nat)
  BY EmptySeq DEF MetricsInit
<1>3. InOrder(recorded)
  BY <1>2 DEF InOrder
<1>4. IsTheEndOf(timestamps, recorded)
  BY <1>2 DEF IsTheEndOf
<1> QED
  BY <1>1, <1>2, <1>3, <1>4 DEF MetricsIInv

\* What a step leaves alone stays the end of what was recorded.
LEMMA EndsKept ==
  ASSUME MetricsIInv, UNCHANGED <<time, timestamps, recorded>>
  PROVE  InOrder(recorded)' /\ IsTheEndOf(timestamps, recorded)'
BY DEF MetricsIInv, InOrder, IsTheEndOf, IsOld

\* So does what it prunes.
LEMMA EndsPruned ==
  ASSUME MetricsIInv, UNCHANGED <<time, recorded>>, timestamps' = Pruned(timestamps)
  PROVE  InOrder(recorded)' /\ IsTheEndOf(timestamps, recorded)'
<1>1. recorded \in Seq(Nat)
  BY DEF MetricsIInv, InOrder
<1>2. IsTheEndOf(Pruned(timestamps), recorded)
  BY <1>1, PrunedIsTheEnd DEF MetricsIInv
<1> QED
  BY <1>2 DEF MetricsIInv, InOrder, IsTheEndOf, IsOld

LEMMA LatencyStep ==
  ASSUME MetricsIInv, NEW v \in Latencies, RecordLatency(v)
  PROVE  MetricsIInv'
<1>1. samples' \in Seq(Latencies) /\ Len(samples') <= WindowSize
  BY ShiftedType, MetricsAssumption DEF MetricsIInv, MetricsTypeOK, RecordLatency
<1>2. InOrder(recorded)' /\ IsTheEndOf(timestamps, recorded)'
  BY EndsKept DEF RecordLatency
<1> QED
  BY <1>1, <1>2 DEF MetricsIInv, MetricsTypeOK, RecordLatency

LEMMA EventStep ==
  ASSUME MetricsIInv, RecordEvent
  PROVE  MetricsIInv'
<1>1. time \in Nat
  BY MetricsAssumption DEF MetricsIInv, MetricsTypeOK
<1>2. /\ InOrder(Append(recorded, time))
      /\ IsTheEndOf(Append(timestamps, time), Append(recorded, time))
  BY <1>1, RecordedIsTheEnd DEF MetricsIInv
<1>3. Append(recorded, time) \in Seq(Nat)
  BY <1>2 DEF InOrder
<1>4. IsTheEndOf(Pruned(Append(timestamps, time)), Append(recorded, time))
  BY <1>2, <1>3, PrunedIsTheEnd
<1>5. InOrder(recorded)' /\ IsTheEndOf(timestamps, recorded)'
  BY <1>2, <1>4 DEF RecordEvent, InOrder, IsTheEndOf, IsOld
<1> QED
  BY <1>5 DEF MetricsIInv, MetricsTypeOK, RecordEvent

LEMMA ConnectionStep ==
  ASSUME MetricsIInv, NEW c \in Watched,
         RemoveConnection(c) \/ \E s \in {"connected", "error"} : UpdateConnectionState(c, s)
  PROVE  MetricsIInv'
<1>1. UNCHANGED <<time, samples, timestamps, recorded, queueDepth, snapshots, collecting, alerts>>
  BY DEF RemoveConnection, UpdateConnectionState
<1>2. DOMAIN connectionStates' \subseteq Watched /\ Range(connectionStates') \subseteq MetricStates
  <2>1. DOMAIN connectionStates \subseteq Watched
        /\ \A d \in DOMAIN connectionStates : connectionStates[d] \in MetricStates
    BY DEF MetricsIInv, MetricsTypeOK, Range
  <2>2. CASE RemoveConnection(c)
    BY <2>1, <2>2 DEF RemoveConnection, Range
  <2>3. ASSUME NEW s \in {"connected", "error"}, UpdateConnectionState(c, s)
        PROVE  DOMAIN connectionStates' \subseteq Watched /\ Range(connectionStates') \subseteq MetricStates
    <3>1. s \in MetricStates
      BY DEF MetricStates
    <3>2. /\ DOMAIN connectionStates' = DOMAIN connectionStates \cup {c}
          /\ \A d \in DOMAIN connectionStates' :
               connectionStates'[d] = IF d = c THEN s ELSE connectionStates[d]
      BY <2>3 DEF UpdateConnectionState
    <3> QED
      BY <2>1, <3>1, <3>2 DEF Range
  <2> QED
    BY <2>2, <2>3
<1>3. InOrder(recorded)' /\ IsTheEndOf(timestamps, recorded)'
  BY <1>1, EndsKept
<1> QED
  BY <1>1, <1>2, <1>3 DEF MetricsIInv, MetricsTypeOK

LEMMA CollectStep ==
  ASSUME MetricsIInv, Collect
  PROVE  MetricsIInv'
<1>1. time \in Nat
  BY MetricsAssumption DEF MetricsIInv, MetricsTypeOK
<1>2. snapshots' \in Seq(Nat) /\ Len(snapshots') <= MaxSnapshots
  BY <1>1, ShiftedType, MetricsAssumption DEF MetricsIInv, MetricsTypeOK, Collect
<1>3. InOrder(recorded)' /\ IsTheEndOf(timestamps, recorded)'
  BY EndsPruned DEF Collect
<1> QED
  BY <1>2, <1>3 DEF MetricsIInv, MetricsTypeOK, Collect

LEMMA ClearStep ==
  ASSUME MetricsIInv, ClearMetrics
  PROVE  MetricsIInv'
<1>1. \A S : <<>> \in Seq(S) /\ Len(<<>>) = 0
  BY EmptySeq
<1>2. DOMAIN connectionStates' \subseteq Watched /\ Range(connectionStates') \subseteq MetricStates
  BY DEF ClearMetrics, Range
<1>3. InOrder(recorded)' /\ IsTheEndOf(timestamps, recorded)'
  BY <1>1 DEF ClearMetrics, InOrder, IsTheEndOf
<1>4. 0 <= WindowSize /\ 0 <= MaxSnapshots
  BY MetricsAssumption
<1> QED
  BY <1>1, <1>2, <1>3, <1>4 DEF MetricsIInv, MetricsTypeOK, ClearMetrics

\* What is old stays so as time passes.
LEMMA TimeStep ==
  ASSUME MetricsIInv, TimePasses
  PROVE  MetricsIInv'
<1>1. /\ time \in Nat /\ time' = time + 1 /\ time' \in 0..MaxTime
      /\ RateWindow \in Nat /\ recorded' = recorded /\ timestamps' = timestamps
  BY MetricsAssumption DEF MetricsIInv, MetricsTypeOK, TimePasses
<1>2. /\ recorded \in Seq(Nat)
      /\ \A i \in 1..Len(recorded) : recorded[i] \in Nat /\ recorded[i] <= time
  BY LenProperties DEF MetricsIInv, InOrder
<1>3. \A i \in 1..Len(recorded) : recorded[i] <= time'
  BY <1>1, <1>2
<1>4. InOrder(recorded)'
  BY <1>1, <1>3 DEF MetricsIInv, InOrder
<1>5. /\ timestamps \in Seq(Nat) /\ Len(timestamps) <= Len(recorded)
      /\ \A i \in 1..Len(timestamps) : timestamps[i] = recorded[Len(recorded) - Len(timestamps) + i]
      /\ \A i \in 1..(Len(recorded) - Len(timestamps)) : recorded[i] < time - RateWindow
  BY DEF MetricsIInv, IsTheEndOf, IsOld
<1>6. ASSUME NEW i \in 1..(Len(recorded) - Len(timestamps))
      PROVE  recorded[i] < time' - RateWindow
  <2>1. i \in 1..Len(recorded)
    BY <1>2, <1>5, LenProperties
  <2> QED
    BY <1>1, <1>2, <1>5, <2>1
<1>7. IsTheEndOf(timestamps, recorded)'
  BY <1>1, <1>5, <1>6 DEF IsTheEndOf, IsOld
<1> QED
  BY <1>1, <1>4, <1>7 DEF MetricsIInv, MetricsTypeOK, TimePasses

LEMMA MetricsStepKeeps ==
  ASSUME MetricsIInv, [MetricsNext]_metricsVars
  PROVE  MetricsIInv'
<1>1. CASE UNCHANGED metricsVars
  <2>1. InOrder(recorded)' /\ IsTheEndOf(timestamps, recorded)'
    BY <1>1, EndsKept DEF metricsVars
  <2> QED
    BY <1>1, <2>1 DEF metricsVars, MetricsIInv, MetricsTypeOK
<1>2. ASSUME NEW v \in Latencies, RecordLatency(v) PROVE MetricsIInv'
  BY <1>2, LatencyStep
<1>3. CASE RecordEvent
  BY <1>3, EventStep
<1>4. ASSUME NEW n \in {0, 1}, UpdateQueueDepth(n) PROVE MetricsIInv'
  <2>1. InOrder(recorded)' /\ IsTheEndOf(timestamps, recorded)'
    BY <1>4, EndsKept DEF UpdateQueueDepth
  <2> QED
    BY <1>4, <2>1 DEF UpdateQueueDepth, MetricsIInv, MetricsTypeOK
<1>5. ASSUME NEW c \in Watched,
             RemoveConnection(c) \/ \E s \in {"connected", "error"} : UpdateConnectionState(c, s)
      PROVE  MetricsIInv'
  BY <1>5, ConnectionStep
<1>6. ASSUME NEW on \in BOOLEAN, Collecting(on) PROVE MetricsIInv'
  <2>1. InOrder(recorded)' /\ IsTheEndOf(timestamps, recorded)'
    BY <1>6, EndsKept DEF Collecting
  <2> QED
    BY <1>6, <2>1 DEF Collecting, MetricsIInv, MetricsTypeOK
<1>7. CASE Collect
  BY <1>7, CollectStep
<1>8. CASE ClearMetrics
  BY <1>8, ClearStep
<1>9. CASE CheckAlerts
  <2>1. InOrder(recorded)' /\ IsTheEndOf(timestamps, recorded)'
    BY <1>9, EndsPruned DEF CheckAlerts
  <2> QED
    BY <1>9, <2>1 DEF CheckAlerts, MetricsIInv, MetricsTypeOK
<1>10. CASE TimePasses
  BY <1>10, TimeStep
<1> QED
  BY <1>1, <1>2, <1>3, <1>4, <1>5, <1>6, <1>7, <1>8, <1>9, <1>10 DEF MetricsNext

\* Whatever is recorded, collected, cleared and checked at whatever times, a
\* rate counts the events of its window and no other, and the percentiles of
\* a window are latencies of it, in order, each with its share below.
THEOREM MetricsInvariance == MetricsSpec => []MetricsInv
<1>1. MetricsInit => MetricsIInv
  BY MetricsInitial
<1>2. MetricsIInv /\ [MetricsNext]_metricsVars => MetricsIInv'
  BY MetricsStepKeeps
<1>3. MetricsIInv => MetricsInv
  BY MetricsImplied
<1> QED
  BY <1>1, <1>2, <1>3, PTL DEF MetricsSpec

-----------------------------------------------------------------------------
(***************************************************************************)
(* Proofs about the shards, for any conversations, chunks and limits.  A   *)
(* conversation is its chunks and its active messages in the order of      *)
(* their numbers, without a gap as long as nothing was evicted, and the    *)
(* count of a shard covers the lengths of all that it stores.              *)
(***************************************************************************)

-----------------------------------------------------------------------------
(* Sums                                                                    *)

Units(f, S) == UNION {{x} \X (1..f[x]) : x \in S}

Numbers(f, S) == IsFiniteSet(S) /\ \A x \in S : f[x] \in Nat

LEMMA SumIsOfUnits ==
  ASSUME NEW f, NEW S
  PROVE  Sum(f, S) = Cardinality(Units(f, S))
BY DEF Sum, Units

LEMMA UnitsAre ==
  ASSUME NEW f, NEW S, NEW u
  PROVE  u \in Units(f, S) <=> \E x \in S : \E k \in 1..f[x] : u = <<x, k>>
BY DEF Units

LEMMA SumOfOne ==
  ASSUME NEW f, NEW x, f[x] \in Nat
  PROVE  IsFiniteSet(Units(f, {x})) /\ Sum(f, {x}) = f[x]
<1>1. Units(f, {x}) = {x} \X (1..f[x])
  BY DEF Units
<1>2. IsFiniteSet({x}) /\ Cardinality({x}) = 1
  BY FS_Singleton
<1>3. IsFiniteSet(1..f[x]) /\ Cardinality(1..f[x]) = f[x]
  BY FirstNumbers
<1>4. /\ IsFiniteSet({x} \X (1..f[x]))
      /\ Cardinality({x} \X (1..f[x])) = 1 * f[x]
  <2>1. /\ IsFiniteSet({x} \X (1..f[x]))
        /\ Cardinality({x} \X (1..f[x])) = Cardinality({x}) * Cardinality(1..f[x])
    BY <1>2, <1>3, FS_Product
  <2> QED
    BY <1>2, <1>3, <2>1
<1>5. 1 * f[x] = f[x]
  OBVIOUS
<1> QED
  BY <1>1, <1>4, <1>5, SumIsOfUnits

LEMMA SumType ==
  ASSUME NEW S, NEW f, Numbers(f, S)
  PROVE  IsFiniteSet(Units(f, S)) /\ Sum(f, S) \in Nat
<1> DEFINE T == {A \in SUBSET S : IsFiniteSet(Units(f, A))}
<1>1. {} \in T
  <2>1. Units(f, {}) = {}
    BY DEF Units
  <2> QED
    BY <2>1, FS_EmptySet
<1>2. ASSUME NEW A \in SUBSET S, NEW x \in S \ A, A \in T PROVE A \cup {x} \in T
  <2>1. Units(f, A \cup {x}) = Units(f, A) \cup Units(f, {x})
    BY DEF Units
  <2>2. IsFiniteSet(Units(f, {x}))
    BY SumOfOne DEF Numbers
  <2>3. IsFiniteSet(Units(f, A) \cup Units(f, {x}))
    BY <1>2, <2>2, FS_Union
  <2> QED
    BY <2>1, <2>3
<1>3. S \in T
  <2> HIDE DEF T
  <2> QED
    BY <1>1, <1>2, FiniteInduction DEF Numbers
<1> QED
  BY <1>3, SumIsOfUnits, FS_CardinalityType

LEMMA SumOfUnion ==
  ASSUME NEW S, NEW T, NEW f, Numbers(f, S), Numbers(f, T), S \cap T = {}
  PROVE  Sum(f, S \cup T) = Sum(f, S) + Sum(f, T)
<1>1. Units(f, S \cup T) = Units(f, S) \cup Units(f, T)
  BY DEF Units
<1>2. Units(f, S) \cap Units(f, T) = {}
  BY UnitsAre
<1>3. IsFiniteSet(Units(f, S)) /\ IsFiniteSet(Units(f, T)) /\ Sum(f, S) \in Nat /\ Sum(f, T) \in Nat
  BY SumType
<1>4. Cardinality(Units(f, S) \cup Units(f, T)) =
        Cardinality(Units(f, S)) + Cardinality(Units(f, T)) - Cardinality(Units(f, S) \cap Units(f, T))
  BY <1>3, FS_Union
<1>5. Cardinality(Units(f, S) \cap Units(f, T)) = 0
  BY <1>2, FS_EmptySet
<1> QED
  BY <1>1, <1>3, <1>4, <1>5, SumIsOfUnits

LEMMA SumSame ==
  ASSUME NEW S, NEW f, NEW g, \A x \in S : f[x] = g[x]
  PROVE  Sum(f, S) = Sum(g, S)
<1>1. Units(f, S) = Units(g, S)
  BY DEF Units
<1> QED
  BY <1>1, SumIsOfUnits

LEMMA SumOfNone ==
  ASSUME NEW S, NEW f, \A x \in S : f[x] = 0
  PROVE  Sum(f, S) = 0
<1>1. Units(f, S) = {}
  BY DEF Units
<1> QED
  BY <1>1, SumIsOfUnits, FS_EmptySet

LEMMA SumGrows ==
  ASSUME NEW S, NEW f, Numbers(f, S), NEW T \in SUBSET S, NEW g,
         \A x \in T : g[x] \in Nat /\ g[x] <= f[x]
  PROVE  Sum(g, T) \in Nat /\ Sum(g, T) <= Sum(f, S)
<1>1. Units(g, T) \in SUBSET Units(f, S)
  <2>1. \A x \in T : 1..g[x] \subseteq 1..f[x]
    BY DEF Numbers
  <2> QED
    BY <2>1 DEF Units
<1>2. IsFiniteSet(Units(f, S)) /\ Sum(f, S) \in Nat
  BY SumType
<1>3. /\ IsFiniteSet(Units(g, T))
      /\ Cardinality(Units(g, T)) <= Cardinality(Units(f, S))
  BY <1>1, <1>2, FS_Subset
<1> QED
  BY <1>3, SumIsOfUnits, FS_CardinalityType

LEMMA SumAdds ==
  ASSUME NEW S, NEW f, NEW g, Numbers(f, S), Numbers(g, S), NEW h, \A x \in S : h[x] = f[x] + g[x]
  PROVE  Sum(h, S) = Sum(f, S) + Sum(g, S)
<1> DEFINE T == {A \in SUBSET S : Sum(h, A) = Sum(f, A) + Sum(g, A)}
<1>1. {} \in T
  <2>1. Sum(f, {}) = 0 /\ Sum(g, {}) = 0 /\ Sum(h, {}) = 0
    BY SumOfNone
  <2> QED
    BY <2>1
<1>2. ASSUME NEW A \in SUBSET S, NEW x \in S \ A, A \in T PROVE A \cup {x} \in T
  <2> DEFINE B == {x}
  <2>1. IsFiniteSet(A) /\ IsFiniteSet(B) /\ A \cap B = {}
    BY FS_Subset, FS_Singleton DEF Numbers
  <2>2. /\ \A y \in A : f[y] \in Nat /\ g[y] \in Nat /\ h[y] \in Nat
        /\ f[x] \in Nat /\ g[x] \in Nat /\ h[x] = f[x] + g[x]
    BY DEF Numbers
  <2>3. /\ Numbers(f, A) /\ Numbers(g, A) /\ Numbers(h, A)
        /\ Numbers(f, B) /\ Numbers(g, B) /\ Numbers(h, B)
    BY <2>1, <2>2 DEF Numbers
  <2>4. Sum(f, B) = f[x] /\ Sum(g, B) = g[x] /\ Sum(h, B) = h[x]
    <3>1. f[x] \in Nat /\ g[x] \in Nat /\ h[x] \in Nat
      BY <2>2
    <3> QED
      BY <3>1, SumOfOne
  <2>5. Sum(f, A) \in Nat /\ Sum(g, A) \in Nat /\ Sum(h, A) = Sum(f, A) + Sum(g, A)
    BY <1>2, <2>3, SumType
  <2> HIDE DEF B
  <2>6. /\ Sum(f, A \cup B) = Sum(f, A) + Sum(f, B)
        /\ Sum(g, A \cup B) = Sum(g, A) + Sum(g, B)
        /\ Sum(h, A \cup B) = Sum(h, A) + Sum(h, B)
    BY <2>1, <2>3, SumOfUnion
  <2>7. Sum(h, A \cup B) = Sum(f, A \cup B) + Sum(g, A \cup B)
    BY <2>2, <2>4, <2>5, <2>6
  <2> QED
    BY <2>7 DEF B
<1> HIDE DEF T
<1>3. S \in T
  BY <1>1, <1>2, FiniteInduction DEF Numbers
<1> QED
  BY <1>3 DEF T

\* The order in which, and the names by which, the numbers come is no matter.
LEMMA SumRenamed ==
  ASSUME NEW S, NEW f, Numbers(f, S), NEW T, NEW g, NEW at \in [T -> S],
         \A x, y \in T : at[x] = at[y] => x = y,
         \A s \in S : \E x \in T : at[x] = s,
         \A x \in T : g[x] = f[at[x]]
  PROVE  Sum(g, T) = Sum(f, S)
<1> DEFINE F == Units(f, S)
           G == Units(g, T)
           b == [u \in G |-> <<at[u[1]], u[2]>>]
<1>1. IsFiniteSet(F)
  BY SumType
<1>2. \A u \in G : \E x \in T : \E k \in 1..f[at[x]] : u = <<x, k>>
  <2>1. \A u \in G : \E x \in T : \E k \in 1..g[x] : u = <<x, k>>
    BY UnitsAre
  <2> QED
    BY <2>1
<1>3. \A u \in F : \E s \in S : \E k \in 1..f[s] : u = <<s, k>>
  BY UnitsAre
<1>4. \A x \in T : \A k \in 1..f[at[x]] : <<x, k>> \in G
  <2>1. \A x \in T : \A k \in 1..g[x] : <<x, k>> \in G
    BY UnitsAre
  <2> QED
    BY <2>1
<1>5. \A s \in S : \A k \in 1..f[s] : <<s, k>> \in F
  BY UnitsAre
<1> HIDE DEF F, G
<1>6. b \in [G -> F]
  <2>1. ASSUME NEW u \in G PROVE <<at[u[1]], u[2]>> \in F
    <3>1. PICK x \in T : \E k \in 1..f[at[x]] : u = <<x, k>>
      BY <1>2
    <3>2. PICK k \in 1..f[at[x]] : u = <<x, k>>
      BY <3>1
    <3> QED
      BY <1>5, <3>2
  <2> QED
    BY <2>1
<1>7. ASSUME NEW u \in G, NEW v \in G, b[u] = b[v] PROVE u = v
  <2>1. PICK x \in T : \E k \in 1..f[at[x]] : u = <<x, k>>
    BY <1>2
  <2>2. PICK k \in 1..f[at[x]] : u = <<x, k>>
    BY <2>1
  <2>3. PICK y \in T : \E l \in 1..f[at[y]] : v = <<y, l>>
    BY <1>2
  <2>4. PICK l \in 1..f[at[y]] : v = <<y, l>>
    BY <2>3
  <2>5. b[u] = <<at[x], k>> /\ b[v] = <<at[y], l>>
    BY <2>2, <2>4
  <2>6. at[x] = at[y] /\ k = l
    BY <1>7, <2>5
  <2> QED
    BY <2>2, <2>4, <2>6
<1>8. ASSUME NEW w \in F PROVE \E u \in G : b[u] = w
  <2>1. PICK s \in S : \E k \in 1..f[s] : w = <<s, k>>
    BY <1>3
  <2>2. PICK k \in 1..f[s] : w = <<s, k>>
    BY <2>1
  <2>3. PICK x \in T : at[x] = s
    OBVIOUS
  <2>4. <<x, k>> \in G
    BY <1>4, <2>2, <2>3
  <2>5. b[<<x, k>>] = w
    BY <2>2, <2>3, <2>4
  <2> QED
    BY <2>4, <2>5
<1> HIDE DEF b
<1>9. b \in Bijection(G, F)
  BY <1>6, <1>7, <1>8 DEF Bijection, Injection, Surjection, IsInjective
<1>10. ExistsBijection(F, G)
  BY <1>9, Fun_ExistsBijSymmetric DEF ExistsBijection
<1>11. Cardinality(G) = Cardinality(F)
  BY <1>1, <1>10, FS_Bijection
<1> QED
  BY <1>11, SumIsOfUnits DEF F, G

\* The sum of the sums over the parts is the sum over the whole.
PairsOf(P, S) == UNION {{x} \X P[x] : x \in S}

LEMMA PairsFinite ==
  ASSUME NEW S, IsFiniteSet(S), NEW P, \A x \in S : IsFiniteSet(P[x])
  PROVE  IsFiniteSet(PairsOf(P, S))
<1> DEFINE T == {A \in SUBSET S : IsFiniteSet(PairsOf(P, A))}
<1>1. {} \in T
  <2>1. PairsOf(P, {}) = {}
    BY DEF PairsOf
  <2> QED
    BY <2>1, FS_EmptySet
<1>2. ASSUME NEW A \in SUBSET S, NEW x \in S \ A, A \in T PROVE A \cup {x} \in T
  <2>1. PairsOf(P, A \cup {x}) = PairsOf(P, A) \cup ({x} \X P[x])
    BY DEF PairsOf
  <2>2. IsFiniteSet({x} \X P[x])
    BY FS_Singleton, FS_Product
  <2>3. IsFiniteSet(PairsOf(P, A) \cup ({x} \X P[x]))
    BY <1>2, <2>2, FS_Union
  <2> QED
    BY <2>1, <2>3
<1> HIDE DEF T
<1>3. S \in T
  BY <1>1, <1>2, FiniteInduction
<1> QED
  BY <1>3 DEF T

LEMMA SumOfSums ==
  ASSUME NEW S, IsFiniteSet(S), NEW P, \A x \in S : IsFiniteSet(P[x]),
         NEW w, \A x \in S : \A i \in P[x] : w[<<x, i>>] \in Nat,
         NEW total, \A x \in S : total[x] = Sum([i \in P[x] |-> w[<<x, i>>]], P[x])
  PROVE  /\ \A x \in S : total[x] \in Nat
         /\ Sum(total, S) = Sum(w, PairsOf(P, S))
<1> DEFINE T == {A \in SUBSET S : Sum(total, A) = Sum(w, PairsOf(P, A))}
<1>1. ASSUME NEW x \in S
      PROVE  total[x] \in Nat /\ total[x] = Sum(w, {x} \X P[x])
  <2> DEFINE g == [i \in P[x] |-> w[<<x, i>>]]
             B == {x} \X P[x]
             at == [i \in P[x] |-> <<x, i>>]
  <2>1. IsFiniteSet(B)
    BY FS_Singleton, FS_Product
  <2>2. \A u \in B : w[u] \in Nat
    OBVIOUS
  <2>3. Numbers(w, B)
    BY <2>1, <2>2 DEF Numbers
  <2>4. /\ at \in [P[x] -> B]
        /\ \A i, j \in P[x] : at[i] = at[j] => i = j
        /\ \A u \in B : \E i \in P[x] : at[i] = u
        /\ \A i \in P[x] : g[i] = w[at[i]]
    OBVIOUS
  <2>5. Numbers(g, P[x])
    BY DEF Numbers
  <2> HIDE DEF g, B, at
  <2>6. Sum(g, P[x]) = Sum(w, B)
    BY <2>3, <2>4, SumRenamed
  <2>7. total[x] = Sum(g, P[x])
    BY DEF g
  <2> QED
    BY <2>5, <2>6, <2>7, SumType DEF B
<1>2. {} \in T
  <2>1. PairsOf(P, {}) = {}
    BY DEF PairsOf
  <2>2. Sum(total, {}) = 0 /\ Sum(w, {}) = 0
    BY SumOfNone
  <2> QED
    BY <2>1, <2>2
<1>3. ASSUME NEW A \in SUBSET S, NEW x \in S \ A, A \in T PROVE A \cup {x} \in T
  <2> DEFINE B == {x} \X P[x]
             Q == PairsOf(P, A)
  <2>1. PairsOf(P, A \cup {x}) = Q \cup B /\ Q \cap B = {}
    BY DEF PairsOf
  <2>2. IsFiniteSet(Q) /\ IsFiniteSet(B) /\ IsFiniteSet(A) /\ IsFiniteSet({x})
    <3>1. IsFiniteSet(A)
      BY FS_Subset
    <3> QED
      BY <3>1, PairsFinite, FS_Singleton, FS_Product
  <2>3. (\A u \in Q : w[u] \in Nat) /\ (\A u \in B : w[u] \in Nat)
    BY DEF PairsOf
  <2> HIDE DEF Q, B
  <2>4. Sum(w, Q \cup B) = Sum(w, Q) + Sum(w, B)
    BY <2>1, <2>2, <2>3, SumOfUnion DEF Numbers
  <2>5. Numbers(total, A) /\ Numbers(total, {x}) /\ A \cap {x} = {}
    BY <1>1, <2>2 DEF Numbers
  <2>6. Sum(total, A \cup {x}) = Sum(total, A) + Sum(total, {x})
    BY <2>5, SumOfUnion
  <2>7. Sum(total, {x}) = Sum(w, B)
    BY <1>1, SumOfOne DEF B
  <2>8. Sum(total, A) = Sum(w, Q)
    BY <1>3 DEF Q
  <2> QED
    BY <2>1, <2>4, <2>6, <2>7, <2>8
<1> HIDE DEF T
<1>4. S \in T
  BY <1>2, <1>3, FiniteInduction
<1> QED
  BY <1>1, <1>4 DEF T

-----------------------------------------------------------------------------
(* The inductive invariant                                                 *)

ChunkType == [start : Nat, end : Nat, messages : Seq(1..MaxAdded)]

\* Each chunk has messages, and ends as many further as it has.
WellChunked(chunks) ==
  /\ chunks \in Seq(ChunkType)
  /\ \A i \in 1..Len(chunks) : /\ chunks[i].messages # <<>>
                               /\ chunks[i].end = chunks[i].start + Len(chunks[i].messages) - 1

\* Their messages rise, within a chunk and from one to the next.
Rising(chunks) ==
  /\ \A i \in 1..Len(chunks) : \A k, l \in 1..Len(chunks[i].messages) :
       k < l => chunks[i].messages[k] < chunks[i].messages[l]
  /\ \A i, j \in 1..Len(chunks) : i < j =>
       \A k \in 1..Len(chunks[i].messages) : \A l \in 1..Len(chunks[j].messages) :
         chunks[i].messages[k] < chunks[j].messages[l]

UpTo(chunks, u) ==
  \A i \in 1..Len(chunks) : \A k \in 1..Len(chunks[i].messages) : chunks[i].messages[k] <= u

\* Where the first k chunks end.
EndOf(chunks, k) == IF k = 0 THEN 0 ELSE chunks[k].end + 1

\* Together they are the first u messages, each at its index.
Gapless(chunks, u) ==
  /\ \A i \in 1..Len(chunks) : /\ chunks[i].start = EndOf(chunks, i - 1)
                               /\ \A k \in 1..Len(chunks[i].messages) :
                                    chunks[i].messages[k] = chunks[i].start + k
  /\ u = EndOf(chunks, Len(chunks))

\* How many messages of a conversation are no longer active.
Older(c) == messageTotal[c] - Len(activeMessages[c])

InItsOrder(c) ==
  /\ Older(c) \in Nat
  /\ \A k \in 1..Len(activeMessages[c]) : activeMessages[c][k] = Older(c) + k
  /\ WellChunked(historyChunks[c])
  /\ Rising(historyChunks[c])
  /\ UpTo(historyChunks[c], Older(c))
  /\ c \notin evicted => Gapless(historyChunks[c], Older(c))

ShardShape ==
  /\ stored \subseteq Convs /\ evicted \subseteq Convs
  /\ activeMessages \in [Convs -> Seq(1..MaxAdded)]
  /\ historyChunks \in [Convs -> Seq(ChunkType)]
  /\ messageTotal \in [Convs -> 0..MaxAdded]
  /\ messageCount \in [Shards -> 0..MaxAdded]

ShardIInv ==
  /\ ShardShape
  /\ \A c \in Convs : InItsOrder(c)
  /\ CountCoversStored

-----------------------------------------------------------------------------
(* Chunks in a row                                                         *)

\* h tells what the messages of the first chunks are, one after another.
Concatenates(h, chunks) ==
  /\ h \in [0..Len(chunks) -> Seq(1..MaxAdded)]
  /\ h[0] = <<>> /\ h[Len(chunks)] = Concatenated(chunks)
  /\ \A k \in 1..Len(chunks) : h[k] = h[k - 1] \o chunks[k].messages

LEMMA ChunkIs ==
  ASSUME NEW chunk \in ChunkType
  PROVE  /\ chunk.messages \in Seq(1..MaxAdded) /\ Len(chunk.messages) \in Nat
         /\ chunk.start \in Nat /\ chunk.end \in Nat
         /\ \A k \in 1..Len(chunk.messages) : chunk.messages[k] \in 1..MaxAdded
<1> DEFINE M == Seq(1..MaxAdded)
<1>1. chunk \in [start : Nat, end : Nat, messages : M]
  BY DEF ChunkType
<1> HIDE DEF M
<1>2. chunk.messages \in M /\ chunk.start \in Nat /\ chunk.end \in Nat
  BY <1>1
<1> QED
  BY <1>2, LenProperties, ElementOfSeq DEF M

LEMMA ChunksAre ==
  ASSUME NEW chunks \in Seq(ChunkType)
  PROVE  /\ Len(chunks) \in Nat /\ DOMAIN chunks = 1..Len(chunks)
         /\ \A i \in 1..Len(chunks) :
              /\ chunks[i] \in ChunkType
              /\ chunks[i].messages \in Seq(1..MaxAdded)
              /\ Len(chunks[i].messages) \in Nat
              /\ chunks[i].start \in Nat /\ chunks[i].end \in Nat
              /\ \A k \in 1..Len(chunks[i].messages) : chunks[i].messages[k] \in 1..MaxAdded
<1>1. Len(chunks) \in Nat /\ DOMAIN chunks = 1..Len(chunks)
  BY LenProperties
<1>2. \A i \in 1..Len(chunks) : chunks[i] \in ChunkType
  BY ElementOfSeq
<1> QED
  BY <1>1, <1>2, ChunkIs

LEMMA ConcatenatedIs ==
  ASSUME NEW chunks \in Seq(ChunkType)
  PROVE  \E h : Concatenates(h, chunks)
<1> DEFINE n == Len(chunks)
           V == Seq(1..MaxAdded)
           step(l, chunk) == l \o chunk.messages
           G == [p \in (1..n) \X V |-> step(p[2], chunks[p[1]])]
           F(f) == [s \in SUBSET (1..n) |->
                      IF s = {} THEN <<>> ELSE step(f[s \ {Max(s)}], chunks[Max(s)])]
           iter == CHOOSE f : f = F(f)
<1>1. n \in Nat /\ DOMAIN chunks = 1..n /\ \A i \in 1..n : chunks[i].messages \in V
  BY ChunksAre
<1>2. Concatenated(chunks) = iter[1..n]
  BY <1>1 DEF Concatenated, FoldLeft, MapThenFoldSet
<1>3. ASSUME NEW i \in 1..n, NEW l \in V PROVE step(l, chunks[i]) \in V
  BY <1>1, ConcatProperties
<1>4. <<>> \in V
  BY EmptySeq
<1> HIDE DEF n, step, V
<1>5. G \in [(1..n) \X V -> V]
  BY <1>3
<1>6. PICK f : Folds(f, n, V, <<>>, G)
  <2> HIDE DEF G
  <2> QED
    BY <1>1, <1>4, <1>5, FoldIsDefined
<1>7. \A s \in SUBSET (1..n) : s # {} => Max(s) \in 1..n
  <2> TAKE s \in SUBSET (1..n)
  <2> HAVE s # {}
  <2>1. s \in SUBSET Int /\ n \in Int /\ \A x \in s : x <= n
    BY <1>1
  <2> QED
    BY <2>1, MaxOfBounded
<1>8. f = F(f)
  <2>1. ASSUME NEW s \in SUBSET (1..n), s # {}
        PROVE  f[s] = step(f[s \ {Max(s)}], chunks[Max(s)])
    <3>1. f[s] = G[<<Max(s), f[s \ {Max(s)}]>>] /\ f[s \ {Max(s)}] \in V
      <4> HIDE DEF G
      <4> QED
        BY <1>6, <2>1 DEF Folds
    <3> QED
      BY <1>7, <2>1, <3>1
  <2>2. \A s \in SUBSET (1..n) :
          f[s] = IF s = {} THEN <<>> ELSE step(f[s \ {Max(s)}], chunks[Max(s)])
    BY <1>6, <2>1 DEF Folds
  <2>3. f = [s \in SUBSET (1..n) |-> f[s]]
    BY <1>6 DEF Folds
  <2> QED
    BY <2>2, <2>3, Zenon
<1>9. iter = F(iter)
  BY <1>8
<1>10. iter[1..n] = f[1..n]
  <2> HIDE DEF iter
  <2>1. iter[{}] = f[{}]
    BY <1>8, <1>9
  <2>2. \A s \in SUBSET (1..n) :
          s # {} /\ iter[s \ {Max(s)}] = f[s \ {Max(s)}] => iter[s] = f[s]
    BY <1>8, <1>9
  <2> HIDE DEF F
  <2> QED
    BY <1>1, <2>1, <2>2, FoldIsUnique
<1>11. PICK h : Steps(h, n, V, <<>>, G, f[1..n])
  <2> HIDE DEF G
  <2> QED
    BY <1>1, <1>4, <1>5, <1>6, FoldSteps
<1>12. h \in [0..n -> V] /\ h[0] = <<>> /\ h[n] = Concatenated(chunks)
  BY <1>2, <1>10, <1>11 DEF Steps
<1>13. ASSUME NEW k \in 1..n PROVE h[k] = step(h[k - 1], chunks[k])
  <2>1. k - 1 \in 0..n
    BY <1>1
  <2>2. h[k] = G[<<k, h[k - 1]>>] /\ h[k - 1] \in V
    <3> HIDE DEF G
    <3> QED
      BY <1>11, <2>1 DEF Steps
  <2> QED
    BY <2>2
<1> QED
  BY <1>12, <1>13 DEF Concatenates, n, V, step

\* What rises from chunk to chunk rises as a whole.
LEMMA ConcatenatedRises ==
  ASSUME NEW chunks, WellChunked(chunks), Rising(chunks)
  PROVE  LET all == Concatenated(chunks) IN
         /\ all \in Seq(1..MaxAdded)
         /\ \A i, j \in 1..Len(all) : i < j => all[i] < all[j]
         /\ \A i \in 1..Len(all) : \E m \in 1..Len(chunks) :
              \E l \in 1..Len(chunks[m].messages) : all[i] = chunks[m].messages[l]
<1> DEFINE n == Len(chunks)
<1>1. chunks \in Seq(ChunkType)
  BY DEF WellChunked
<1>2. PICK h : Concatenates(h, chunks)
  BY <1>1, ConcatenatedIs
<1>3. /\ n \in Nat /\ h \in [0..n -> Seq(1..MaxAdded)] /\ h[0] = <<>> /\ h[n] = Concatenated(chunks)
      /\ \A k \in 1..n : h[k] = h[k - 1] \o chunks[k].messages
  BY <1>1, <1>2, ChunksAre DEF Concatenates
<1> DEFINE Up(r) == \A i, j \in 1..Len(r) : i < j => r[i] < r[j]
           From(r, k) == \A i \in 1..Len(r) : \E m \in 1..k :
                           \E l \in 1..Len(chunks[m].messages) : r[i] = chunks[m].messages[l]
           T == {k \in 0..n : Up(h[k]) /\ From(h[k], k)}
<1>4. 0 \in T
  <2>1. Len(<<>>) = 0 /\ 0 \in 0..n
    BY <1>3, EmptySeq
  <2>2. 1..Len(h[0]) = {}
    BY <1>3, <2>1
  <2> QED
    BY <2>1, <2>2
<1> HIDE DEF n
<1>5. ASSUME NEW k \in 1..n, k - 1 \in T PROVE k \in T
  <2> DEFINE s == h[k - 1]
             ms == chunks[k].messages
             r == h[k]
  <2>1. s \in Seq(1..MaxAdded) /\ ms \in Seq(1..MaxAdded) /\ r = s \o ms
    <3>1. k - 1 \in 0..n
      BY <1>3
    <3> QED
      BY <1>1, <1>3, <3>1, ChunksAre DEF n
  <2>2. /\ Len(s) \in Nat /\ Len(ms) \in Nat /\ Len(r) = Len(s) + Len(ms)
        /\ \A i \in 1..(Len(s) + Len(ms)) : r[i] = IF i <= Len(s) THEN s[i] ELSE ms[i - Len(s)]
    <3> HIDE DEF s, ms, r
    <3> QED
      BY <2>1, LenProperties, ConcatProperties
  <2>3. Up(s) /\ From(s, k - 1)
    BY <1>5
  <2>4. Up(ms)
    BY DEF Rising, n
  <2>5. \A m \in 1..(k - 1) : \A l \in 1..Len(chunks[m].messages) : \A j \in 1..Len(ms) :
          chunks[m].messages[l] < ms[j]
    BY <1>3 DEF Rising, n
  <2> HIDE DEF s, ms, r
  <2>6. \A i \in 1..Len(s) : \A j \in 1..Len(ms) : s[i] < ms[j]
    BY <2>3, <2>5
  <2>7. ASSUME NEW i \in 1..Len(r), NEW j \in 1..Len(r), i < j
        PROVE  r[i] < r[j]
    <3>1. CASE j <= Len(s)
      <4>1. i \in 1..Len(s) /\ j \in 1..Len(s) /\ r[i] = s[i] /\ r[j] = s[j]
        BY <2>2, <2>7, <3>1
      <4> QED
        BY <2>3, <2>7, <4>1
    <3>2. CASE j > Len(s)
      <4>1. j - Len(s) \in 1..Len(ms) /\ r[j] = ms[j - Len(s)]
        BY <2>2, <3>2
      <4>2. CASE i <= Len(s)
        <5>1. i \in 1..Len(s) /\ r[i] = s[i]
          BY <2>2, <4>2
        <5> QED
          BY <2>6, <4>1, <5>1
      <4>3. CASE i > Len(s)
        <5>1. i - Len(s) \in 1..Len(ms) /\ r[i] = ms[i - Len(s)] /\ i - Len(s) < j - Len(s)
          BY <2>2, <2>7, <4>3
        <5> QED
          BY <2>4, <4>1, <5>1
      <4> QED
        BY <2>2, <4>2, <4>3
    <3> QED
      BY <2>2, <3>1, <3>2
  <2>8. Up(r)
    BY <2>7
  <2>9. ASSUME NEW i \in 1..Len(r)
        PROVE  \E m \in 1..k : \E l \in 1..Len(chunks[m].messages) : r[i] = chunks[m].messages[l]
    <3>1. CASE i <= Len(s)
      <4>1. i \in 1..Len(s) /\ r[i] = s[i]
        BY <2>2, <3>1
      <4>2. 1..(k - 1) \subseteq 1..k
        BY <1>3
      <4> QED
        BY <2>3, <4>1, <4>2
    <3>2. CASE i > Len(s)
      <4>1. i - Len(s) \in 1..Len(ms) /\ r[i] = ms[i - Len(s)] /\ k \in 1..k
        BY <1>3, <2>2, <3>2
      <4> QED
        BY <4>1 DEF ms
    <3> QED
      BY <2>2, <3>1, <3>2
  <2>10. k \in 0..n
    BY <1>3
  <2> QED
    BY <2>8, <2>9, <2>10 DEF r
<1>6. n \in T
  <2> HIDE DEF T
  <2>1. 0..n \subseteq T
    BY <1>3, <1>4, <1>5, InductionUpTo
  <2> QED
    BY <1>3, <2>1
<1>7. Concatenated(chunks) \in Seq(1..MaxAdded)
  BY <1>3
<1> QED
  BY <1>3, <1>6, <1>7 DEF n

\* Without a gap they are the first messages, each at its index.
LEMMA ConcatenatedGapless ==
  ASSUME NEW chunks, WellChunked(chunks), NEW u, Gapless(chunks, u)
  PROVE  LET all == Concatenated(chunks) IN
         /\ all \in Seq(1..MaxAdded) /\ Len(all) = u
         /\ \A i \in 1..u : all[i] = i
<1> DEFINE n == Len(chunks)
<1>1. chunks \in Seq(ChunkType)
  BY DEF WellChunked
<1>2. PICK h : Concatenates(h, chunks)
  BY <1>1, ConcatenatedIs
<1>3. /\ n \in Nat /\ h \in [0..n -> Seq(1..MaxAdded)] /\ h[0] = <<>> /\ h[n] = Concatenated(chunks)
      /\ \A k \in 1..n : h[k] = h[k - 1] \o chunks[k].messages
  BY <1>1, <1>2, ChunksAre DEF Concatenates
<1> DEFINE First(r, e) == Len(r) = e /\ \A i \in 1..e : r[i] = i
           T == {k \in 0..n : First(h[k], EndOf(chunks, k))}
<1>4. 0 \in T
  <2>1. Len(<<>>) = 0 /\ 0 \in 0..n
    BY <1>3, EmptySeq
  <2>2. EndOf(chunks, 0) = 0 /\ Len(h[0]) = 0 /\ \A i \in 1..0 : FALSE
    BY <1>3, <2>1 DEF EndOf
  <2> QED
    BY <2>1, <2>2
<1> HIDE DEF n
<1>5. ASSUME NEW k \in 1..n, k - 1 \in T PROVE k \in T
  <2> DEFINE s == h[k - 1]
             ms == chunks[k].messages
             r == h[k]
             a == chunks[k].start
  <2>1. /\ s \in Seq(1..MaxAdded) /\ ms \in Seq(1..MaxAdded) /\ r = s \o ms
        /\ a \in Nat
    <3>1. k - 1 \in 0..n
      BY <1>3
    <3> QED
      BY <1>1, <1>3, <3>1, ChunksAre DEF n
  <2>2. /\ Len(s) \in Nat /\ Len(ms) \in Nat /\ Len(r) = Len(s) + Len(ms)
        /\ \A i \in 1..(Len(s) + Len(ms)) : r[i] = IF i <= Len(s) THEN s[i] ELSE ms[i - Len(s)]
    <3> HIDE DEF s, ms, r
    <3> QED
      BY <2>1, LenProperties, ConcatProperties
  <2>3. a = EndOf(chunks, k - 1) /\ \A j \in 1..Len(ms) : ms[j] = a + j
    BY DEF Gapless, n
  <2>4. First(s, a)
    BY <1>5, <2>3
  <2>5. EndOf(chunks, k) = a + Len(ms)
    <3>1. chunks[k].end = a + Len(ms) - 1 /\ k # 0 /\ chunks[k].end \in Nat
      BY <1>1, <1>3, ChunksAre DEF WellChunked, n
    <3>2. EndOf(chunks, k) = chunks[k].end + 1
      BY <3>1 DEF EndOf
    <3> HIDE DEF a, ms
    <3> QED
      BY <2>1, <2>2, <3>1, <3>2
  <2> HIDE DEF s, ms, r, a
  <2>6. ASSUME NEW i \in 1..(a + Len(ms)) PROVE r[i] = i
    <3>1. CASE i <= a
      <4>1. i \in 1..a /\ r[i] = s[i]
        BY <2>1, <2>2, <2>4, <3>1
      <4> QED
        BY <2>4, <4>1
    <3>2. CASE i > a
      <4>1. i - a \in 1..Len(ms) /\ r[i] = ms[i - a]
        BY <2>1, <2>2, <2>4, <3>2
      <4> QED
        BY <2>1, <2>3, <4>1
    <3>3. i <= a \/ i > a
      BY <2>1, <2>2
    <3> QED
      BY <3>1, <3>2, <3>3
  <2>7. First(r, EndOf(chunks, k))
    BY <2>2, <2>4, <2>5, <2>6
  <2>8. k \in 0..n
    BY <1>3
  <2> HIDE DEF First
  <2> QED
    BY <2>7, <2>8 DEF r
<1>6. n \in T
  <2> HIDE DEF T
  <2>1. 0..n \subseteq T
    BY <1>3, <1>4, <1>5, InductionUpTo
  <2> QED
    BY <1>3, <2>1
<1>7. u = EndOf(chunks, n)
  BY DEF Gapless, n
<1> QED
  BY <1>3, <1>6, <1>7

-----------------------------------------------------------------------------
(* A page                                                                  *)

Found == [messages : Seq(1..MaxAdded), at : Int]

LEMMA FoundIs ==
  ASSUME NEW f \in Found
  PROVE  /\ f.messages \in Seq(1..MaxAdded) /\ f.at \in Int /\ Len(f.messages) \in Nat
         /\ \A k \in 1..Len(f.messages) : f.messages[k] \in 1..MaxAdded
<1> DEFINE M == Seq(1..MaxAdded)
<1>1. f \in [messages : M, at : Int]
  BY DEF Found
<1> HIDE DEF M
<1>2. f.messages \in M /\ f.at \in Int
  BY <1>1
<1> QED
  BY <1>2, LenProperties, ElementOfSeq DEF M

\* A part of a sequence, of n members after the first few.
LEMMA PartIs ==
  ASSUME NEW M, NEW ms \in Seq(M), NEW from \in Nat, NEW n \in Int, n <= Len(ms) - from
  PROVE  /\ SubSeq(ms, from + 1, from + n) \in Seq(M)
         /\ Len(SubSeq(ms, from + 1, from + n)) = IF n > 0 THEN n ELSE 0
         /\ \A i \in 1..n : SubSeq(ms, from + 1, from + n)[i] = ms[from + i]
<1> DEFINE b == from + 1
           e == from + n
<1>1. Len(ms) \in Nat /\ \A i \in 1..Len(ms) : ms[i] \in M
  BY LenProperties, ElementOfSeq
<1>2. b \in Int /\ e \in Int /\ \A i \in b..e : ms[i] \in M
  BY <1>1
<1>3. e - b + 1 = n /\ (b <= e <=> n > 0) /\ \A i \in 1..n : b + i - 1 = from + i
  OBVIOUS
<1> HIDE DEF b, e
<1>4. /\ SubSeq(ms, b, e) \in Seq(M)
      /\ Len(SubSeq(ms, b, e)) = IF b <= e THEN e - b + 1 ELSE 0
      /\ \A i \in 1..(e - b + 1) : SubSeq(ms, b, e)[i] = ms[b + i - 1]
  BY <1>2, SubSeqProperties
<1>5. Len(SubSeq(ms, b, e)) = IF n > 0 THEN n ELSE 0
  BY <1>3, <1>4
<1>6. \A i \in 1..n : SubSeq(ms, b, e)[i] = ms[from + i]
  BY <1>3, <1>4
<1> QED
  BY <1>4, <1>5, <1>6 DEF b, e

\* What a turn takes: the messages from the place that is expected on, as
\* many as are still asked for.
TurnFrom(chunk, f) == Most(0, f.at - chunk.start)

TurnCount(chunk, f, limit) ==
  Least(limit - Len(f.messages), Len(chunk.messages) - TurnFrom(chunk, f))

TurnPart(chunk, f, limit) ==
  SubSeq(chunk.messages, TurnFrom(chunk, f) + 1, TurnFrom(chunk, f) + TurnCount(chunk, f, limit))

LEMMA TurnTakes ==
  ASSUME NEW chunk \in ChunkType, NEW f \in Found, NEW limit \in Nat
  PROVE  /\ TurnFrom(chunk, f) \in Nat /\ TurnCount(chunk, f, limit) \in Int
         /\ TurnPart(chunk, f, limit) \in Seq(1..MaxAdded)
         /\ Len(TurnPart(chunk, f, limit)) =
              IF TurnCount(chunk, f, limit) > 0 THEN TurnCount(chunk, f, limit) ELSE 0
         /\ \A i \in 1..TurnCount(chunk, f, limit) :
              TurnPart(chunk, f, limit)[i] = chunk.messages[TurnFrom(chunk, f) + i]
<1> DEFINE from == TurnFrom(chunk, f)
           n == TurnCount(chunk, f, limit)
<1>1. chunk.messages \in Seq(1..MaxAdded) /\ Len(chunk.messages) \in Nat /\ chunk.start \in Nat
  BY ChunkIs
<1>2. f.messages \in Seq(1..MaxAdded) /\ f.at \in Int /\ Len(f.messages) \in Nat
  BY FoundIs
<1>3. from \in Nat /\ n \in Int
  BY <1>1, <1>2 DEF Most, Least, TurnFrom, TurnCount
<1>4. n <= Len(chunk.messages) - from
  BY <1>1, <1>2, <1>3 DEF Least, TurnCount
<1> DEFINE ms == chunk.messages
<1> HIDE DEF from, n, ms
<1>5. /\ SubSeq(ms, from + 1, from + n) \in Seq(1..MaxAdded)
      /\ Len(SubSeq(ms, from + 1, from + n)) = IF n > 0 THEN n ELSE 0
      /\ \A i \in 1..n : SubSeq(ms, from + 1, from + n)[i] = ms[from + i]
  BY <1>1, <1>3, <1>4, PartIs DEF ms
<1>6. TurnPart(chunk, f, limit) = SubSeq(chunk.messages, from + 1, from + n)
  BY DEF TurnPart, from, n
<1> QED
  BY <1>3, <1>5, <1>6 DEF from, n, ms

LEMMA TakeFromType ==
  ASSUME NEW chunk \in ChunkType, NEW f \in Found, NEW limit \in Nat
  PROVE  TakeFrom(chunk, f, limit) \in Found
<1> DEFINE n == TurnCount(chunk, f, limit)
           part == TurnPart(chunk, f, limit)
<1>2. f.messages \in Seq(1..MaxAdded) /\ f.at \in Int
  BY FoundIs
<1>3. n \in Int
  BY TurnTakes
<1>4. part \in Seq(1..MaxAdded)
  BY TurnTakes
<1> DEFINE M == Seq(1..MaxAdded)
           ms == f.messages \o part
           at == f.at + n
<1>5. ms \in M /\ at \in Int
  BY <1>2, <1>3, <1>4, ConcatProperties
<1>6. TakeFrom(chunk, f, limit) = [messages |-> ms, at |-> at] \/ TakeFrom(chunk, f, limit) = f
  BY DEF TakeFrom, TurnFrom, TurnCount, TurnPart
<1> HIDE DEF M, ms, at
<1>7. [messages |-> ms, at |-> at] \in [messages : M, at : Int]
  BY <1>5
<1> QED
  BY <1>6, <1>7 DEF Found, M

\* What was found is what the indexes from offset on name, up to the end of
\* the chunks, e, or of the page.
FoundUpTo(f, offset, limit, e) ==
  /\ f.at = Most(offset, Least(e, offset + limit))
  /\ Len(f.messages) = f.at - offset
  /\ \A j \in 1..(f.at - offset) : f.messages[j] = offset + j

TurnGoes(a, len, offset, limit, at) ==
  LET from == Most(0, at - a)
      n == Least(limit - (at - offset), len - from)
      next == Most(offset, Least(a + len, offset + limit))
  IN  IF a <= at + limit - 1 /\ a + len - 1 >= at /\ at - offset < limit
      THEN from = at - a /\ n > 0 /\ at + n = next
      ELSE at = next

LEMMA TurnMoves ==
  ASSUME NEW a \in Nat, NEW len \in Nat, len > 0, NEW offset \in Nat, NEW limit \in Nat \ {0},
         NEW at \in Int, at = Most(offset, Least(a, offset + limit))
  PROVE  TurnGoes(a, len, offset, limit, at)
BY DEF Most, Least, TurnGoes

LEMMA TurnFinds ==
  ASSUME NEW chunk \in ChunkType, chunk.messages # <<>>,
         chunk.end = chunk.start + Len(chunk.messages) - 1,
         \A k \in 1..Len(chunk.messages) : chunk.messages[k] = chunk.start + k,
         NEW offset \in Nat, NEW limit \in Nat \ {0},
         NEW f \in Found, FoundUpTo(f, offset, limit, chunk.start)
  PROVE  FoundUpTo(TakeFrom(chunk, f, limit), offset, limit, chunk.end + 1)
<1> DEFINE from == TurnFrom(chunk, f)
           len == Len(chunk.messages)
           n == TurnCount(chunk, f, limit)
           part == TurnPart(chunk, f, limit)
           a == chunk.start
<1>1. /\ chunk.messages \in Seq(1..MaxAdded) /\ len \in Nat /\ a \in Nat /\ len > 0
      /\ chunk.end = a + len - 1
  <2>2. /\ chunk.messages \in Seq(1..MaxAdded) /\ len \in Nat /\ a \in Nat
    BY ChunkIs
  <2>3. len # 0
    BY <2>2, EmptySeq
  <2> QED
    BY <2>2, <2>3
<1>2. f.messages \in Seq(1..MaxAdded) /\ f.at \in Int /\ Len(f.messages) \in Nat
  BY FoundIs
<1>3. /\ f.at = Most(offset, Least(a, offset + limit))
      /\ Len(f.messages) = f.at - offset
      /\ \A j \in 1..(f.at - offset) : f.messages[j] = offset + j
  BY DEF FoundUpTo
<1>4. from \in Nat /\ n \in Int
  BY TurnTakes
<1>5. CASE a <= f.at + limit - 1 /\ chunk.end >= f.at /\ Len(f.messages) < limit
  <2> DEFINE ms == f.messages \o part
  <2>1. TakeFrom(chunk, f, limit) = [messages |-> ms, at |-> f.at + n]
    BY <1>5 DEF TakeFrom, TurnFrom, TurnCount, TurnPart
  <2>2. from = f.at - a /\ from >= 0 /\ n > 0 /\ f.at + n = Most(offset, Least(a + len, offset + limit))
    <3> HIDE DEF a, len
    <3>1. TurnGoes(a, len, offset, limit, f.at)
      <4> DEFINE at == f.at
      <4>1. at \in Int /\ at = Most(offset, Least(a, offset + limit))
        BY <1>2, <1>3
      <4> HIDE DEF at
      <4>2. a \in Nat /\ len \in Nat /\ len > 0
        BY <1>1
      <4> QED
        BY <4>1, <4>2, TurnMoves DEF at
    <3>2. a <= f.at + limit - 1 /\ a + len - 1 >= f.at /\ f.at - offset < limit
      BY <1>1, <1>3, <1>5 DEF a
    <3>3. from = f.at - a /\ n > 0 /\ f.at + n = Most(offset, Least(a + len, offset + limit))
      BY <1>3, <3>1, <3>2 DEF a, len, TurnGoes, TurnFrom, TurnCount
    <3> QED
      BY <1>4, <3>3
  <2>3. part \in Seq(1..MaxAdded) /\ Len(part) = n /\ \A i \in 1..n : part[i] = chunk.messages[from + i]
    <3>1. /\ part \in Seq(1..MaxAdded) /\ Len(part) = IF n > 0 THEN n ELSE 0
          /\ \A i \in 1..n : part[i] = chunk.messages[from + i]
      BY TurnTakes
    <3> QED
      BY <2>2, <3>1
  <2>4. n <= len - from
    BY <1>1, <1>2, <1>4 DEF Least, TurnCount
  <2> HIDE DEF from, n, part
  <2>5. \A i \in 1..n : part[i] = f.at + i
    <3>2. \A k \in 1..len : chunk.messages[k] = a + k
      OBVIOUS
    <3> HIDE DEF a, len
    <3>1. \A i \in 1..n : from + i \in 1..len /\ a + (from + i) = f.at + i
      <4> DEFINE at == f.at
      <4>1. at \in Int /\ a \in Nat /\ len \in Nat /\ from \in Nat /\ n \in Int
        BY <1>1, <1>2, <1>4
      <4>2. from = at - a /\ n <= len - from
        BY <2>2, <2>4
      <4> HIDE DEF at
      <4>3. \A i \in 1..n : from + i \in 1..len /\ a + (from + i) = at + i
        BY <4>1, <4>2
      <4> QED
        BY <4>3 DEF at
    <3> QED
      BY <2>3, <3>1, <3>2
  <2>6. /\ Len(ms) = Len(f.messages) + n
        /\ \A i \in 1..(Len(f.messages) + n) :
             ms[i] = IF i <= Len(f.messages) THEN f.messages[i] ELSE part[i - Len(f.messages)]
    BY <1>2, <2>3, ConcatProperties
  <2> HIDE DEF ms, a, len
  <2>7. ASSUME NEW j \in 1..((f.at + n) - offset) PROVE ms[j] = offset + j
    <3>1. j \in 1..(Len(f.messages) + n)
      BY <1>2, <1>3, <1>4
    <3>2. CASE j <= Len(f.messages)
      <4>1. j \in 1..(f.at - offset)
        BY <1>2, <1>3, <3>2
      <4> QED
        BY <1>3, <2>6, <3>1, <3>2, <4>1
    <3>3. CASE j > Len(f.messages)
      <4>1. j - Len(f.messages) \in 1..n /\ ms[j] = part[j - Len(f.messages)]
        BY <1>2, <1>4, <2>6, <3>1, <3>3
      <4>2. part[j - Len(f.messages)] = f.at + (j - Len(f.messages))
        BY <2>5, <4>1
      <4> QED
        BY <1>2, <1>3, <4>1, <4>2
    <3>4. j <= Len(f.messages) \/ j > Len(f.messages)
      BY <1>2, <3>1
    <3> QED
      BY <3>2, <3>3, <3>4
  <2>8. Len(ms) = (f.at + n) - offset
    BY <1>2, <1>3, <1>4, <2>6
  <2>9. chunk.end + 1 = a + len
    BY <1>1
  <2>10. /\ [messages |-> ms, at |-> f.at + n].messages = ms
         /\ [messages |-> ms, at |-> f.at + n].at = f.at + n
    OBVIOUS
  <2> QED
    BY <2>1, <2>2, <2>7, <2>8, <2>9, <2>10 DEF FoundUpTo
<1>6. CASE ~(a <= f.at + limit - 1 /\ chunk.end >= f.at /\ Len(f.messages) < limit)
  <2>1. TakeFrom(chunk, f, limit) = f
    BY <1>6 DEF TakeFrom
  <2>2. f.at = Most(offset, Least(chunk.end + 1, offset + limit))
    <3> HIDE DEF a, len
    <3>1. TurnGoes(a, len, offset, limit, f.at)
      <4> DEFINE at == f.at
      <4>1. at \in Int /\ at = Most(offset, Least(a, offset + limit))
        BY <1>2, <1>3
      <4> HIDE DEF at
      <4>2. a \in Nat /\ len \in Nat /\ len > 0
        BY <1>1
      <4> QED
        BY <4>1, <4>2, TurnMoves DEF at
    <3>2. ~(a <= f.at + limit - 1 /\ a + len - 1 >= f.at /\ f.at - offset < limit)
      BY <1>1, <1>3, <1>6 DEF a
    <3>3. chunk.end + 1 = a + len
      BY <1>1
    <3> QED
      BY <3>1, <3>2, <3>3 DEF TurnGoes
  <2> QED
    BY <1>3, <2>1, <2>2 DEF FoundUpTo
<1> QED
  BY <1>5, <1>6

\* The walk over the chunks, and h, which tells what was found after each.
Walk(chunks, offset, limit) ==
  FoldLeft(LAMBDA f, chunk : TakeFrom(chunk, f, limit), [messages |-> <<>>, at |-> offset], chunks)

Walks(h, chunks, offset, limit) ==
  /\ h \in [0..Len(chunks) -> Found]
  /\ h[0] = [messages |-> <<>>, at |-> offset]
  /\ h[Len(chunks)] = Walk(chunks, offset, limit)
  /\ \A k \in 1..Len(chunks) : h[k] = TakeFrom(chunks[k], h[k - 1], limit)

LEMMA WalkIs ==
  ASSUME NEW chunks \in Seq(ChunkType), NEW offset \in Nat, NEW limit \in Nat
  PROVE  \E h : Walks(h, chunks, offset, limit)
<1> DEFINE n == Len(chunks)
           base == [messages |-> <<>>, at |-> offset]
           step(f, chunk) == TakeFrom(chunk, f, limit)
           G == [p \in (1..n) \X Found |-> step(p[2], chunks[p[1]])]
           F(f) == [s \in SUBSET (1..n) |->
                      IF s = {} THEN base ELSE step(f[s \ {Max(s)}], chunks[Max(s)])]
           iter == CHOOSE f : f = F(f)
<1>1. n \in Nat /\ DOMAIN chunks = 1..n /\ \A i \in 1..n : chunks[i] \in ChunkType
  BY ChunksAre
<1>2. Walk(chunks, offset, limit) = iter[1..n]
  BY <1>1 DEF Walk, FoldLeft, MapThenFoldSet
<1>3. ASSUME NEW i \in 1..n, NEW f \in Found PROVE step(f, chunks[i]) \in Found
  BY <1>1, TakeFromType
<1>4. base \in Found
  <2> DEFINE M == Seq(1..MaxAdded)
  <2>1. <<>> \in M /\ offset \in Int
    BY EmptySeq
  <2> HIDE DEF M
  <2>2. base \in [messages : M, at : Int]
    BY <2>1
  <2> QED
    BY <2>2 DEF M, Found
<1> HIDE DEF n, step, base
<1>5. G \in [(1..n) \X Found -> Found]
  BY <1>3
<1>6. PICK f : Folds(f, n, Found, base, G)
  <2> HIDE DEF G
  <2> QED
    BY <1>1, <1>4, <1>5, FoldIsDefined
<1>7. \A s \in SUBSET (1..n) : s # {} => Max(s) \in 1..n
  <2> TAKE s \in SUBSET (1..n)
  <2> HAVE s # {}
  <2>1. s \in SUBSET Int /\ n \in Int /\ \A x \in s : x <= n
    BY <1>1
  <2> QED
    BY <2>1, MaxOfBounded
<1>8. f = F(f)
  <2>1. ASSUME NEW s \in SUBSET (1..n), s # {}
        PROVE  f[s] = step(f[s \ {Max(s)}], chunks[Max(s)])
    <3>1. f[s] = G[<<Max(s), f[s \ {Max(s)}]>>] /\ f[s \ {Max(s)}] \in Found
      <4> HIDE DEF G
      <4> QED
        BY <1>6, <2>1 DEF Folds
    <3> QED
      BY <1>7, <2>1, <3>1
  <2>2. \A s \in SUBSET (1..n) :
          f[s] = IF s = {} THEN base ELSE step(f[s \ {Max(s)}], chunks[Max(s)])
    BY <1>6, <2>1 DEF Folds
  <2>3. f = [s \in SUBSET (1..n) |-> f[s]]
    BY <1>6 DEF Folds
  <2> QED
    BY <2>2, <2>3, Zenon
<1>9. iter = F(iter)
  BY <1>8
<1>10. iter[1..n] = f[1..n]
  <2> HIDE DEF iter
  <2>1. iter[{}] = f[{}]
    BY <1>8, <1>9
  <2>2. \A s \in SUBSET (1..n) :
          s # {} /\ iter[s \ {Max(s)}] = f[s \ {Max(s)}] => iter[s] = f[s]
    BY <1>8, <1>9
  <2> HIDE DEF F
  <2> QED
    BY <1>1, <2>1, <2>2, FoldIsUnique
<1>11. PICK h : Steps(h, n, Found, base, G, f[1..n])
  <2> HIDE DEF G
  <2> QED
    BY <1>1, <1>4, <1>5, <1>6, FoldSteps
<1>12. h \in [0..n -> Found] /\ h[0] = base /\ h[n] = Walk(chunks, offset, limit)
  BY <1>2, <1>10, <1>11 DEF Steps
<1>13. ASSUME NEW k \in 1..n PROVE h[k] = step(h[k - 1], chunks[k])
  <2>1. k - 1 \in 0..n
    BY <1>1
  <2>2. h[k] = G[<<k, h[k - 1]>>] /\ h[k - 1] \in Found
    <3> HIDE DEF G
    <3> QED
      BY <1>11, <2>1 DEF Steps
  <2> QED
    BY <2>2
<1> QED
  BY <1>12, <1>13 DEF Walks, n, step, base

\* A walk over chunks without a gap finds all that they have of the page.
LEMMA WalkFinds ==
  ASSUME NEW chunks, WellChunked(chunks), NEW u, Gapless(chunks, u),
         NEW offset \in Nat, NEW limit \in Nat \ {0}
  PROVE  /\ Walk(chunks, offset, limit) \in Found
         /\ FoundUpTo(Walk(chunks, offset, limit), offset, limit, u)
<1> DEFINE n == Len(chunks)
<1>1. chunks \in Seq(ChunkType)
  BY DEF WellChunked
<1>2. PICK h : Walks(h, chunks, offset, limit)
  BY <1>1, WalkIs
<1>3. /\ n \in Nat /\ h \in [0..n -> Found] /\ h[0] = [messages |-> <<>>, at |-> offset]
      /\ h[n] = Walk(chunks, offset, limit)
      /\ \A k \in 1..n : h[k] = TakeFrom(chunks[k], h[k - 1], limit)
  BY <1>1, <1>2, ChunksAre DEF Walks
<1> DEFINE T == {k \in 0..n : FoundUpTo(h[k], offset, limit, EndOf(chunks, k))}
<1>4. 0 \in T
  <2>1. Len(<<>>) = 0 /\ 0 \in 0..n
    BY <1>3, EmptySeq
  <2>2. EndOf(chunks, 0) = 0 /\ h[0].at = offset /\ h[0].messages = <<>>
    BY <1>3 DEF EndOf
  <2>3. Most(offset, Least(0, offset + limit)) = offset
    BY DEF Most, Least
  <2>4. \A i \in 1..(offset - offset) : FALSE
    OBVIOUS
  <2>5. FoundUpTo(h[0], offset, limit, EndOf(chunks, 0))
    BY <2>1, <2>2, <2>3, <2>4 DEF FoundUpTo
  <2> QED
    BY <2>1, <2>5
<1> HIDE DEF n
<1>5. ASSUME NEW k \in 1..n, k - 1 \in T PROVE k \in T
  <2> DEFINE chunk == chunks[k]
             f == h[k - 1]
  <2>1. /\ chunk \in ChunkType /\ f \in Found /\ h[k] = TakeFrom(chunk, f, limit)
        /\ chunk.end \in Nat
    <3>1. k - 1 \in 0..n
      BY <1>3
    <3> QED
      BY <1>1, <1>3, <3>1, ChunksAre DEF n
  <2>2. chunk.messages # <<>> /\ chunk.end = chunk.start + Len(chunk.messages) - 1
    BY DEF WellChunked, n
  <2>3. /\ chunk.start = EndOf(chunks, k - 1)
        /\ \A j \in 1..Len(chunk.messages) : chunk.messages[j] = chunk.start + j
    BY DEF Gapless, n
  <2>4. FoundUpTo(f, offset, limit, chunk.start)
    BY <1>5, <2>3
  <2>5. EndOf(chunks, k) = chunk.end + 1
    <3>1. k # 0
      BY <1>3
    <3> QED
      BY <3>1 DEF EndOf
  <2> HIDE DEF chunk, f
  <2>6. FoundUpTo(TakeFrom(chunk, f, limit), offset, limit, chunk.end + 1)
    BY <2>1, <2>2, <2>3, <2>4, TurnFinds
  <2>7. k \in 0..n
    BY <1>3
  <2> QED
    BY <2>1, <2>5, <2>6, <2>7
<1>6. n \in T
  <2> HIDE DEF T
  <2>1. 0..n \subseteq T
    BY <1>3, <1>4, <1>5, InductionUpTo
  <2> QED
    BY <1>3, <2>1
<1>7. u = EndOf(chunks, n)
  BY DEF Gapless, n
<1>8. n \in 0..n
  BY <1>3
<1> QED
  BY <1>3, <1>6, <1>7, <1>8

\* The chunks that are kept are those that are not gone, in their order.
KeptAt(at, c, chunks, gone) ==
  LET left == {i \in DOMAIN chunks : <<c, i>> \notin gone}
      n == Cardinality(left)
  IN  /\ n \in Nat /\ Len(Kept(c, chunks, gone)) = n
      /\ at \in [1..n -> left]
      /\ \A k, l \in 1..n : at[k] = at[l] => k = l
      /\ \A i \in left : \E k \in 1..n : at[k] = i
      /\ \A k, l \in 1..n : k < l => at[k] < at[l]
      /\ \A k \in 1..n : Kept(c, chunks, gone)[k] = chunks[at[k]]

LEMMA KeptIs ==
  ASSUME NEW c, NEW chunks \in Seq(ChunkType), NEW gone
  PROVE  /\ Kept(c, chunks, gone) \in Seq(ChunkType)
         /\ \E at : KeptAt(at, c, chunks, gone)
<1> DEFINE left == {i \in DOMAIN chunks : <<c, i>> \notin gone}
           n == Cardinality(left)
           m == Len(chunks)
           r == Kept(c, chunks, gone)
<1>1. m \in Nat /\ DOMAIN chunks = 1..m /\ \A i \in 1..m : chunks[i] \in ChunkType
  BY ChunksAre
<1>2. left \in SUBSET (1..m)
  BY <1>1
<1>3. r = [k \in 1..n |-> chunks[CHOOSE i \in left : Cardinality({j \in left : j < i}) = k - 1]]
  BY DEF Kept
<1> HIDE DEF m, left
<1>4. n \in Nat /\ \E at : CountsPlaces(at, left, n)
  BY <1>1, <1>2, PlacesAreCounted
<1>5. PICK at : CountsPlaces(at, left, n)
  BY <1>4
<1> HIDE DEF n
<1>6. \A k \in 1..n : (CHOOSE i \in left : Cardinality({j \in left : j < i}) = k - 1) = at[k]
  BY <1>5 DEF CountsPlaces
<1>7. DOMAIN r = 1..n /\ \A k \in 1..n : r[k] = chunks[at[k]]
  BY <1>3, <1>6
<1>8. r = [k \in 1..n |-> r[k]]
  BY <1>3
<1> HIDE DEF r
<1>9. \A k \in 1..n : at[k] \in 1..m
  BY <1>2, <1>5 DEF CountsPlaces
<1>10. \A k \in 1..n : r[k] \in ChunkType
  BY <1>1, <1>7, <1>9
<1>11. r \in Seq(ChunkType) /\ Len(r) = n
  BY <1>4, <1>8, <1>10
<1>12. KeptAt(at, c, chunks, gone)
  BY <1>4, <1>5, <1>7, <1>11 DEF KeptAt, CountsPlaces, left, n, r
<1> QED
  BY <1>11, <1>12 DEF r

\* What loses none is kept as it is.
LEMMA KeptAll ==
  ASSUME NEW c, NEW chunks \in Seq(ChunkType), NEW gone, \A i \in DOMAIN chunks : <<c, i>> \notin gone
  PROVE  Kept(c, chunks, gone) = chunks
<1> DEFINE n == Len(chunks)
           left == {i \in DOMAIN chunks : <<c, i>> \notin gone}
<1>1. n \in Nat /\ DOMAIN chunks = 1..n /\ chunks = [k \in 1..n |-> chunks[k]]
  BY LenProperties
<1>2. left = 1..n
  BY <1>1
<1>3. Cardinality(1..n) = n
  BY <1>1, FirstNumbers
<1>4. \A k \in 1..n : Cardinality({j \in 1..n : j < k}) = k - 1
  <2> TAKE k \in 1..n
  <2>1. {j \in 1..n : j < k} = 1..(k - 1) /\ k - 1 \in Nat
    BY <1>1
  <2> QED
    BY <2>1, FirstNumbers
<1>5. ASSUME NEW k \in 1..n
      PROVE  (CHOOSE i \in 1..n : Cardinality({j \in 1..n : j < i}) = k - 1) = k
  <2>1. \A i \in 1..n : Cardinality({j \in 1..n : j < i}) = k - 1 <=> i = k
    BY <1>1, <1>4
  <2> QED
    BY <2>1
<1>6. Kept(c, chunks, gone) =
        [k \in 1..Cardinality(left) |->
           chunks[CHOOSE i \in left : Cardinality({j \in left : j < i}) = k - 1]]
  BY DEF Kept
<1> HIDE DEF n, left
<1> QED
  BY <1>1, <1>2, <1>3, <1>5, <1>6

\* What is loaded of a conversation without a gap is the slice.
LEMMA LoadedIsSlice ==
  ASSUME ShardShape, NEW c \in Convs, InItsOrder(c), c \notin evicted,
         NEW offset \in Nat, NEW limit \in Nat \ {0}
  PROVE  LoadFromHistory(c, offset, limit) = Slice(c, offset, limit)
<1> DEFINE u == Older(c)
           active == activeMessages[c]
           len == Len(active)
           t == messageTotal[c]
           chunks == historyChunks[c]
           n == Least(t, offset + limit) - offset
           found == IF offset < u THEN Walk(chunks, offset, limit).messages ELSE <<>>
           from == Most(0, offset - u)
           m == Least(len, from + limit - Len(found)) - from
           ids == [i \in 1..t |-> i]
           tail == SubSeq(active, from + 1, from + m)
           slice == SubSeq(ids, offset + 1, offset + n)
<1>1. /\ t \in Nat /\ active \in Seq(1..MaxAdded) /\ len \in Nat
      /\ \A i \in 1..len : active[i] \in 1..MaxAdded
  <2>1. t \in 0..MaxAdded /\ active \in Seq(1..MaxAdded) /\ MaxAdded \in Nat
    BY ShardAssumption DEF ShardShape
  <2> QED
    BY <2>1, LenProperties, ElementOfSeq
<1>2. /\ u \in Nat /\ t = u + len
      /\ \A i \in 1..len : active[i] = u + i
  BY <1>1 DEF InItsOrder, Older
<1>3. WellChunked(chunks) /\ Gapless(chunks, u)
  BY DEF InItsOrder
<1>4. Slice(c, offset, limit) = slice
  <2>1. offset + n = Least(t, offset + limit)
    BY <1>1 DEF Least
  <2> QED
    BY <2>1 DEF Slice
<1>5. LoadFromHistory(c, offset, limit) = found \o tail
  <2>1. /\ Walk(chunks, offset, limit) \in Found
        /\ Walk(chunks, offset, limit).messages \in Seq(1..MaxAdded)
    BY <1>3, WalkFinds, FoundIs
  <2>2. Len(found) \in Nat
    <3>1. found \in Seq(1..MaxAdded)
      BY <2>1, EmptySeq
    <3> QED
      BY <3>1, LenProperties
  <2>3. from \in Nat
    BY <1>2 DEF Most
  <2>4. from + m = Least(len, from + limit - Len(found))
    <3> HIDE DEF found, from, len
    <3> QED
      BY <1>1, <2>2, <2>3 DEF Least
  <2> HIDE DEF m
  <2> QED
    BY <2>4 DEF LoadFromHistory, Walk, Older
<1> HIDE DEF u, active, len, t, chunks
<1>6. n \in Int /\ n <= t - offset
  BY <1>1 DEF Least
<1>7. /\ slice \in Seq(Nat) /\ Len(slice) = IF n > 0 THEN n ELSE 0
      /\ \A i \in 1..n : slice[i] = offset + i
  <2>1. ids \in Seq(Nat) /\ Len(ids) = t /\ \A i \in 1..t : ids[i] = i
    BY <1>1
  <2> HIDE DEF ids, n
  <2>2. /\ slice \in Seq(Nat) /\ Len(slice) = IF n > 0 THEN n ELSE 0
        /\ \A i \in 1..n : slice[i] = ids[offset + i]
    BY <1>6, <2>1, PartIs
  <2>3. \A i \in 1..n : offset + i \in 1..t
    BY <1>1, <1>6
  <2> QED
    BY <2>1, <2>2, <2>3
<1>8. CASE offset < u
  <2> DEFINE at == Walk(chunks, offset, limit).at
             w == Walk(chunks, offset, limit).messages
  <2>1. FoundUpTo(Walk(chunks, offset, limit), offset, limit, u)
        /\ w \in Seq(1..MaxAdded) /\ at \in Int
    BY <1>3, WalkFinds, FoundIs
  <2>2. /\ at = Most(offset, Least(u, offset + limit)) /\ Len(w) = at - offset
        /\ \A j \in 1..(at - offset) : w[j] = offset + j
    BY <2>1 DEF FoundUpTo
  <2>3. found = w /\ from = 0
    BY <1>2, <1>8 DEF Most
  <2> HIDE DEF found, from, at, w, slice, tail
  <2>4. /\ at - offset \in Nat /\ m \in Nat /\ m <= len /\ n = (at - offset) + m
        /\ m > 0 => at = u
    <3>1. /\ m = Least(len, 0 + limit - (at - offset)) - 0
          /\ n = Least(u + len, offset + limit) - offset
      BY <1>2, <2>2, <2>3
    <3> HIDE DEF m, n
    <3>2. /\ u \in Nat /\ len \in Nat /\ offset < u /\ at \in Int
          /\ at = Most(offset, Least(u, offset + limit))
      BY <1>1, <1>2, <1>8, <2>1, <2>2
    <3> QED
      BY <3>1, <3>2 DEF Most, Least
  <2> HIDE DEF m, n
  <2>5. /\ tail \in Seq(1..MaxAdded) /\ Len(tail) = m
        /\ \A i \in 1..m : tail[i] = active[i]
    <3>1. m \in Int /\ m <= Len(active) - from /\ from \in Nat
      BY <1>1, <2>3, <2>4 DEF len
    <3>2. /\ SubSeq(active, from + 1, from + m) \in Seq(1..MaxAdded)
          /\ Len(SubSeq(active, from + 1, from + m)) = IF m > 0 THEN m ELSE 0
          /\ \A i \in 1..m : SubSeq(active, from + 1, from + m)[i] = active[from + i]
      <4> DEFINE M == 1..MaxAdded
      <4>1. active \in Seq(M)
        BY <1>1
      <4> HIDE DEF M
      <4>2. /\ SubSeq(active, from + 1, from + m) \in Seq(M)
            /\ Len(SubSeq(active, from + 1, from + m)) = IF m > 0 THEN m ELSE 0
            /\ \A i \in 1..m : SubSeq(active, from + 1, from + m)[i] = active[from + i]
        BY <3>1, <4>1, PartIs
      <4> QED
        BY <4>2 DEF M
    <3>3. \A i \in 1..m : from + i = i
      BY <2>3
    <3>4. tail \in Seq(1..MaxAdded) /\ Len(tail) = m
      BY <2>4, <3>2 DEF tail
    <3>5. \A i \in 1..m : tail[i] = active[i]
      BY <3>2, <3>3 DEF tail
    <3> QED
      BY <3>4, <3>5
  <2>6. /\ w \o tail \in Seq(1..MaxAdded) /\ Len(w \o tail) = Len(w) + Len(tail)
        /\ \A i \in 1..(Len(w) + Len(tail)) :
             (w \o tail)[i] = IF i <= Len(w) THEN w[i] ELSE tail[i - Len(w)]
    BY <2>1, <2>5, ConcatProperties
  <2> DEFINE all == w \o tail
  <2> HIDE DEF all
  <2>7. all \in Seq(Nat)
    <3>1. all \in Seq(1..MaxAdded) /\ (1..MaxAdded) \subseteq Nat
      BY <2>6 DEF all
    <3>2. Len(all) \in Nat /\ all \in [1..Len(all) -> Nat]
      BY <3>1, LenProperties
    <3> QED
      BY <3>2, SeqDef
  <2>8. Len(all) = n /\ Len(slice) = n /\ n \in Nat
    BY <1>7, <2>2, <2>4, <2>5, <2>6 DEF all
  <2>9. ASSUME NEW i \in 1..n PROVE all[i] = offset + i
    <3>1. i \in 1..(Len(w) + Len(tail))
      BY <2>2, <2>4, <2>5
    <3>2. CASE i <= at - offset
      <4>1. i \in 1..(at - offset) /\ all[i] = w[i]
        BY <2>2, <2>6, <3>1, <3>2 DEF all
      <4> QED
        BY <2>2, <4>1
    <3>3. CASE i > at - offset
      <4>1. i - (at - offset) \in 1..m /\ all[i] = tail[i - (at - offset)]
        BY <2>2, <2>4, <2>6, <3>1, <3>3 DEF all
      <4>2. m > 0 /\ i - (at - offset) \in 1..len
        BY <2>4, <1>1, <4>1
      <4>3. tail[i - (at - offset)] = u + (i - (at - offset))
        BY <1>2, <2>5, <4>1, <4>2
      <4> QED
        BY <1>2, <2>4, <4>1, <4>2, <4>3
    <3>4. i <= at - offset \/ i > at - offset
      BY <2>4
    <3> QED
      BY <3>2, <3>3, <3>4
  <2>10. \A i \in 1..n : slice[i] = offset + i
    BY <1>7 DEF n
  <2>11. all = slice
    BY <1>7, <2>7, <2>8, <2>9, <2>10, SeqEqual
  <2> QED
    BY <1>4, <1>5, <2>3, <2>11 DEF all
<1>9. CASE ~(offset < u)
  <2>1. found = <<>> /\ from = offset - u /\ from \in Nat /\ Len(<<>>) = 0
    BY <1>2, <1>9, EmptySeq DEF Most
  <2> HIDE DEF found, from, slice, tail
  <2>2. m = n
    BY <1>1, <1>2, <1>9, <2>1 DEF Least
  <2>3. n <= len - from
    BY <1>1, <1>2, <1>6, <2>1
  <2> HIDE DEF m, n
  <2>4. /\ tail \in Seq(1..MaxAdded) /\ Len(tail) = IF n > 0 THEN n ELSE 0
        /\ \A i \in 1..n : tail[i] = active[from + i]
    <3>1. /\ SubSeq(active, from + 1, from + n) \in Seq(1..MaxAdded)
          /\ Len(SubSeq(active, from + 1, from + n)) = IF n > 0 THEN n ELSE 0
          /\ \A i \in 1..n : SubSeq(active, from + 1, from + n)[i] = active[from + i]
      <4>1. n \in Int /\ n <= Len(active) - from /\ from \in Nat
        BY <1>6, <2>1, <2>3 DEF len
      <4> DEFINE M == 1..MaxAdded
      <4>2. active \in Seq(M)
        BY <1>1
      <4> HIDE DEF M
      <4>3. /\ SubSeq(active, from + 1, from + n) \in Seq(M)
            /\ Len(SubSeq(active, from + 1, from + n)) = IF n > 0 THEN n ELSE 0
            /\ \A i \in 1..n : SubSeq(active, from + 1, from + n)[i] = active[from + i]
        BY <4>1, <4>2, PartIs
      <4> QED
        BY <4>3 DEF M
    <3> QED
      BY <2>2, <3>1 DEF tail
  <2>5. tail \in Seq(Nat)
    <3>1. Len(tail) \in Nat /\ tail \in [1..Len(tail) -> 1..MaxAdded]
      BY <2>4, LenProperties
    <3>2. tail \in [1..Len(tail) -> Nat]
      BY <3>1
    <3> QED
      BY <3>1, <3>2, SeqDef
  <2>6. ASSUME NEW i \in 1..Len(tail) PROVE tail[i] = slice[i]
    <3>1. i \in 1..n
      BY <2>4
    <3>2. from + i \in 1..len /\ u + (from + i) = offset + i
      BY <1>1, <1>2, <1>6, <2>1, <2>3, <3>1 DEF n
    <3> QED
      BY <1>2, <1>7, <2>4, <3>1, <3>2 DEF n
  <2>7. Len(tail) = Len(slice)
    BY <1>7, <2>4 DEF n
  <2>8. tail = slice
    BY <1>7, <2>5, <2>6, <2>7, SeqEqual
  <2>9. <<>> \o tail = tail
    BY <2>5, ConcatEmptySeq
  <2> QED
    BY <1>4, <1>5, <2>1, <2>8, <2>9
<1> QED
  BY <1>8, <1>9

-----------------------------------------------------------------------------
(* Sizes                                                                   *)

Lengths(chunks) == [i \in DOMAIN chunks |-> Len(chunks[i].messages)]

LEMMA SizeType ==
  ASSUME NEW chunks \in Seq(ChunkType)
  PROVE  /\ Numbers(Lengths(chunks), DOMAIN chunks)
         /\ SizeOf(chunks) \in Nat /\ SizeOf(chunks) = Sum(Lengths(chunks), DOMAIN chunks)
<1> DEFINE n == Len(chunks)
<1>1. /\ n \in Nat /\ DOMAIN chunks = 1..n
      /\ \A i \in 1..n : Len(chunks[i].messages) \in Nat
  BY ChunksAre
<1>2. IsFiniteSet(1..n)
  BY <1>1, FirstNumbers
<1>3. Numbers(Lengths(chunks), DOMAIN chunks)
  BY <1>1, <1>2 DEF Numbers, Lengths
<1>4. SizeOf(chunks) = Sum(Lengths(chunks), DOMAIN chunks)
  BY DEF SizeOf, Lengths
<1> QED
  BY <1>3, <1>4, SumType

LEMMA SizeOfNone ==
  ASSUME NEW chunks, chunks = <<>>
  PROVE  SizeOf(chunks) = 0
<1>1. DOMAIN chunks = {}
  OBVIOUS
<1>2. \A x \in {} : [i \in DOMAIN chunks |-> Len(chunks[i].messages)][x] = 0
  OBVIOUS
<1> QED
  BY <1>1, <1>2, SumOfNone DEF SizeOf

LEMMA SizeOfAppended ==
  ASSUME NEW chunks \in Seq(ChunkType), NEW chunk \in ChunkType
  PROVE  SizeOf(Append(chunks, chunk)) = SizeOf(chunks) + Len(chunk.messages)
<1> DEFINE n == Len(chunks)
           r == Append(chunks, chunk)
<1>1. n \in Nat /\ DOMAIN chunks = 1..n
  BY LenProperties
<1>2. /\ r \in Seq(ChunkType) /\ Len(r) = n + 1 /\ r[n + 1] = chunk
      /\ \A i \in 1..n : r[i] = chunks[i]
  BY AppendProperties
<1>3. DOMAIN r = (1..n) \cup {n + 1} /\ (1..n) \cap {n + 1} = {} /\ DOMAIN r = 1..(n + 1)
  <2>1. DOMAIN r = 1..(n + 1)
    BY <1>2, LenProperties
  <2> HIDE DEF r, n
  <2> QED
    BY <1>1, <2>1
<1> HIDE DEF r, n
<1>4. Numbers(Lengths(r), DOMAIN r) /\ SizeOf(r) = Sum(Lengths(r), DOMAIN r)
  BY <1>2, SizeType
<1>5. Numbers(Lengths(r), 1..n) /\ Numbers(Lengths(r), {n + 1})
  BY <1>1, <1>3, <1>4, FirstNumbers, FS_Singleton DEF Numbers
<1>6. SizeOf(r) = Sum(Lengths(r), 1..n) + Sum(Lengths(r), {n + 1})
  <2> DEFINE A == 1..n
             B == {n + 1}
  <2>1. DOMAIN r = A \cup B /\ A \cap B = {}
    BY <1>3
  <2>2. Numbers(Lengths(r), A) /\ Numbers(Lengths(r), B)
    BY <1>5
  <2> HIDE DEF A, B
  <2>3. Sum(Lengths(r), A \cup B) = Sum(Lengths(r), A) + Sum(Lengths(r), B)
    BY <2>1, <2>2, SumOfUnion
  <2> QED
    BY <1>4, <2>1, <2>3 DEF A, B
<1>7. Sum(Lengths(r), 1..n) = SizeOf(chunks)
  <2>1. \A i \in 1..n : Lengths(r)[i] = Lengths(chunks)[i]
    BY <1>1, <1>2, <1>3 DEF Lengths
  <2> QED
    BY <1>1, <2>1, SumSame, SizeType
<1>8. Sum(Lengths(r), {n + 1}) = Len(chunk.messages)
  <2>1. Lengths(r)[n + 1] = Len(chunk.messages) /\ Lengths(r)[n + 1] \in Nat
    BY <1>2, <1>3, <1>5 DEF Lengths, Numbers
  <2> QED
    BY <2>1, SumOfOne
<1> QED
  BY <1>6, <1>7, <1>8 DEF r

\* A conversation's part of what is gone.
GoneOf(c, chunks, gone) == {i \in DOMAIN chunks : <<c, i>> \in gone}

LEMMA SizeOfKept ==
  ASSUME NEW c, NEW chunks \in Seq(ChunkType), NEW gone
  PROVE  /\ SizeOf(Kept(c, chunks, gone)) \in Nat
         /\ Sum(Lengths(chunks), GoneOf(c, chunks, gone)) \in Nat
         /\ IsFiniteSet(GoneOf(c, chunks, gone))
         /\ SizeOf(chunks) = SizeOf(Kept(c, chunks, gone))
                               + Sum(Lengths(chunks), GoneOf(c, chunks, gone))
<1> DEFINE r == Kept(c, chunks, gone)
           left == {i \in DOMAIN chunks : <<c, i>> \notin gone}
           lost == GoneOf(c, chunks, gone)
           n == Cardinality(left)
<1>1. r \in Seq(ChunkType) /\ \E at : KeptAt(at, c, chunks, gone)
  BY KeptIs
<1>2. PICK at : KeptAt(at, c, chunks, gone)
  BY <1>1
<1>3. /\ n \in Nat /\ Len(r) = n /\ at \in [1..n -> left]
      /\ \A k, l \in 1..n : at[k] = at[l] => k = l
      /\ \A i \in left : \E k \in 1..n : at[k] = i
      /\ \A k \in 1..n : r[k] = chunks[at[k]]
  BY <1>2 DEF KeptAt
<1>4. /\ Numbers(Lengths(chunks), DOMAIN chunks)
      /\ SizeOf(chunks) = Sum(Lengths(chunks), DOMAIN chunks)
      /\ SizeOf(r) \in Nat /\ SizeOf(r) = Sum(Lengths(r), DOMAIN r)
  BY <1>1, SizeType
<1>5. DOMAIN chunks = left \cup lost /\ left \cap lost = {}
  BY DEF GoneOf
<1>6. Numbers(Lengths(chunks), left) /\ Numbers(Lengths(chunks), lost)
  <2>1. IsFiniteSet(left) /\ IsFiniteSet(lost)
    BY <1>4, <1>5, FS_Subset DEF Numbers
  <2> QED
    BY <1>4, <1>5, <2>1 DEF Numbers
<1>7. DOMAIN r = 1..n
  BY <1>1, <1>3, LenProperties
<1>8. \A k \in 1..n : Lengths(r)[k] = Lengths(chunks)[at[k]]
  BY <1>3, <1>7 DEF Lengths
<1>9. \A i \in left : i \in DOMAIN chunks
  OBVIOUS
<1> HIDE DEF left, lost, n, r
<1>10. Sum(Lengths(r), 1..n) = Sum(Lengths(chunks), left)
  BY <1>3, <1>6, <1>8, SumRenamed
<1>11. Sum(Lengths(chunks), DOMAIN chunks) = Sum(Lengths(chunks), left) + Sum(Lengths(chunks), lost)
  BY <1>5, <1>6, SumOfUnion
<1>12. Sum(Lengths(chunks), lost) \in Nat /\ IsFiniteSet(lost)
  BY <1>6, SumType DEF Numbers
<1> QED
  BY <1>4, <1>7, <1>10, <1>11, <1>12 DEF lost, r

\* What is kept still ends as it did, rises and is not above u.
LEMMA KeptInOrder ==
  ASSUME NEW c, NEW chunks, WellChunked(chunks), Rising(chunks), NEW u, UpTo(chunks, u), NEW gone
  PROVE  /\ WellChunked(Kept(c, chunks, gone)) /\ Rising(Kept(c, chunks, gone))
         /\ UpTo(Kept(c, chunks, gone), u)
<1> DEFINE r == Kept(c, chunks, gone)
           left == {i \in DOMAIN chunks : <<c, i>> \notin gone}
           n == Cardinality(left)
<1>1. chunks \in Seq(ChunkType)
  BY DEF WellChunked
<1>2. r \in Seq(ChunkType) /\ \E at : KeptAt(at, c, chunks, gone)
  BY <1>1, KeptIs
<1>3. PICK at : KeptAt(at, c, chunks, gone)
  BY <1>2
<1>4. /\ n \in Nat /\ Len(r) = n /\ at \in [1..n -> left]
      /\ \A k, l \in 1..n : k < l => at[k] < at[l]
      /\ \A k \in 1..n : r[k] = chunks[at[k]]
  BY <1>3 DEF KeptAt
<1>5. \A k \in 1..n : at[k] \in 1..Len(chunks)
  BY <1>1, <1>4, LenProperties
<1> HIDE DEF left, n, r
<1>6. WellChunked(r)
  BY <1>2, <1>4, <1>5 DEF WellChunked
<1>7. Rising(r)
  BY <1>4, <1>5 DEF Rising
<1>8. UpTo(r, u)
  BY <1>4, <1>5 DEF UpTo
<1> QED
  BY <1>6, <1>7, <1>8 DEF r

-----------------------------------------------------------------------------
(* Offloading                                                              *)

\* The oldest n of the active messages, which follow u others, become the
\* next chunk.
OffloadsBy(n, ms, u, chunks) ==
  LET off == Offloaded(ms, chunks) IN
  /\ n \in 1..Len(ms)
  /\ off.messages \in Seq(1..MaxAdded)
  /\ Len(off.messages) = Len(ms) - n
  /\ \A k \in 1..(Len(ms) - n) : off.messages[k] = (u + n) + k
  /\ WellChunked(off.chunks) /\ Rising(off.chunks) /\ UpTo(off.chunks, u + n)
  /\ Gapless(chunks, u) => Gapless(off.chunks, u + n)
  /\ SizeOf(off.chunks) = SizeOf(chunks) + n
  /\ Len(off.chunks) = Len(chunks) + 1

LEMMA OffloadedIs ==
  ASSUME NEW ms \in Seq(1..MaxAdded), ms # <<>>, NEW u \in Nat, NEW chunks,
         WellChunked(chunks), Rising(chunks), UpTo(chunks, u),
         \A k \in 1..Len(ms) : ms[k] = u + k
  PROVE  \E n \in Nat : OffloadsBy(n, ms, u, chunks)
<1> DEFINE len == Len(ms)
           n == IF ChunkSize < len THEN ChunkSize ELSE len
           M == 1..MaxAdded
           first == SubSeq(ms, 1, n)
           rest == SubSeq(ms, n + 1, len)
           start == NextIndex(chunks)
           chunk == Chunk(start, first)
           m == Len(chunks)
           r == Append(chunks, chunk)
<1>1. len \in Nat /\ len > 0 /\ n \in 1..len /\ n \in Nat
  <2>1. len \in Nat /\ len # 0
    BY LenProperties, EmptySeq
  <2> HIDE DEF len
  <2> QED
    BY <2>1, ShardAssumption
<1>2. Offloaded(ms, chunks).messages = rest /\ Offloaded(ms, chunks).chunks = r
  BY DEF Offloaded
<1>3. first \in Seq(M) /\ Len(first) = n /\ \A k \in 1..n : first[k] = u + k
  <2>1. n <= len - 0 /\ ms \in Seq(M) /\ n \in Int
    BY <1>1
  <2> HIDE DEF M, n
  <2>2. \A i \in 1..n : ms[i] \in M
    BY <1>1, <2>1, ElementOfSeq, LenProperties
  <2>3. /\ SubSeq(ms, 1, n) \in Seq(M)
        /\ Len(SubSeq(ms, 1, n)) = IF 1 <= n THEN n - 1 + 1 ELSE 0
        /\ \A i \in 1..(n - 1 + 1) : SubSeq(ms, 1, n)[i] = ms[1 + i - 1]
    BY <2>1, <2>2, SubSeqProperties
  <2>4. 1 <= n /\ n - 1 + 1 = n /\ \A i \in 1..n : 1 + i - 1 = i /\ i \in 1..len
    BY <1>1
  <2>5. Len(first) = n
    BY <2>3, <2>4
  <2>6. \A i \in 1..n : first[i] = u + i
    BY <2>3, <2>4
  <2> QED
    BY <2>3, <2>5, <2>6
<1>4. rest \in Seq(M) /\ Len(rest) = len - n /\ \A k \in 1..(len - n) : rest[k] = (u + n) + k
  <2> DEFINE k0 == len - n
  <2>1. k0 \in Nat /\ k0 <= len - n /\ ms \in Seq(M) /\ n + k0 = len
    BY <1>1
  <2> HIDE DEF M, n, k0
  <2>2. /\ SubSeq(ms, n + 1, n + k0) \in Seq(M)
        /\ Len(SubSeq(ms, n + 1, n + k0)) = IF k0 > 0 THEN k0 ELSE 0
        /\ \A i \in 1..k0 : SubSeq(ms, n + 1, n + k0)[i] = ms[n + i]
    <3>1. n \in Nat /\ k0 \in Int /\ k0 <= Len(ms) - n
      BY <1>1, <2>1
    <3> QED
      BY <2>1, <3>1, PartIs
  <2>3. rest \in Seq(M)
    BY <2>1, <2>2
  <2>4. Len(rest) = k0
    BY <2>1, <2>2
  <2>5. ASSUME NEW i \in 1..k0 PROVE rest[i] = (u + n) + i
    <3>1. rest[i] = ms[n + i] /\ n + i \in 1..len
      BY <1>1, <2>1, <2>2
    <3>2. ms[n + i] = u + (n + i)
      BY <3>1
    <3> QED
      BY <1>1, <3>1, <3>2
  <2> QED
    BY <2>3, <2>4, <2>5 DEF k0
<1>5. /\ chunks \in Seq(ChunkType) /\ m \in Nat
      /\ \A i \in 1..m : /\ chunks[i].messages \in Seq(1..MaxAdded)
                         /\ Len(chunks[i].messages) \in Nat
                         /\ chunks[i].end \in Nat
                         /\ \A k \in 1..Len(chunks[i].messages) : chunks[i].messages[k] \in 1..MaxAdded
  <2>1. chunks \in Seq(ChunkType)
    BY DEF WellChunked
  <2> QED
    BY <2>1, ChunksAre
<1>6. start = EndOf(chunks, m) /\ start \in Nat
  <2>1. CASE chunks = <<>>
    BY <2>1, EmptySeq DEF NextIndex, EndOf
  <2>2. CASE chunks # <<>>
    <3>1. m # 0
      BY <1>5, <2>2, EmptySeq
    <3>2. Last(chunks) = chunks[m]
      BY DEF Last
    <3>3. m \in 1..m
      BY <1>5, <3>1
    <3> QED
      BY <1>5, <2>2, <3>1, <3>2, <3>3 DEF NextIndex, EndOf
  <2> QED
    BY <2>1, <2>2
<1> HIDE DEF len, n, M, first, rest, start, m
<1>7. /\ chunk.start = start /\ chunk.end = start + n - 1 /\ chunk.messages = first
      /\ chunk \in ChunkType
  <2>1. chunk = [start |-> start, end |-> start + n - 1, messages |-> first]
    BY <1>3 DEF Chunk
  <2>2. start + n - 1 \in Nat
    BY <1>1, <1>6
  <2> DEFINE S == Seq(M)
  <2>3. first \in S
    BY <1>3
  <2> HIDE DEF S
  <2>4. chunk \in [start : Nat, end : Nat, messages : S]
    BY <1>6, <2>1, <2>2, <2>3
  <2> QED
    BY <2>1, <2>4 DEF ChunkType, S, M
<1> HIDE DEF chunk
<1>8. /\ r \in Seq(ChunkType) /\ Len(r) = m + 1 /\ r[m + 1] = chunk
      /\ \A i \in 1..m : r[i] = chunks[i]
  BY <1>5, <1>7, AppendProperties DEF m
<1> HIDE DEF r
<1>9. \A i \in 1..(m + 1) : i = m + 1 \/ i \in 1..m
  BY <1>5
<1>10. WellChunked(r)
  <2>1. first # <<>>
    BY <1>1, <1>3, EmptySeq
  <2>2. ASSUME NEW i \in 1..(m + 1)
        PROVE  r[i].messages # <<>> /\ r[i].end = r[i].start + Len(r[i].messages) - 1
    <3>1. CASE i = m + 1
      BY <1>3, <1>7, <1>8, <2>1, <3>1
    <3>2. CASE i \in 1..m
      BY <1>8, <3>2 DEF WellChunked, m
    <3> QED
      BY <1>9, <3>1, <3>2
  <2> QED
    BY <1>8, <2>2 DEF WellChunked
<1>11. \A i \in 1..m : \A k \in 1..Len(chunks[i].messages) : chunks[i].messages[k] <= u
  BY DEF UpTo, m
<1>12. Rising(r)
  <2>1. ASSUME NEW i \in 1..(m + 1), NEW k \in 1..Len(r[i].messages), NEW l \in 1..Len(r[i].messages), k < l
        PROVE  r[i].messages[k] < r[i].messages[l]
    <3>1. CASE i = m + 1
      <4>1. k \in 1..n /\ l \in 1..n /\ r[i].messages[k] = u + k /\ r[i].messages[l] = u + l
        BY <1>3, <1>7, <1>8, <3>1
      <4> QED
        BY <1>1, <2>1, <4>1
    <3>2. CASE i \in 1..m
      BY <1>8, <2>1, <3>2 DEF Rising, m
    <3> QED
      BY <1>9, <3>1, <3>2
  <2>2. ASSUME NEW i \in 1..(m + 1), NEW j \in 1..(m + 1), i < j,
               NEW k \in 1..Len(r[i].messages), NEW l \in 1..Len(r[j].messages)
        PROVE  r[i].messages[k] < r[j].messages[l]
    <3>1. i \in 1..m /\ r[i] = chunks[i]
      BY <1>5, <1>8, <2>2
    <3>2. CASE j = m + 1
      <4>1. l \in 1..n /\ r[j].messages[l] = u + l
        BY <1>3, <1>7, <1>8, <3>2
      <4>2. r[i].messages[k] <= u /\ r[i].messages[k] \in 1..MaxAdded
        BY <1>5, <1>11, <3>1
      <4> QED
        BY <1>1, <4>1, <4>2
    <3>3. CASE j \in 1..m
      BY <1>8, <2>2, <3>1, <3>3 DEF Rising, m
    <3> QED
      BY <1>9, <3>2, <3>3
  <2> QED
    BY <1>8, <2>1, <2>2 DEF Rising
<1>13. UpTo(r, u + n)
  <2>1. ASSUME NEW i \in 1..(m + 1), NEW k \in 1..Len(r[i].messages)
        PROVE  r[i].messages[k] <= u + n
    <3>1. CASE i = m + 1
      <4>1. k \in 1..n /\ r[i].messages[k] = u + k
        BY <1>3, <1>7, <1>8, <3>1
      <4> QED
        BY <1>1, <4>1
    <3>2. CASE i \in 1..m
      <4>1. r[i].messages[k] <= u /\ r[i].messages[k] \in 1..MaxAdded
        BY <1>5, <1>8, <1>11, <3>2
      <4> QED
        BY <1>1, <4>1
    <3> QED
      BY <1>9, <3>1, <3>2
  <2> QED
    BY <1>8, <2>1 DEF UpTo
<1>14. ASSUME Gapless(chunks, u) PROVE Gapless(r, u + n)
  <2>1. /\ \A i \in 1..m : /\ chunks[i].start = EndOf(chunks, i - 1)
                           /\ \A k \in 1..Len(chunks[i].messages) : chunks[i].messages[k] = chunks[i].start + k
        /\ u = EndOf(chunks, m)
    BY <1>14 DEF Gapless, m
  <2>2. \A i \in 0..m : EndOf(r, i) = EndOf(chunks, i)
    <3> TAKE i \in 0..m
    <3>1. CASE i = 0
      BY <3>1 DEF EndOf
    <3>2. CASE i # 0
      <4>1. i \in 1..m
        BY <1>5, <3>2
      <4> QED
        BY <1>8, <3>2, <4>1 DEF EndOf
    <3> QED
      BY <3>1, <3>2
  <2>3. ASSUME NEW i \in 1..(m + 1)
        PROVE  /\ r[i].start = EndOf(r, i - 1)
               /\ \A k \in 1..Len(r[i].messages) : r[i].messages[k] = r[i].start + k
    <3>1. CASE i = m + 1
      <4>1. i - 1 = m /\ m \in 0..m
        BY <1>5, <3>1
      <4>2. r[i] = chunk /\ EndOf(r, i - 1) = start /\ start = u
        BY <1>6, <1>8, <2>1, <2>2, <3>1, <4>1
      <4> QED
        BY <1>3, <1>7, <4>2
    <3>2. CASE i \in 1..m
      <4>1. i - 1 \in 0..m
        BY <1>5, <3>2
      <4> QED
        BY <1>8, <2>1, <2>2, <3>2, <4>1
    <3> QED
      BY <1>9, <3>1, <3>2
  <2>4. EndOf(r, m + 1) = u + n
    <3>1. m + 1 # 0
      BY <1>5
    <3>2. EndOf(r, m + 1) = chunk.end + 1
      BY <1>8, <3>1 DEF EndOf
    <3>3. chunk.end = u + n - 1
      BY <1>6, <1>7, <2>1
    <3> QED
      BY <1>1, <3>2, <3>3
  <2> QED
    BY <1>8, <2>3, <2>4 DEF Gapless
<1>15. SizeOf(r) = SizeOf(chunks) + n
  BY <1>3, <1>5, <1>7, SizeOfAppended DEF r
<1>16. OffloadsBy(n, ms, u, chunks)
  BY <1>1, <1>2, <1>4, <1>8, <1>10, <1>12, <1>13, <1>14, <1>15 DEF len, M, m, OffloadsBy
<1> QED
  BY <1>1, <1>16

-----------------------------------------------------------------------------
(* Adding a message                                                        *)

Grown(c) == Append(activeMessages[c], messageTotal[c] + 1)

GrownOff(c) ==
  IF Len(Grown(c)) * 10 > MaxMessages THEN Offloaded(Grown(c), historyChunks[c])
  ELSE [chunks |-> historyChunks[c], messages |-> Grown(c)]

ChunksWith(c) == [historyChunks EXCEPT ![c] = GrownOff(c).chunks]

\* A conversation with one message more, and v that are no longer active.
GrownInOrder(c, v) ==
  LET off == GrownOff(c) IN
  /\ v \in Nat /\ off.messages \in Seq(1..MaxAdded)
  /\ v + Len(off.messages) = messageTotal[c] + 1
  /\ \A k \in 1..Len(off.messages) : off.messages[k] = v + k
  /\ WellChunked(off.chunks) /\ Rising(off.chunks) /\ UpTo(off.chunks, v)
  /\ c \notin evicted => Gapless(off.chunks, v)
  /\ SizeOf(off.chunks) + Len(off.messages) = StoredOf(c) + 1
  /\ historyChunks[c] = <<>> => Len(off.chunks) <= 1

LEMMA GrownIs ==
  ASSUME ShardIInv, NEW c \in Convs, messageTotal[c] < MaxAdded
  PROVE  \E v : GrownInOrder(c, v)
<1> DEFINE active == activeMessages[c]
           chunks == historyChunks[c]
           t == messageTotal[c]
           u == Older(c)
           ms == Grown(c)
           len == Len(active)
<1>1. /\ t \in Nat /\ t + 1 \in 1..MaxAdded
      /\ active \in Seq(1..MaxAdded) /\ len \in Nat
  <2>1. MaxAdded \in Nat /\ t \in 0..MaxAdded /\ active \in Seq(1..MaxAdded)
    BY ShardAssumption DEF ShardIInv, ShardShape
  <2> QED
    BY <2>1, LenProperties
<1>2. /\ u \in Nat /\ t = u + len /\ \A k \in 1..len : active[k] = u + k
      /\ WellChunked(chunks) /\ Rising(chunks) /\ UpTo(chunks, u)
      /\ c \notin evicted => Gapless(chunks, u)
  BY <1>1 DEF ShardIInv, InItsOrder, Older
<1>3. chunks \in Seq(ChunkType)
  BY <1>2 DEF WellChunked
<1>4. SizeOf(chunks) \in Nat /\ StoredOf(c) = SizeOf(chunks) + len
  BY <1>3, SizeType DEF StoredOf
<1>5. /\ ms \in Seq(1..MaxAdded) /\ Len(ms) = len + 1 /\ ms # <<>> /\ ms[len + 1] = t + 1
      /\ \A k \in 1..len : ms[k] = active[k]
  <2> DEFINE M == 1..MaxAdded
             x == t + 1
  <2>1. active \in Seq(M) /\ x \in M
    BY <1>1
  <2>2. ms = Append(active, x)
    BY DEF Grown
  <2> HIDE DEF M, x, ms, active, t
  <2>3. /\ Append(active, x) \in Seq(M) /\ Len(Append(active, x)) = Len(active) + 1
        /\ Append(active, x)[Len(active) + 1] = x
        /\ \A k \in 1..Len(active) : Append(active, x)[k] = active[k]
    BY <2>1, AppendProperties
  <2>4. ms # <<>>
    BY <1>1, <2>2, <2>3, EmptySeq
  <2> QED
    BY <2>2, <2>3, <2>4 DEF M, x
<1> HIDE DEF t, u, ms, active, chunks
<1>6. ASSUME NEW k \in 1..(len + 1) PROVE ms[k] = u + k
  <2>1. k = len + 1 \/ k \in 1..len
    BY <1>1 DEF len
  <2> QED
    BY <1>2, <1>5, <2>1
<1> HIDE DEF len
<1>7. CASE Len(ms) * 10 > MaxMessages
  <2>1. GrownOff(c) = Offloaded(ms, chunks)
    BY <1>7 DEF GrownOff, ms, chunks
  <2> \A k \in 1..Len(ms) : ms[k] = u + k
    BY <1>5, <1>6
  <2>2. PICK n \in Nat : OffloadsBy(n, ms, u, chunks)
    BY <1>2, <1>5, OffloadedIs
  <2>2a. n \in 1..Len(ms)
    BY <2>2 DEF OffloadsBy
  <2>3. /\ u + n \in Nat /\ (u + n) + (Len(ms) - n) = t + 1
        /\ (SizeOf(chunks) + n) + (Len(ms) - n) = StoredOf(c) + 1
    BY <1>1, <1>2, <1>4, <1>5, <2>2a
  <2>4. chunks = <<>> => Len(chunks) + 1 <= 1
    BY EmptySeq
  <2>5. GrownInOrder(c, u + n)
    BY <1>2, <2>1, <2>2, <2>3, <2>4 DEF GrownInOrder, OffloadsBy, t, chunks
  <2> QED
    BY <2>5
<1>8. CASE ~(Len(ms) * 10 > MaxMessages)
  <2>1. GrownOff(c).chunks = chunks /\ GrownOff(c).messages = ms
    BY <1>8 DEF GrownOff, ms, chunks
  <2>2. u + Len(ms) = t + 1 /\ SizeOf(chunks) + Len(ms) = StoredOf(c) + 1
    BY <1>1, <1>2, <1>4, <1>5
  <2>3. chunks = <<>> => Len(chunks) <= 1
    BY EmptySeq
  <2>4. GrownInOrder(c, u)
    BY <1>2, <1>5, <1>6, <2>1, <2>2, <2>3 DEF GrownInOrder, t, chunks
  <2> QED
    BY <2>4
<1> QED
  BY <1>7, <1>8

\* What is gone counts off what the conversations of the shard lose.
LEMMA GoneIsLost ==
  ASSUME NEW chunksOf \in [Convs -> Seq(ChunkType)], NEW S \in SUBSET Convs,
         NEW gone, gone \subseteq UNION {{c} \X DOMAIN chunksOf[c] : c \in S}
  PROVE  LET lost == [d \in S |-> Sum(Lengths(chunksOf[d]), GoneOf(d, chunksOf[d], gone))]
         IN  /\ IsFiniteSet(gone) /\ Numbers(lost, S)
             /\ SizeOfGone(chunksOf, gone) = Sum(lost, S)
<1> DEFINE lost == [d \in S |-> Sum(Lengths(chunksOf[d]), GoneOf(d, chunksOf[d], gone))]
           P == [d \in S |-> GoneOf(d, chunksOf[d], gone)]
           w == [g \in gone |-> Len(chunksOf[g[1]][g[2]].messages)]
<1>1. IsFiniteSet(S)
  BY ShardAssumption, FS_Subset DEF Convs
<1>2. \A d \in S : chunksOf[d] \in Seq(ChunkType)
  OBVIOUS
<1>3. \A d \in S : IsFiniteSet(P[d])
  BY <1>2, SizeOfKept
<1>4. PairsOf(P, S) = gone
  <2>1. \A d \in S : P[d] = GoneOf(d, chunksOf[d], gone)
    OBVIOUS
  <2> HIDE DEF P
  <2>2. PairsOf(P, S) \subseteq gone
    BY <2>1 DEF PairsOf, GoneOf
  <2>3. ASSUME NEW g \in gone PROVE g \in PairsOf(P, S)
    <3>1. PICK d \in S : g \in {d} \X DOMAIN chunksOf[d]
      OBVIOUS
    <3>2. PICK i \in DOMAIN chunksOf[d] : g = <<d, i>>
      BY <3>1
    <3>3. i \in P[d]
      BY <2>1, <3>2 DEF GoneOf
    <3> QED
      BY <3>2, <3>3 DEF PairsOf
  <2> QED
    BY <2>2, <2>3
<1>5. ASSUME NEW d \in S, NEW i \in P[d]
      PROVE  /\ <<d, i>> \in gone /\ i \in DOMAIN chunksOf[d]
             /\ w[<<d, i>>] = Lengths(chunksOf[d])[i] /\ w[<<d, i>>] \in Nat
  <2>1. <<d, i>> \in gone /\ i \in DOMAIN chunksOf[d]
    BY DEF GoneOf
  <2>2. Numbers(Lengths(chunksOf[d]), DOMAIN chunksOf[d])
    BY <1>2, SizeType
  <2>3. w[<<d, i>>] = Len(chunksOf[d][i].messages)
    BY <2>1
  <2> QED
    BY <2>1, <2>2, <2>3 DEF Lengths, Numbers
<1>6. ASSUME NEW d \in S PROVE lost[d] = Sum([i \in P[d] |-> w[<<d, i>>]], P[d])
  <2> DEFINE f == [i \in P[d] |-> w[<<d, i>>]]
  <2>1. \A i \in P[d] : Lengths(chunksOf[d])[i] = f[i]
    BY <1>5
  <2>2. lost[d] = Sum(Lengths(chunksOf[d]), P[d])
    OBVIOUS
  <2> HIDE DEF f, P, lost
  <2>3. Sum(Lengths(chunksOf[d]), P[d]) = Sum(f, P[d])
    BY <2>1, SumSame
  <2> QED
    BY <2>2, <2>3 DEF f
<1>7. IsFiniteSet(gone)
  <2> HIDE DEF P
  <2> QED
    BY <1>1, <1>3, <1>4, PairsFinite
<1>8. SizeOfGone(chunksOf, gone) = Sum(w, gone)
  BY DEF SizeOfGone
<1> HIDE DEF lost, P, w
<1>9. /\ \A x \in S : lost[x] \in Nat
      /\ Sum(lost, S) = Sum(w, PairsOf(P, S))
  BY <1>1, <1>3, <1>5, <1>6, SumOfSums
<1>10. Numbers(lost, S) /\ SizeOfGone(chunksOf, gone) = Sum(lost, S)
  BY <1>1, <1>4, <1>8, <1>9 DEF Numbers
<1> QED
  BY <1>7, <1>10 DEF lost

\* A chunk that is gone had messages.
LEMMA GoneHadMessages ==
  ASSUME NEW chunksOf \in [Convs -> Seq(ChunkType)], \A d \in Convs : WellChunked(chunksOf[d]),
         NEW gone, IsFiniteSet(gone), gone # {},
         \A g \in gone : \E d \in Convs : \E i \in DOMAIN chunksOf[d] : g = <<d, i>>
  PROVE  1 <= SizeOfGone(chunksOf, gone)
<1> DEFINE w == [g \in gone |-> Len(chunksOf[g[1]][g[2]].messages)]
<1>1. ASSUME NEW g \in gone PROVE w[g] \in Nat /\ 1 <= w[g]
  <2>1. PICK d \in Convs : \E i \in DOMAIN chunksOf[d] : g = <<d, i>>
    OBVIOUS
  <2>2. PICK i \in DOMAIN chunksOf[d] : g = <<d, i>>
    BY <2>1
  <2> DEFINE ms == chunksOf[d][i].messages
  <2>3. chunksOf[d] \in Seq(ChunkType) /\ i \in 1..Len(chunksOf[d])
    BY <2>2, LenProperties
  <2>4. ms \in Seq(1..MaxAdded) /\ Len(ms) \in Nat /\ ms # <<>>
    BY <2>3, ChunksAre DEF WellChunked
  <2>5. Len(ms) # 0
    BY <2>4, EmptySeq
  <2>6. w[g] = Len(ms)
    BY <2>2
  <2> QED
    BY <2>4, <2>5, <2>6
<1>2. PICK g \in gone : TRUE
  OBVIOUS
<1>3. SizeOfGone(chunksOf, gone) = Sum(w, gone)
  BY DEF SizeOfGone
<1> HIDE DEF w
<1>4. Numbers(w, gone)
  BY <1>1 DEF Numbers
<1>5. Sum(w, {g}) <= Sum(w, gone) /\ Sum(w, gone) \in Nat
  <2>1. \A x \in {g} : w[x] \in Nat /\ w[x] <= w[x]
    BY <1>1
  <2>2. {g} \in SUBSET gone
    OBVIOUS
  <2> QED
    BY <1>4, <2>1, <2>2, SumGrows, SumType
<1>6. Sum(w, {g}) = w[g]
  BY <1>1, SumOfOne
<1> QED
  BY <1>1, <1>3, <1>5, <1>6

-----------------------------------------------------------------------------
(* What the invariant says of a conversation and of its pages.             *)

LEMMA OrderedIsStored ==
  ASSUME ShardShape, NEW c \in Convs, InItsOrder(c)
  PROVE  LET all == Concatenated(historyChunks[c]) \o activeMessages[c] IN
         /\ \A i \in 1..(Len(all) - 1) : all[i] < all[i + 1]
         /\ c \notin evicted => all = [i \in 1..messageTotal[c] |-> i]
<1> DEFINE u == Older(c)
           active == activeMessages[c]
           t == messageTotal[c]
           chunks == historyChunks[c]
           first == Concatenated(chunks)
           all == first \o active
<1>1. /\ t \in Nat /\ active \in Seq(1..MaxAdded) /\ Len(active) \in Nat
  <2>1. t \in 0..MaxAdded /\ active \in Seq(1..MaxAdded) /\ MaxAdded \in Nat
    BY ShardAssumption DEF ShardShape
  <2> QED
    BY <2>1, LenProperties
<1>2. u \in Nat /\ t = u + Len(active) /\ \A i \in 1..Len(active) : active[i] = u + i
  <2>1. u = t - Len(active)
    BY DEF Older
  <2>2. u \in Nat /\ \A i \in 1..Len(active) : active[i] = u + i
    BY DEF InItsOrder
  <2> HIDE DEF u, active, t
  <2> QED
    BY <1>1, <2>1, <2>2
<1>3. /\ WellChunked(chunks) /\ Rising(chunks) /\ UpTo(chunks, u)
      /\ c \notin evicted => Gapless(chunks, u)
  BY DEF InItsOrder
<1> HIDE DEF chunks, u, active, t
<1>4. /\ first \in Seq(1..MaxAdded)
      /\ \A i, j \in 1..Len(first) : i < j => first[i] < first[j]
      /\ \A i \in 1..Len(first) : \E m \in 1..Len(chunks) :
           \E l \in 1..Len(chunks[m].messages) : first[i] = chunks[m].messages[l]
  BY <1>3, ConcatenatedRises
<1>5. c \notin evicted => Len(first) = u /\ \A i \in 1..u : first[i] = i
  BY <1>3, ConcatenatedGapless
<1>6. \A i \in 1..Len(first) : first[i] <= u
  BY <1>3, <1>4 DEF UpTo
<1> HIDE DEF first
<1>7. Len(first) \in Nat /\ \A i \in 1..Len(first) : first[i] \in Nat
  <2>1. Len(first) \in Nat /\ \A i \in 1..Len(first) : first[i] \in 1..MaxAdded
    BY <1>4, LenProperties, ElementOfSeq
  <2> QED
    BY <2>1
<1>8. /\ all \in Seq(1..MaxAdded) /\ Len(all) = Len(first) + Len(active)
      /\ \A i \in 1..Len(all) : all[i] = IF i <= Len(first) THEN first[i] ELSE active[i - Len(first)]
  <2> DEFINE M == 1..MaxAdded
  <2>1. first \in Seq(M) /\ active \in Seq(M)
    BY <1>1, <1>4
  <2> HIDE DEF M
  <2> QED
    BY <2>1, ConcatProperties DEF M
<1> HIDE DEF all
<1>9. ASSUME NEW i \in 1..(Len(all) - 1) PROVE all[i] < all[i + 1]
  <2>1. i \in 1..Len(all) /\ i + 1 \in 1..Len(all)
    BY <1>1, <1>7, <1>8
  <2>2. CASE i + 1 <= Len(first)
    <3>1. i \in 1..Len(first) /\ i + 1 \in 1..Len(first) /\ i < i + 1
      BY <1>7, <2>2
    <3>2. all[i] = first[i] /\ all[i + 1] = first[i + 1]
      BY <1>8, <2>1, <3>1
    <3> QED
      BY <1>4, <3>1, <3>2
  <2>3. CASE i = Len(first)
    <3>1. i \in 1..Len(first) /\ ~(i + 1 <= Len(first)) /\ (i + 1) - Len(first) = 1 /\ 1 \in 1..Len(active)
      BY <1>1, <1>7, <1>8, <2>1, <2>3
    <3>2. all[i] = first[i] /\ all[i + 1] = active[1]
      BY <1>8, <2>1, <3>1
    <3>3. active[1] = u + 1 /\ first[i] <= u /\ first[i] \in Nat
      BY <1>2, <1>6, <1>7, <3>1
    <3> QED
      BY <1>2, <3>2, <3>3
  <2>4. CASE i > Len(first)
    <3> DEFINE k == i - Len(first)
    <3>1. /\ ~(i <= Len(first)) /\ ~(i + 1 <= Len(first)) /\ (i + 1) - Len(first) = k + 1
          /\ k \in 1..Len(active) /\ k + 1 \in 1..Len(active)
      BY <1>1, <1>7, <1>8, <2>1, <2>4
    <3>2. all[i] = active[k] /\ all[i + 1] = active[k + 1]
      BY <1>8, <2>1, <3>1
    <3> HIDE DEF k
    <3>3. active[k] = u + k /\ active[k + 1] = u + (k + 1)
      BY <1>2, <3>1
    <3> QED
      BY <1>2, <3>1, <3>2, <3>3
  <2> QED
    BY <1>7, <2>1, <2>2, <2>3, <2>4
<1>10. ASSUME c \notin evicted PROVE all = [i \in 1..t |-> i]
  <2>1. Len(first) = u /\ \A i \in 1..u : first[i] = i
    BY <1>5, <1>10
  <2>2. ASSUME NEW i \in 1..Len(all) PROVE all[i] = i
    <3>1. CASE i <= u
      BY <1>2, <1>8, <2>1, <3>1
    <3>2. CASE ~(i <= u)
      <4>1. i - u \in 1..Len(active) /\ u + (i - u) = i
        BY <1>1, <1>2, <1>8, <2>1, <3>2
      <4> QED
        BY <1>2, <1>8, <2>1, <3>2, <4>1
    <3> QED
      BY <3>1, <3>2
  <2>3. Len(all) = t /\ DOMAIN all = 1..Len(all) /\ all = [i \in 1..Len(all) |-> all[i]]
    BY <1>2, <1>8, <2>1, LenProperties
  <2> QED
    BY <2>2, <2>3
<1> QED
  BY <1>9, <1>10 DEF all, first, t, active, chunks

LEMMA ShardImplied ==
  ASSUME ShardIInv
  PROVE  ShardInv
<1>1. ShardShape /\ (\A c \in Convs : InItsOrder(c)) /\ CountCoversStored
  BY DEF ShardIInv
<1>2. ShardTypeOK
  <2>1. ASSUME NEW c \in Convs
        PROVE  /\ activeMessages[c] \in Seq(1..MaxAdded)
               /\ \A i \in DOMAIN historyChunks[c] : historyChunks[c][i].messages # <<>>
    <3>1. activeMessages[c] \in Seq(1..MaxAdded) /\ historyChunks[c] \in Seq(ChunkType)
      BY <1>1 DEF ShardShape
    <3>2. DOMAIN historyChunks[c] = 1..Len(historyChunks[c])
      BY <3>1, LenProperties
    <3> QED
      BY <1>1, <3>1, <3>2 DEF InItsOrder, WellChunked
  <2> QED
    BY <1>1, <2>1 DEF ShardTypeOK, ShardShape
<1>3. StoredInOrder
  BY <1>1, OrderedIsStored DEF StoredInOrder
<1>4. PageIsSlice
  <2>1. ASSUME NEW c \in stored \ evicted, NEW offset \in 0..MaxAdded, NEW limit \in 1..MaxAdded,
               ~IsRecent(c, offset, limit)
        PROVE  GetMessages(c, offset, limit) = Slice(c, offset, limit)
    <3>1. c \in Convs /\ offset \in Nat /\ limit \in Nat \ {0}
      BY <1>1, ShardAssumption DEF ShardShape
    <3>2. LoadFromHistory(c, offset, limit) = Slice(c, offset, limit)
      BY <1>1, <3>1, LoadedIsSlice
    <3> QED
      BY <2>1, <3>2 DEF GetMessages
  <2> QED
    BY <2>1 DEF PageIsSlice
<1> QED
  BY <1>1, <1>2, <1>3, <1>4 DEF ShardInv

-----------------------------------------------------------------------------
(* The initial states                                                      *)

LEMMA ShardInitial == ShardInit => ShardIInv
<1> SUFFICES ASSUME ShardInit PROVE ShardIInv
  OBVIOUS
<1>1. ShardShape
  <2>1. <<>> \in Seq(1..MaxAdded) /\ <<>> \in Seq(ChunkType) /\ 0 \in 0..MaxAdded
    BY EmptySeq, ShardAssumption
  <2> QED
    BY <2>1 DEF ShardShape, ShardInit
<1>2. ASSUME NEW c \in Convs PROVE InItsOrder(c)
  <2>1. activeMessages[c] = <<>> /\ historyChunks[c] = <<>> /\ messageTotal[c] = 0
    BY DEF ShardInit
  <2>2. Len(<<>>) = 0 /\ <<>> \in Seq(ChunkType)
    BY EmptySeq
  <2>3. Older(c) = 0
    <3>1. Len(activeMessages[c]) = 0 /\ Older(c) = messageTotal[c] - Len(activeMessages[c])
      BY <2>1, <2>2 DEF Older
    <3> QED
      BY <2>1, <3>1
  <2> QED
    BY <2>1, <2>2, <2>3 DEF InItsOrder, WellChunked, Rising, UpTo, Gapless, EndOf
<1>3. CountCoversStored
  <2>1. ASSUME NEW c \in Convs PROVE StoredOf(c) = 0 /\ historyChunks[c] = <<>>
    <3>1. activeMessages[c] = <<>> /\ historyChunks[c] = <<>> /\ Len(<<>>) = 0
      BY EmptySeq DEF ShardInit
    <3> QED
      BY <3>1, SizeOfNone DEF StoredOf
  <2>2. ASSUME NEW s \in Shards
        PROVE  Sum([c \in Convs |-> StoredOf(c)], {c \in Convs : ShardOf[c] = s}) <= messageCount[s]
    <3> DEFINE f == [c \in Convs |-> StoredOf(c)]
               S == {c \in Convs : ShardOf[c] = s}
    <3>1. \A c \in S : f[c] = 0
      BY <2>1
    <3>2. messageCount[s] = 0
      BY DEF ShardInit
    <3> HIDE DEF f, S
    <3>3. Sum(f, S) = 0
      BY <3>1, SumOfNone
    <3> QED
      BY <3>2, <3>3 DEF f, S
  <2> QED
    BY <2>1, <2>2 DEF CountCoversStored
<1> QED
  BY <1>1, <1>2, <1>3 DEF ShardIInv

-----------------------------------------------------------------------------
(* Adding a message                                                        *)

LEMMA KeptNone ==
  ASSUME NEW c, NEW chunks \in Seq(ChunkType), NEW gone, \A i \in DOMAIN chunks : <<c, i>> \in gone
  PROVE  Kept(c, chunks, gone) = <<>>
<1> DEFINE left == {i \in DOMAIN chunks : <<c, i>> \notin gone}
           r == Kept(c, chunks, gone)
<1>1. left = {} /\ Cardinality(left) = 0
  <2>1. left = {}
    OBVIOUS
  <2> HIDE DEF left
  <2> QED
    BY <2>1, FS_EmptySet
<1>2. r \in Seq(ChunkType) /\ \E at : KeptAt(at, c, chunks, gone)
  BY KeptIs
<1>3. Len(r) = 0
  BY <1>1, <1>2 DEF KeptAt
<1> HIDE DEF r, left
<1>4. r = <<>>
  BY <1>2, <1>3, EmptySeq
<1> QED
  BY <1>4 DEF r

InShard(s) == {d \in Convs : ShardOf[d] = s}

ChunkPlaces(chunksOf, s) == UNION {{d} \X DOMAIN chunksOf[d] : d \in InShard(s)}

GrownActive(c) == [activeMessages EXCEPT ![c] = GrownOff(c).messages]

KeptOf(c, gone) == [d \in Convs |-> Kept(d, ChunksWith(c)[d], gone)]

LEMMA ConvsFinite ==
  ASSUME NEW s
  PROVE  IsFiniteSet(InShard(s)) /\ InShard(s) \in SUBSET Convs /\ IsFiniteSet(Convs)
BY ShardAssumption, FS_Subset DEF Convs, InShard

LEMMA ChunksWithAre ==
  ASSUME ShardIInv, NEW c \in Convs, messageTotal[c] < MaxAdded
  PROVE  /\ ChunksWith(c) \in [Convs -> Seq(ChunkType)]
         /\ GrownActive(c) \in [Convs -> Seq(1..MaxAdded)]
         /\ ChunksWith(c)[c] = GrownOff(c).chunks /\ GrownActive(c)[c] = GrownOff(c).messages
         /\ \A d \in Convs \ {c} : /\ ChunksWith(c)[d] = historyChunks[d]
                                   /\ GrownActive(c)[d] = activeMessages[d]
         /\ \A d \in Convs : WellChunked(ChunksWith(c)[d]) /\ Rising(ChunksWith(c)[d])
<1> DEFINE M == Seq(1..MaxAdded)
           K == Seq(ChunkType)
<1>1. PICK v : GrownInOrder(c, v)
  BY GrownIs
<1>2. /\ GrownOff(c).messages \in M /\ GrownOff(c).chunks \in K
      /\ WellChunked(GrownOff(c).chunks) /\ Rising(GrownOff(c).chunks)
  BY <1>1 DEF GrownInOrder, WellChunked
<1>3. /\ activeMessages \in [Convs -> M] /\ historyChunks \in [Convs -> K]
      /\ \A d \in Convs : WellChunked(historyChunks[d]) /\ Rising(historyChunks[d])
  BY DEF ShardIInv, ShardShape, InItsOrder
<1> HIDE DEF M, K
<1>4. /\ ChunksWith(c) \in [Convs -> K] /\ GrownActive(c) \in [Convs -> M]
      /\ ChunksWith(c)[c] = GrownOff(c).chunks /\ GrownActive(c)[c] = GrownOff(c).messages
      /\ \A d \in Convs \ {c} : /\ ChunksWith(c)[d] = historyChunks[d]
                                /\ GrownActive(c)[d] = activeMessages[d]
  BY <1>2, <1>3 DEF ChunksWith, GrownActive
<1>5. \A d \in Convs : WellChunked(ChunksWith(c)[d]) /\ Rising(ChunksWith(c)[d])
  BY <1>2, <1>3, <1>4
<1> QED
  BY <1>4, <1>5 DEF M, K

\* A message more is stored, less what is gone.
StoredWith(c, gone) ==
  [d \in Convs |-> SizeOf(KeptOf(c, gone)[d]) + Len(GrownActive(c)[d])]

LEMMA StoredAdds ==
  ASSUME ShardIInv, NEW c \in Convs, messageTotal[c] < MaxAdded,
         NEW gone, gone \subseteq ChunkPlaces(ChunksWith(c), ShardOf[c])
  PROVE  /\ IsFiniteSet(gone) /\ SizeOfGone(ChunksWith(c), gone) \in Nat
         /\ Sum(StoredWith(c, gone), InShard(ShardOf[c])) \in Nat
         /\ Sum([d \in Convs |-> StoredOf(d)], InShard(ShardOf[c])) \in Nat
         /\ Sum(StoredWith(c, gone), InShard(ShardOf[c])) + SizeOfGone(ChunksWith(c), gone)
              = Sum([d \in Convs |-> StoredOf(d)], InShard(ShardOf[c])) + 1
<1> DEFINE S == InShard(ShardOf[c])
           chunksOf == ChunksWith(c)
           lost == [d \in S |-> Sum(Lengths(chunksOf[d]), GoneOf(d, chunksOf[d], gone))]
           X == [d \in Convs |-> SizeOf(chunksOf[d]) + Len(GrownActive(c)[d])]
           Y == [d \in Convs |-> StoredOf(d)]
           Z == StoredWith(c, gone)
           lostAll == SizeOfGone(chunksOf, gone)
           rest == S \ {c}
<1>1. IsFiniteSet(S) /\ S \in SUBSET Convs /\ c \in S
  BY ConvsFinite DEF InShard
<1>2. /\ chunksOf \in [Convs -> Seq(ChunkType)] /\ GrownActive(c) \in [Convs -> Seq(1..MaxAdded)]
      /\ chunksOf[c] = GrownOff(c).chunks /\ GrownActive(c)[c] = GrownOff(c).messages
      /\ \A d \in Convs \ {c} : /\ chunksOf[d] = historyChunks[d]
                                /\ GrownActive(c)[d] = activeMessages[d]
  BY ChunksWithAre
<1>3. \A d \in Convs : Len(GrownActive(c)[d]) \in Nat
  <2>1. \A d \in Convs : GrownActive(c)[d] \in Seq(1..MaxAdded)
    BY <1>2
  <2> QED
    BY <2>1, LenProperties
<1>4. \A d \in Convs : Y[d] = StoredOf(d) /\ Y[d] \in Nat
  <2>1. ASSUME NEW d \in Convs PROVE StoredOf(d) \in Nat
    <3>1. historyChunks[d] \in Seq(ChunkType) /\ activeMessages[d] \in Seq(1..MaxAdded)
      BY DEF ShardIInv, ShardShape
    <3>2. SizeOf(historyChunks[d]) \in Nat /\ Len(activeMessages[d]) \in Nat
      BY <3>1, SizeType, LenProperties
    <3> QED
      BY <3>2 DEF StoredOf
  <2> QED
    BY <2>1
<1>5. /\ IsFiniteSet(gone) /\ Numbers(lost, S) /\ lostAll = Sum(lost, S)
  <2>1. gone \subseteq UNION {{d} \X DOMAIN chunksOf[d] : d \in S}
    BY DEF ChunkPlaces
  <2> HIDE DEF S, chunksOf
  <2> QED
    BY <1>1, <1>2, <2>1, GoneIsLost
<1>6. ASSUME NEW d \in S
      PROVE  Z[d] \in Nat /\ lost[d] \in Nat /\ X[d] = Z[d] + lost[d]
  <2> DEFINE a == SizeOf(Kept(d, chunksOf[d], gone))
             b == Sum(Lengths(chunksOf[d]), GoneOf(d, chunksOf[d], gone))
             l == Len(GrownActive(c)[d])
  <2>1. chunksOf[d] \in Seq(ChunkType) /\ d \in Convs
    BY <1>1, <1>2
  <2>2. a \in Nat /\ b \in Nat /\ SizeOf(chunksOf[d]) = a + b
    BY <2>1, SizeOfKept
  <2>3. l \in Nat
    BY <1>3, <2>1
  <2>4. Z[d] = a + l /\ lost[d] = b /\ X[d] = SizeOf(chunksOf[d]) + l
    BY <2>1 DEF StoredWith, KeptOf
  <2> HIDE DEF a, b, l, lost, X, Z, chunksOf
  <2> QED
    BY <2>2, <2>3, <2>4
<1>7. X[c] = Y[c] + 1
  <2>1. PICK v : GrownInOrder(c, v)
    BY GrownIs
  <2>2. SizeOf(GrownOff(c).chunks) + Len(GrownOff(c).messages) = StoredOf(c) + 1
    BY <2>1 DEF GrownInOrder
  <2> QED
    BY <1>2, <2>2
<1>8. \A d \in rest : X[d] = Y[d]
  BY <1>1, <1>2 DEF StoredOf
<1>9. S = rest \cup {c} /\ rest \cap {c} = {} /\ IsFiniteSet(rest) /\ IsFiniteSet({c})
  <2>1. IsFiniteSet(rest)
    BY <1>1, FS_Subset
  <2> QED
    BY <1>1, <2>1, FS_Singleton
<1> HIDE DEF S, chunksOf, lost, X, Y, Z, lostAll, rest
<1>10. Numbers(Z, S) /\ Numbers(Y, S) /\ Numbers(X, S)
  BY <1>1, <1>4, <1>6 DEF Numbers
<1>11. Sum(X, S) = Sum(Z, S) + Sum(lost, S)
  BY <1>5, <1>6, <1>10, SumAdds
<1>12. Numbers(X, rest) /\ Numbers(X, {c}) /\ Numbers(Y, rest) /\ Numbers(Y, {c})
  BY <1>9, <1>10 DEF Numbers
<1>13. Sum(X, S) = Sum(X, rest) + Sum(X, {c}) /\ Sum(Y, S) = Sum(Y, rest) + Sum(Y, {c})
  <2>1. Sum(X, rest \cup {c}) = Sum(X, rest) + Sum(X, {c})
    BY <1>9, <1>12, SumOfUnion
  <2>2. Sum(Y, rest \cup {c}) = Sum(Y, rest) + Sum(Y, {c})
    BY <1>9, <1>12, SumOfUnion
  <2> QED
    BY <1>9, <2>1, <2>2
<1>14. Sum(X, rest) = Sum(Y, rest)
  BY <1>8, SumSame
<1>15. Sum(X, {c}) = X[c] /\ Sum(Y, {c}) = Y[c] /\ Y[c] \in Nat
  BY <1>12, SumOfOne DEF Numbers
<1>16. Sum(Y, rest) \in Nat /\ Sum(Z, S) \in Nat /\ Sum(lost, S) \in Nat /\ Sum(Y, S) \in Nat
  BY <1>5, <1>10, <1>12, SumType
<1>17. Sum(Z, S) + lostAll = Sum(Y, S) + 1
  BY <1>5, <1>7, <1>11, <1>13, <1>14, <1>15, <1>16
<1> QED
  BY <1>5, <1>16, <1>17 DEF S, chunksOf, Y, Z, lostAll

\* What evictOldestHistory takes away after a message of c.
EvictedAfter(c, gone) ==
  gone \in IF TooMany(messageCount[ShardOf[c]] + 1) THEN Evictions(ShardOf[c], ChunksWith(c)) ELSE {{}}

LEMMA ChunkPlacesAre ==
  ASSUME NEW s, NEW chunksOf \in [Convs -> Seq(ChunkType)]
  PROVE  /\ IsFiniteSet(ChunkPlaces(chunksOf, s))
         /\ \A g \in ChunkPlaces(chunksOf, s) :
              \E d \in InShard(s) : \E i \in DOMAIN chunksOf[d] : g = <<d, i>>
         /\ \A d \in InShard(s) : \A i \in DOMAIN chunksOf[d] : <<d, i>> \in ChunkPlaces(chunksOf, s)
<1> DEFINE P == [d \in InShard(s) |-> DOMAIN chunksOf[d]]
<1>1. IsFiniteSet(InShard(s)) /\ InShard(s) \in SUBSET Convs
  BY ConvsFinite
<1>2. ASSUME NEW d \in InShard(s) PROVE IsFiniteSet(P[d])
  <2>1. chunksOf[d] \in Seq(ChunkType) /\ P[d] = DOMAIN chunksOf[d]
    BY <1>1
  <2>2. P[d] = 1..Len(chunksOf[d]) /\ Len(chunksOf[d]) \in Nat
    BY <2>1, LenProperties
  <2> QED
    BY <2>2, FirstNumbers
<1>3. ChunkPlaces(chunksOf, s) = PairsOf(P, InShard(s))
  BY DEF ChunkPlaces, PairsOf
<1>4. IsFiniteSet(PairsOf(P, InShard(s)))
  <2> HIDE DEF P
  <2> QED
    BY <1>1, <1>2, PairsFinite
<1>5. IsFiniteSet(ChunkPlaces(chunksOf, s))
  BY <1>3, <1>4
<1>6. ASSUME NEW g \in ChunkPlaces(chunksOf, s)
      PROVE  \E d \in InShard(s) : \E i \in DOMAIN chunksOf[d] : g = <<d, i>>
  <2>1. PICK d \in InShard(s) : g \in {d} \X DOMAIN chunksOf[d]
    BY DEF ChunkPlaces
  <2>2. PICK i \in DOMAIN chunksOf[d] : g = <<d, i>>
    BY <2>1
  <2> QED
    BY <2>2
<1>7. ASSUME NEW d \in InShard(s), NEW i \in DOMAIN chunksOf[d]
      PROVE  <<d, i>> \in ChunkPlaces(chunksOf, s)
  <2>1. <<d, i>> \in {d} \X DOMAIN chunksOf[d]
    OBVIOUS
  <2> QED
    BY <2>1 DEF ChunkPlaces
<1> QED
  BY <1>5, <1>6, <1>7

LEMMA CountCoversGrown ==
  ASSUME ShardIInv, NEW c \in Convs, messageTotal[c] < MaxAdded,
         messageCount[ShardOf[c]] + 1 <= MaxAdded, NEW gone, EvictedAfter(c, gone)
  PROVE  LET s == ShardOf[c]
             m == (messageCount[s] + 1) - SizeOfGone(ChunksWith(c), gone)
         IN  /\ gone \subseteq ChunkPlaces(ChunksWith(c), s)
             /\ m \in 0..MaxAdded
             /\ Sum(StoredWith(c, gone), InShard(s)) <= m
             /\ m <= MaxMessages \/ \A d \in InShard(s) : KeptOf(c, gone)[d] = <<>>
<1> DEFINE s == ShardOf[c]
           n == messageCount[s] + 1
           chunksOf == ChunksWith(c)
           lost == SizeOfGone(chunksOf, gone)
           all == ChunkPlaces(chunksOf, s)
           k == Cardinality(all)
           Y == [d \in Convs |-> StoredOf(d)]
           Emptied == \A d \in InShard(s) : KeptOf(c, gone)[d] = <<>>
<1>1. s \in Shards /\ messageCount[s] \in Nat /\ MaxMessages \in Nat /\ n \in Nat /\ MaxAdded \in Nat
  <2>1. s \in Shards
    BY DEF Shards, Convs, Range
  <2>2. messageCount[s] \in 0..MaxAdded
    BY <2>1 DEF ShardIInv, ShardShape
  <2> QED
    BY <2>1, <2>2, ShardAssumption
<1>2. /\ Sum(Y, InShard(s)) <= messageCount[s]
      /\ messageCount[s] <= MaxMessages \/ \A d \in InShard(s) : historyChunks[d] = <<>>
  BY <1>1 DEF ShardIInv, CountCoversStored, InShard
<1>3. /\ chunksOf \in [Convs -> Seq(ChunkType)]
      /\ \A d \in Convs \ {c} : chunksOf[d] = historyChunks[d]
      /\ \A d \in Convs : WellChunked(chunksOf[d])
      /\ chunksOf[c] = GrownOff(c).chunks
  BY ChunksWithAre
<1>4. IsFiniteSet(all) /\ k \in Nat /\ InShard(s) \in SUBSET Convs
  BY <1>3, ChunkPlacesAre, FS_CardinalityType, ConvsFinite
<1>5. /\ n <= MaxMessages => gone = {}
      /\ ~(n <= MaxMessages) => gone \in SUBSET all /\ Cardinality(gone) = (k + 4) \div 5
      /\ gone \in SUBSET all
  <2>1. CASE n <= MaxMessages
    <3>1. ~TooMany(n)
      BY <1>1, <2>1 DEF TooMany
    <3> QED
      BY <2>1, <3>1 DEF EvictedAfter
  <2>2. CASE ~(n <= MaxMessages)
    <3>1. TooMany(n)
      BY <1>1, <2>2 DEF TooMany
    <3>2. gone \in Evictions(s, chunksOf)
      BY <3>1 DEF EvictedAfter
    <3>3. gone \in SUBSET all /\ Cardinality(gone) = (k + 4) \div 5
      BY <3>2 DEF Evictions, ChunkPlaces, InShard
    <3> QED
      BY <2>2, <3>3
  <2> QED
    BY <2>1, <2>2
<1>6. /\ IsFiniteSet(gone) /\ lost \in Nat
      /\ Sum(StoredWith(c, gone), InShard(s)) \in Nat /\ Sum(Y, InShard(s)) \in Nat
      /\ Sum(StoredWith(c, gone), InShard(s)) + lost = Sum(Y, InShard(s)) + 1
  <2>1. gone \subseteq ChunkPlaces(ChunksWith(c), ShardOf[c])
    BY <1>5
  <2> QED
    BY <2>1, StoredAdds
<1>7. gone # {} => 1 <= lost
  <2> SUFFICES ASSUME gone # {} PROVE 1 <= lost
    OBVIOUS
  <2>1. \A g \in gone : \E d \in Convs : \E i \in DOMAIN chunksOf[d] : g = <<d, i>>
    BY <1>3, <1>4, <1>5, ChunkPlacesAre
  <2> QED
    BY <1>3, <1>6, <2>1, GoneHadMessages
<1>8. all \in SUBSET gone => Emptied
  <2> SUFFICES ASSUME all \in SUBSET gone, NEW d \in InShard(s) PROVE KeptOf(c, gone)[d] = <<>>
    OBVIOUS
  <2>1. d \in Convs /\ chunksOf[d] \in Seq(ChunkType)
    BY <1>3, <1>4
  <2>2. \A i \in DOMAIN chunksOf[d] : <<d, i>> \in gone
    BY <1>3, ChunkPlacesAre
  <2>3. Kept(d, chunksOf[d], gone) = <<>>
    BY <2>1, <2>2, KeptNone
  <2> QED
    BY <2>1, <2>3 DEF KeptOf
<1>9. (\A d \in InShard(s) : historyChunks[d] = <<>>) => all \in SUBSET {<<c, 1>>}
  <2> SUFFICES ASSUME \A d \in InShard(s) : historyChunks[d] = <<>>, NEW g \in all PROVE g = <<c, 1>>
    OBVIOUS
  <2>1. PICK d \in InShard(s) : \E i \in DOMAIN chunksOf[d] : g = <<d, i>>
    BY <1>3, ChunkPlacesAre
  <2>2. PICK i \in DOMAIN chunksOf[d] : g = <<d, i>>
    BY <2>1
  <2>3. chunksOf[d] \in Seq(ChunkType) /\ i \in 1..Len(chunksOf[d])
    BY <1>3, <1>4, <2>2, LenProperties
  <2>4. d = c
    <3> SUFFICES ASSUME d # c PROVE FALSE
      OBVIOUS
    <3>1. chunksOf[d] = <<>>
      BY <1>3, <1>4
    <3>2. Len(chunksOf[d]) = 0
      BY <3>1, EmptySeq
    <3> QED
      BY <2>3, <3>2
  <2>5. Len(chunksOf[c]) <= 1
    <3>1. PICK v : GrownInOrder(c, v)
      BY GrownIs
    <3>2. historyChunks[c] = <<>>
      BY <2>4
    <3> QED
      BY <1>3, <3>1, <3>2 DEF GrownInOrder
  <2>6. Len(chunksOf[c]) \in Nat
    BY <2>3, <2>4, LenProperties
  <2>7. i = 1
    BY <2>3, <2>4, <2>5, <2>6
  <2> QED
    BY <2>2, <2>4, <2>7
<1>10. all \in SUBSET {<<c, 1>>} => k <= 1
  <2> SUFFICES ASSUME all \in SUBSET {<<c, 1>>} PROVE k <= 1
    OBVIOUS
  <2>1. IsFiniteSet({<<c, 1>>}) /\ Cardinality({<<c, 1>>}) = 1
    BY FS_Singleton
  <2> QED
    BY <2>1, FS_Subset
<1>11. /\ k = 0 => all = {}
       /\ Cardinality(gone) = 0 <=> gone = {}
       /\ Cardinality(gone) = k => gone = all \/ ~(gone \in SUBSET all)
  <2>1. k = 0 => all = {}
    BY <1>4, FS_EmptySet
  <2>2. Cardinality(gone) = 0 <=> gone = {}
    BY <1>6, FS_EmptySet
  <2>3. Cardinality(gone) = k => gone = all \/ ~(gone \in SUBSET all)
    BY <1>4, FS_Subset
  <2> QED
    BY <2>1, <2>2, <2>3
<1> DEFINE allIsSmall == all \in SUBSET {<<c, 1>>}
           wereEmpty == \A d \in InShard(s) : historyChunks[d] = <<>>
           allGone == all \in SUBSET gone
           someGone == gone # {}
<1>12. ~(n <= MaxMessages) => allGone \/ (someGone /\ (wereEmpty => allGone))
  <2> SUFFICES ASSUME ~(n <= MaxMessages) PROVE allGone \/ (someGone /\ (wereEmpty => allGone))
    OBVIOUS
  <2>1. Cardinality(gone) = (k + 4) \div 5 /\ gone \in SUBSET all
    BY <1>5
  <2>2. CASE k = 0
    BY <1>11, <2>2
  <2>3. CASE k # 0
    <3>1. (k + 4) \div 5 >= 1
      BY <1>4, <2>3
    <3>2. someGone
      BY <1>11, <2>1, <3>1
    <3>3. wereEmpty => allGone
      <4> SUFFICES ASSUME wereEmpty PROVE allGone
        OBVIOUS
      <4>1. k <= 1
        BY <1>9, <1>10
      <4>2. k = 1
        BY <1>4, <2>3, <4>1
      <4>3. Cardinality(gone) = k
        BY <2>1, <4>2
      <4> QED
        BY <1>11, <2>1, <4>3
    <3> QED
      BY <3>2, <3>3
  <2> QED
    BY <2>2, <2>3
<1> DEFINE m == n - lost
           stays == Sum(StoredWith(c, gone), InShard(s))
           were == Sum(Y, InShard(s))
           count == messageCount[s]
<1>13. n <= MaxAdded /\ n = count + 1 /\ were <= count /\ stays + lost = were + 1
  BY <1>2, <1>6
<1>14. /\ n \in Nat /\ count \in Nat /\ lost \in Nat /\ stays \in Nat /\ were \in Nat
       /\ MaxAdded \in Nat /\ MaxMessages \in Nat
  BY <1>1, <1>6
<1>15. count <= MaxMessages \/ wereEmpty
  BY <1>2
<1>16. someGone => 1 <= lost
  BY <1>7
<1>17. allGone => Emptied
  BY <1>8
<1>18. gone \in SUBSET all
  BY <1>5
<1>25. m = (messageCount[s] + 1) - SizeOfGone(ChunksWith(c), gone)
  BY <1>14
<1> HIDE DEF allGone, someGone, wereEmpty, Emptied, n, lost, stays, were, count
<1>19. m \in 0..MaxAdded /\ stays <= m
  BY <1>13, <1>14
<1>20. m <= MaxMessages \/ Emptied
  <2>1. CASE n <= MaxMessages
    BY <1>14, <2>1
  <2>2. CASE ~(n <= MaxMessages) /\ ~allGone
    <3>1. someGone /\ ~wereEmpty
      BY <1>12, <2>2
    <3>2. count <= MaxMessages /\ 1 <= lost
      BY <1>15, <1>16, <3>1
    <3> QED
      BY <1>13, <1>14, <3>2
  <2> QED
    BY <1>17, <2>1, <2>2
<1>21. gone \subseteq ChunkPlaces(ChunksWith(c), s)
  BY <1>18
<1>22. Sum(StoredWith(c, gone), InShard(s)) <= m
  BY <1>19 DEF stays
<1>23. m <= MaxMessages \/ \A d \in InShard(s) : KeptOf(c, gone)[d] = <<>>
  BY <1>20 DEF Emptied
<1>24. m \in 0..MaxAdded
  BY <1>19
<1> HIDE DEF m
<1> QED
  BY <1>21, <1>22, <1>23, <1>24, <1>25

\* A shard whose conversations and count stay covers them as before.
LEMMA OtherShardsStay ==
  ASSUME ShardIInv, NEW s \in Shards, NEW f, \A d \in InShard(s) : f[d] = StoredOf(d),
         NEW chunksOf, \A d \in InShard(s) : chunksOf[d] = historyChunks[d]
  PROVE  /\ Sum(f, InShard(s)) <= messageCount[s]
         /\ messageCount[s] <= MaxMessages \/ \A d \in InShard(s) : chunksOf[d] = <<>>
<1> DEFINE Y == [d \in Convs |-> StoredOf(d)]
           S == InShard(s)
<1>1. \A d \in S : Y[d] = StoredOf(d)
  BY DEF InShard
<1>2. /\ Sum(Y, S) <= messageCount[s]
      /\ messageCount[s] <= MaxMessages \/ \A d \in S : historyChunks[d] = <<>>
  BY DEF ShardIInv, CountCoversStored, InShard
<1> HIDE DEF Y, S
<1>3. Sum(f, S) = Sum(Y, S)
  <2>1. \A d \in S : f[d] = Y[d]
    BY <1>1 DEF S
  <2> QED
    BY <2>1, SumSame
<1> QED
  BY <1>2, <1>3 DEF S

LEMMA AddStep ==
  ASSUME ShardIInv, NEW c \in Convs, AddMessage(c)
  PROVE  ShardIInv'
<1> DEFINE s == ShardOf[c]
           n == messageCount[s] + 1
           chunksOf == ChunksWith(c)
<1>1. /\ messageTotal[c] < MaxAdded /\ n <= MaxAdded
      /\ activeMessages' = GrownActive(c)
      /\ messageTotal' = [messageTotal EXCEPT ![c] = @ + 1]
      /\ stored' = stored
      /\ \E gone : /\ EvictedAfter(c, gone)
                   /\ historyChunks' = KeptOf(c, gone)
                   /\ messageCount' = [messageCount EXCEPT ![s] = n - SizeOfGone(chunksOf, gone)]
                   /\ evicted' = evicted \cup {g[1] : g \in gone}
  BY DEF AddMessage, GrownActive, GrownOff, Grown, ChunksWith, EvictedAfter, KeptOf
<1>2. PICK gone : /\ EvictedAfter(c, gone)
                  /\ historyChunks' = KeptOf(c, gone)
                  /\ messageCount' = [messageCount EXCEPT ![s] = n - SizeOfGone(chunksOf, gone)]
                  /\ evicted' = evicted \cup {g[1] : g \in gone}
  BY <1>1
<1> DEFINE m == n - SizeOfGone(chunksOf, gone)
<1>3. /\ gone \subseteq ChunkPlaces(chunksOf, s)
      /\ m \in 0..MaxAdded
      /\ Sum(StoredWith(c, gone), InShard(s)) <= m
      /\ m <= MaxMessages \/ \A d \in InShard(s) : KeptOf(c, gone)[d] = <<>>
  <2>1. s \in Shards
    BY DEF Shards, Convs, Range
  <2>2. messageCount[s] \in Nat
    BY <2>1, ShardAssumption DEF ShardIInv, ShardShape
  <2>3. EvictedAfter(c, gone) /\ messageCount[ShardOf[c]] + 1 <= MaxAdded
    BY <1>1, <1>2
  <2> QED
    BY <1>1, <2>2, <2>3, CountCoversGrown
<1>4. PICK v : GrownInOrder(c, v)
  BY <1>1, GrownIs
<1>5. /\ chunksOf \in [Convs -> Seq(ChunkType)] /\ GrownActive(c) \in [Convs -> Seq(1..MaxAdded)]
      /\ chunksOf[c] = GrownOff(c).chunks /\ GrownActive(c)[c] = GrownOff(c).messages
      /\ \A d \in Convs \ {c} : /\ chunksOf[d] = historyChunks[d]
                                /\ GrownActive(c)[d] = activeMessages[d]
  BY <1>1, ChunksWithAre
<1>6. \A g \in gone : \E d \in InShard(s) : \E i \in DOMAIN chunksOf[d] : g = <<d, i>>
  BY <1>3, <1>5, ChunkPlacesAre
<1>7. ASSUME NEW d \in Convs
      PROVE  /\ historyChunks'[d] = Kept(d, chunksOf[d], gone)
             /\ historyChunks'[d] \in Seq(ChunkType)
             /\ (\A i \in DOMAIN chunksOf[d] : <<d, i>> \notin gone) => historyChunks'[d] = chunksOf[d]
  <2>1. historyChunks'[d] = Kept(d, chunksOf[d], gone)
    BY <1>2 DEF KeptOf
  <2>2. chunksOf[d] \in Seq(ChunkType)
    BY <1>5
  <2> QED
    BY <2>1, <2>2, KeptIs, KeptAll
<1>8. ShardShape'
  <2>1. stored' \subseteq Convs
    BY <1>1 DEF ShardIInv, ShardShape
  <2>2. evicted' \subseteq Convs
    <3>1. \A g \in gone : g[1] \in Convs
      BY <1>6 DEF InShard
    <3> QED
      BY <1>2, <3>1 DEF ShardIInv, ShardShape
  <2>3. historyChunks' \in [Convs -> Seq(ChunkType)]
    <3>1. historyChunks' = [d \in Convs |-> Kept(d, chunksOf[d], gone)]
      BY <1>2 DEF KeptOf
    <3> QED
      BY <1>7, <3>1
  <2>4. messageTotal' \in [Convs -> 0..MaxAdded]
    <3>1. messageTotal \in [Convs -> 0..MaxAdded] /\ messageTotal[c] + 1 \in 0..MaxAdded
      BY <1>1, ShardAssumption DEF ShardIInv, ShardShape
    <3> QED
      BY <1>1, <3>1
  <2>5. messageCount' \in [Shards -> 0..MaxAdded]
    <3>1. messageCount \in [Shards -> 0..MaxAdded]
      BY DEF ShardIInv, ShardShape
    <3> HIDE DEF m
    <3> QED
      BY <1>2, <1>3, <3>1 DEF m
  <2> QED
    BY <1>1, <1>5, <2>1, <2>2, <2>3, <2>4, <2>5 DEF ShardShape
<1>9. ASSUME NEW d \in Convs PROVE InItsOrder(d)'
  <2> DEFINE u == IF d = c THEN v ELSE Older(d)
             active == GrownActive(c)[d]
             total == messageTotal'[d]
  <2>1. /\ u \in Nat /\ total = u + Len(active) /\ Len(active) \in Nat
        /\ \A k \in 1..Len(active) : active[k] = u + k
        /\ WellChunked(chunksOf[d]) /\ Rising(chunksOf[d]) /\ UpTo(chunksOf[d], u)
        /\ d \notin evicted => Gapless(chunksOf[d], u)
    <3>1. CASE d = c
      <4>1. total = messageTotal[c] + 1
        BY <1>1, <3>1 DEF ShardIInv, ShardShape
      <4>2. Len(active) \in Nat
        BY <1>5, LenProperties
      <4>3. active = GrownOff(c).messages /\ chunksOf[d] = GrownOff(c).chunks /\ u = v
        BY <1>5, <3>1
      <4> HIDE DEF active, total, u, chunksOf
      <4> QED
        BY <1>4, <3>1, <4>1, <4>2, <4>3 DEF GrownInOrder
    <3>2. CASE d # c
      <4>1. total = messageTotal[d] /\ messageTotal[d] \in 0..MaxAdded
        BY <1>1, <3>2 DEF ShardIInv, ShardShape
      <4>2. Len(active) \in Nat
        BY <1>5, LenProperties
      <4>3. active = activeMessages[d] /\ chunksOf[d] = historyChunks[d] /\ u = Older(d)
        BY <1>5, <3>2
      <4>4. InItsOrder(d) /\ Older(d) = messageTotal[d] - Len(activeMessages[d])
        BY DEF ShardIInv, Older
      <4>5. total = u + Len(active)
        BY <4>1, <4>2, <4>3, <4>4, ShardAssumption
      <4> HIDE DEF active, total, u, chunksOf
      <4> QED
        BY <4>2, <4>3, <4>4, <4>5 DEF InItsOrder
    <3> QED
      BY <3>1, <3>2
  <2>2. activeMessages'[d] = active
    BY <1>1
  <2>3. /\ WellChunked(historyChunks'[d]) /\ Rising(historyChunks'[d]) /\ UpTo(historyChunks'[d], u)
    BY <1>7, <2>1, KeptInOrder
  <2>4. d \notin evicted' => Gapless(historyChunks'[d], u)
    <3> SUFFICES ASSUME d \notin evicted' PROVE Gapless(historyChunks'[d], u)
      OBVIOUS
    <3>1. \A i \in DOMAIN chunksOf[d] : <<d, i>> \notin gone
      BY <1>2
    <3>2. d \notin evicted
      BY <1>2
    <3> QED
      BY <1>7, <2>1, <3>1, <3>2
  <2> HIDE DEF u, active, total
  <2>5. Older(d)' = u
    <3>1. Older(d)' = total - Len(active)
      BY <2>2 DEF Older, total
    <3> QED
      BY <2>1, <3>1
  <2> QED
    BY <2>1, <2>2, <2>3, <2>4, <2>5 DEF InItsOrder
<1>10. StoredWith(c, gone) = [d \in Convs |-> StoredOf(d)']
  BY <1>1, <1>2 DEF StoredWith, StoredOf
<1>11. ASSUME NEW t \in Shards
       PROVE  /\ Sum(StoredWith(c, gone), InShard(t)) <= messageCount'[t]
              /\ messageCount'[t] <= MaxMessages \/ \A d \in InShard(t) : historyChunks'[d] = <<>>
  <2>1. messageCount \in [Shards -> 0..MaxAdded]
    BY DEF ShardIInv, ShardShape
  <2>2. CASE t = s
    <3>1. messageCount'[t] = m
      BY <1>2, <2>1, <2>2
    <3> HIDE DEF m
    <3> QED
      BY <1>2, <1>3, <2>2, <3>1
  <2>3. CASE t # s
    <3>1. messageCount'[t] = messageCount[t]
      BY <1>2, <2>1, <2>3
    <3>2. ASSUME NEW d \in InShard(t)
          PROVE  /\ historyChunks'[d] = historyChunks[d]
                 /\ StoredWith(c, gone)[d] = StoredOf(d)
      <4>1. d \in Convs /\ d # c /\ d \notin InShard(s)
        BY <2>3 DEF InShard
      <4>2. \A i \in DOMAIN chunksOf[d] : <<d, i>> \notin gone
        BY <1>6, <4>1
      <4>3. historyChunks'[d] = historyChunks[d]
        BY <1>5, <1>7, <4>1, <4>2
      <4>4. activeMessages'[d] = activeMessages[d]
        BY <1>1, <1>5, <4>1
      <4> QED
        BY <1>10, <4>1, <4>3, <4>4 DEF StoredOf
    <3>3. /\ Sum(StoredWith(c, gone), InShard(t)) <= messageCount[t]
          /\ messageCount[t] <= MaxMessages \/ \A d \in InShard(t) : historyChunks'[d] = <<>>
      BY <3>2, OtherShardsStay
    <3> QED
      BY <3>1, <3>3
  <2> QED
    BY <2>2, <2>3
<1>12. CountCoversStored'
  BY <1>10, <1>11 DEF CountCoversStored, InShard
<1> QED
  BY <1>8, <1>9, <1>12 DEF ShardIInv

-----------------------------------------------------------------------------
(* Deleting and evicting conversations                                     *)

LEMMA DeleteStep ==
  ASSUME ShardIInv, NEW S \in SUBSET stored, DeleteAll(S)
  PROVE  ShardIInv'
<1> DEFINE off(s) == {c \in S : ShardOf[c] = s}
           counted == [c \in Convs |-> CountedOff(c)]
           Y == [d \in Convs |-> StoredOf(d)]
           Z == [d \in Convs |-> StoredOf(d)']
<1>1. /\ stored' = stored \ S /\ evicted' = evicted \ S
      /\ activeMessages' = [c \in Convs |-> IF c \in S THEN <<>> ELSE activeMessages[c]]
      /\ historyChunks' = [c \in Convs |-> IF c \in S THEN <<>> ELSE historyChunks[c]]
      /\ messageTotal' = [c \in Convs |-> IF c \in S THEN 0 ELSE messageTotal[c]]
      /\ messageCount' = [s \in Shards |-> messageCount[s] - Sum(counted, off(s))]
  BY DEF DeleteAll
<1>2. /\ stored \subseteq Convs /\ evicted \subseteq Convs /\ S \subseteq Convs
      /\ activeMessages \in [Convs -> Seq(1..MaxAdded)]
      /\ historyChunks \in [Convs -> Seq(ChunkType)]
      /\ messageTotal \in [Convs -> 0..MaxAdded]
      /\ messageCount \in [Shards -> 0..MaxAdded]
  BY DEF ShardIInv, ShardShape
<1>3. MaxAdded \in Nat /\ MaxMessages \in Nat
  BY ShardAssumption
<1>4. ASSUME NEW d \in Convs
      PROVE  /\ Y[d] = StoredOf(d) /\ Y[d] \in Nat
             /\ counted[d] \in Nat /\ counted[d] <= Y[d]
             /\ d \in S => Z[d] = 0 /\ historyChunks'[d] = <<>>
             /\ d \notin S => Z[d] = Y[d] /\ historyChunks'[d] = historyChunks[d]
  <2>1. historyChunks[d] \in Seq(ChunkType) /\ activeMessages[d] \in Seq(1..MaxAdded)
    BY <1>2
  <2>2. SizeOf(historyChunks[d]) \in Nat /\ Len(activeMessages[d]) \in Nat
    BY <2>1, SizeType, LenProperties
  <2>3. StoredOf(d) = SizeOf(historyChunks[d]) + Len(activeMessages[d])
    BY DEF StoredOf
  <2>4. Y[d] = StoredOf(d) /\ Y[d] \in Nat /\ counted[d] \in Nat /\ counted[d] <= Y[d]
    BY <2>2, <2>3 DEF CountedOff
  <2>5. StoredOf(d)' = SizeOf(historyChunks'[d]) + Len(activeMessages'[d])
    BY DEF StoredOf
  <2>6. ASSUME d \in S PROVE Z[d] = 0 /\ historyChunks'[d] = <<>>
    <3>1. historyChunks'[d] = <<>> /\ activeMessages'[d] = <<>>
      BY <1>1, <2>6
    <3>2. SizeOf(historyChunks'[d]) = 0 /\ Len(activeMessages'[d]) = 0
      BY <3>1, SizeOfNone, EmptySeq
    <3>3. Z[d] = StoredOf(d)'
      OBVIOUS
    <3> HIDE DEF Z
    <3> QED
      BY <2>5, <3>1, <3>2, <3>3
  <2>7. ASSUME d \notin S PROVE Z[d] = Y[d] /\ historyChunks'[d] = historyChunks[d]
    <3>1. historyChunks'[d] = historyChunks[d] /\ activeMessages'[d] = activeMessages[d]
      BY <1>1, <2>7
    <3> QED
      BY <2>3, <2>5, <3>1
  <2> QED
    BY <2>4, <2>6, <2>7
<1>5. ASSUME NEW s \in Shards
      PROVE  /\ messageCount'[s] \in 0..MaxAdded
             /\ Sum(Z, InShard(s)) <= messageCount'[s]
             /\ messageCount'[s] <= MaxMessages \/ \A d \in InShard(s) : historyChunks'[d] = <<>>
  <2> DEFINE C == InShard(s)
             O == off(s)
             rest == C \ O
  <2>1. IsFiniteSet(C) /\ C \in SUBSET Convs /\ O \in SUBSET C
    BY <1>2, ConvsFinite DEF InShard
  <2>2. /\ Sum(Y, C) <= messageCount[s]
        /\ messageCount[s] <= MaxMessages \/ \A d \in C : historyChunks[d] = <<>>
    BY DEF ShardIInv, CountCoversStored, InShard
  <2>3. messageCount'[s] = messageCount[s] - Sum(counted, O)
    BY <1>1
  <2>4. messageCount[s] \in Nat /\ messageCount[s] <= MaxAdded
    BY <1>2, <1>3
  <2>5. C = rest \cup O /\ rest \cap O = {} /\ IsFiniteSet(rest) /\ IsFiniteSet(O)
    BY <2>1, FS_Subset
  <2>6. \A d \in O : Z[d] = 0
    BY <1>2, <1>4
  <2>7. \A d \in rest : Z[d] = Y[d]
    BY <1>4, <2>1 DEF InShard
  <2>8. \A d \in C : Y[d] \in Nat /\ counted[d] \in Nat /\ counted[d] <= Y[d]
    BY <1>4, <2>1
  <2>9. \A d \in C : historyChunks[d] = <<>> => historyChunks'[d] = <<>>
    BY <1>4, <2>1
  <2> HIDE DEF C, O, rest, Y, Z, counted, off
  <2>10. Numbers(Y, rest) /\ Numbers(Y, O) /\ Numbers(Z, rest) /\ Numbers(Z, O)
    BY <2>5, <2>6, <2>7, <2>8 DEF Numbers
  <2>11. Sum(Y, C) = Sum(Y, rest) + Sum(Y, O) /\ Sum(Z, C) = Sum(Z, rest) + Sum(Z, O)
    <3>1. Sum(Y, rest \cup O) = Sum(Y, rest) + Sum(Y, O)
      BY <2>5, <2>10, SumOfUnion
    <3>2. Sum(Z, rest \cup O) = Sum(Z, rest) + Sum(Z, O)
      BY <2>5, <2>10, SumOfUnion
    <3> QED
      BY <2>5, <3>1, <3>2
  <2>12. Sum(Z, rest) = Sum(Y, rest) /\ Sum(Z, O) = 0
    BY <2>6, <2>7, SumSame, SumOfNone
  <2>13. Sum(counted, O) \in Nat /\ Sum(counted, O) <= Sum(Y, O)
    <3>1. \A d \in O : counted[d] \in Nat /\ counted[d] <= Y[d]
      BY <2>5, <2>8
    <3> QED
      BY <2>10, <3>1, SumGrows
  <2>14. Sum(Y, rest) \in Nat /\ Sum(Y, O) \in Nat
    BY <2>10, SumType
  <2>15. /\ messageCount'[s] \in 0..MaxAdded /\ Sum(Z, C) <= messageCount'[s]
         /\ messageCount[s] <= MaxMessages => messageCount'[s] <= MaxMessages
    BY <1>3, <2>2, <2>3, <2>4, <2>11, <2>12, <2>13, <2>14
  <2> QED
    BY <2>2, <2>9, <2>15 DEF C
<1>6. ShardShape'
  <2>1. <<>> \in Seq(1..MaxAdded) /\ <<>> \in Seq(ChunkType) /\ 0 \in 0..MaxAdded
    BY <1>3, EmptySeq
  <2>2. messageCount' \in [Shards -> 0..MaxAdded]
    BY <1>1, <1>5
  <2> QED
    BY <1>1, <1>2, <2>1, <2>2 DEF ShardShape
<1>7. ASSUME NEW d \in Convs PROVE InItsOrder(d)'
  <2>1. CASE d \in S
    <3>1. activeMessages'[d] = <<>> /\ historyChunks'[d] = <<>> /\ messageTotal'[d] = 0
      BY <1>1, <2>1
    <3>2. Len(<<>>) = 0 /\ <<>> \in Seq(ChunkType)
      BY EmptySeq
    <3>3. Older(d)' = 0
      <4>1. Len(activeMessages'[d]) = 0 /\ Older(d)' = messageTotal'[d] - Len(activeMessages'[d])
        BY <3>1, <3>2 DEF Older
      <4> QED
        BY <3>1, <4>1
    <3> QED
      BY <3>1, <3>2, <3>3 DEF InItsOrder, WellChunked, Rising, UpTo, Gapless, EndOf
  <2>2. CASE d \notin S
    <3>1. /\ activeMessages'[d] = activeMessages[d] /\ historyChunks'[d] = historyChunks[d]
          /\ messageTotal'[d] = messageTotal[d]
      BY <1>1, <2>2
    <3>2. InItsOrder(d) /\ (d \notin evicted' => d \notin evicted)
      BY <1>1, <2>2 DEF ShardIInv
    <3>3. Older(d)' = Older(d)
      BY <3>1 DEF Older
    <3> QED
      BY <3>1, <3>2, <3>3 DEF InItsOrder
  <2> QED
    BY <2>1, <2>2
<1>8. CountCoversStored'
  BY <1>5 DEF CountCoversStored, InShard
<1> QED
  BY <1>6, <1>7, <1>8 DEF ShardIInv

-----------------------------------------------------------------------------
(* Steps that leave every conversation's messages alone keep the invariant. *)

LEMMA ShardStays ==
  ASSUME ShardIInv, stored' \in SUBSET Convs,
         UNCHANGED <<activeMessages, historyChunks, messageTotal, messageCount, evicted>>
  PROVE  ShardIInv'
<1>1. ShardShape'
  BY DEF ShardIInv, ShardShape
<1>2. ASSUME NEW c \in Convs PROVE InItsOrder(c)'
  <2>1. InItsOrder(c)
    BY DEF ShardIInv
  <2> QED
    BY <2>1 DEF InItsOrder, Older
<1>3. CountCoversStored'
  BY DEF ShardIInv, CountCoversStored, StoredOf
<1> QED
  BY <1>1, <1>2, <1>3 DEF ShardIInv

\* ShardInv, of ShardSpec, for any conversations and limits: the count of a
\* shard covers what it stores and triggers eviction in time, a conversation
\* is its messages in their order, and its pages are its slices.
THEOREM ShardInvariance == ShardSpec => []ShardInv
<1>1. ShardInit => ShardIInv
  BY ShardInitial
<1>2. ShardIInv /\ [ShardNext]_shardVars => ShardIInv'
  <2> SUFFICES ASSUME ShardIInv, [ShardNext]_shardVars PROVE ShardIInv'
    OBVIOUS
  <2>0. stored \in SUBSET Convs
    BY DEF ShardIInv, ShardShape
  <2>1. ASSUME NEW c \in Convs, GetOrCreate(c) PROVE ShardIInv'
    BY <2>0, <2>1, ShardStays DEF GetOrCreate
  <2>2. ASSUME NEW c \in Convs, AddMessage(c) PROVE ShardIInv'
    BY <2>2, AddStep
  <2>3. CASE EvictInactive
    BY <2>3, DeleteStep DEF EvictInactive
  <2>4. CASE ShardBoundReached
    BY <2>0, <2>4, ShardStays DEF ShardBoundReached, shardVars
  <2>5. CASE UNCHANGED shardVars
    BY <2>0, <2>5, ShardStays DEF shardVars
  <2> QED
    BY <2>1, <2>2, <2>3, <2>4, <2>5 DEF ShardNext
<1>3. ShardIInv => ShardInv
  BY ShardImplied
<1> QED
  BY <1>1, <1>2, <1>3, PTL DEF ShardSpec

-----------------------------------------------------------------------------
(***************************************************************************)
(* Proofs about the queue of interventions.  A heap holds a set of         *)
(* requests, each once, and no parent came after its child.                *)
(***************************************************************************)

Places(heap) == 1..Len(heap)

Holds(heap, S) ==
  /\ heap \in Seq(QueueRequests)
  /\ \A i, j \in Places(heap) : heap[i] = heap[j] => i = j
  /\ \A r : r \in S <=> \E i \in Places(heap) : heap[i] = r

Heaped(at, heap) ==
  \A i \in Places(heap) : i > 1 => at[heap[i \div 2]] <= at[heap[i]]

LEMMA HeldAre ==
  ASSUME NEW heap, NEW S, Holds(heap, S)
  PROVE  /\ Len(heap) \in Nat /\ DOMAIN heap = Places(heap)
         /\ \A i \in Places(heap) : heap[i] \in QueueRequests /\ heap[i] \in S
         /\ S \in SUBSET QueueRequests
<1>1. heap \in Seq(QueueRequests)
  BY DEF Holds
<1>2. Len(heap) \in Nat /\ DOMAIN heap = Places(heap) /\ \A i \in Places(heap) : heap[i] \in QueueRequests
  BY <1>1, LenProperties, ElementOfSeq DEF Places
<1> QED
  BY <1>2 DEF Holds

LEMMA HalfIs ==
  ASSUME NEW i \in Nat, i > 1
  PROVE  /\ i \div 2 \in Nat /\ 1 <= i \div 2 /\ i \div 2 < i
         /\ i = 2 * (i \div 2) \/ i = 2 * (i \div 2) + 1
OBVIOUS

\* A swap keeps what is held.
LEMMA Swapped ==
  ASSUME NEW heap, NEW S, Holds(heap, S), NEW i \in Places(heap), NEW j \in Places(heap), i # j
  PROVE  LET g == Swap(heap, i, j) IN
         /\ Holds(g, S) /\ Len(g) = Len(heap)
         /\ g[i] = heap[j] /\ g[j] = heap[i]
         /\ \A k \in Places(heap) : k # i /\ k # j => g[k] = heap[k]
<1> DEFINE g == Swap(heap, i, j)
           P == Places(heap)
<1>1. /\ heap \in Seq(QueueRequests) /\ Len(heap) \in Nat /\ P = 1..Len(heap)
      /\ heap \in [P -> QueueRequests]
  BY HeldAre DEF Holds, Places
<1>2. g \in [P -> QueueRequests]
  BY <1>1 DEF Swap
<1>3. g[i] = heap[j] /\ g[j] = heap[i] /\ \A k \in P : k # i /\ k # j => g[k] = heap[k]
  BY <1>1 DEF Swap
<1> HIDE DEF g
<1>4. g \in Seq(QueueRequests) /\ Len(g) = Len(heap)
  BY <1>1, <1>2
<1>5. Places(g) = P
  BY <1>4 DEF Places
<1> HIDE DEF P
<1>6. /\ \A k, l \in P : heap[k] = heap[l] => k = l
      /\ \A r : r \in S <=> \E k \in P : heap[k] = r
  BY DEF Holds, P
<1>7. i \in P /\ j \in P
  BY DEF P
<1>8. ASSUME NEW k \in P, NEW l \in P, g[k] = g[l] PROVE k = l
  BY <1>3, <1>6, <1>7, <1>8
<1>9. ASSUME NEW r PROVE (\E k \in P : g[k] = r) <=> (\E k \in P : heap[k] = r)
  <2>1. ASSUME NEW k \in P PROVE \E l \in P : heap[l] = g[k]
    BY <1>3, <1>7
  <2>2. ASSUME NEW k \in P PROVE \E l \in P : g[l] = heap[k]
    BY <1>3, <1>7
  <2> QED
    BY <2>1, <2>2
<1>10. Holds(g, S)
  BY <1>4, <1>5, <1>6, <1>8, <1>9 DEF Holds
<1> QED
  BY <1>3, <1>4, <1>10 DEF g, P

-----------------------------------------------------------------------------
(* Up                                                                      *)

\* All is in order but perhaps the place j and its parent.
HeapedBut(at, heap, j) ==
  /\ \A i \in Places(heap) : i > 1 /\ i # j => at[heap[i \div 2]] <= at[heap[i]]
  /\ \A i \in Places(heap) : i > 1 /\ i \div 2 = j /\ j > 1 => at[heap[j \div 2]] <= at[heap[i]]

Rises(at, s, S, len) ==
  /\ s \in [heap : Seq(QueueRequests), i : Nat]
  /\ Holds(s.heap, S) /\ Len(s.heap) = len /\ s.i \in 1..len /\ HeapedBut(at, s.heap, s.i)

Risen(at, s) == s.i = 1 \/ ~Before(at, s.heap[s.i], s.heap[s.i \div 2])

LEMMA UpTurnIs ==
  ASSUME NEW at \in [QueueRequests -> Nat], NEW S, NEW len \in Nat, NEW s, Rises(at, s, S, len)
  PROVE  LET t == UpTurn(at, s) IN
         /\ Rises(at, t, S, len)
         /\ Risen(at, s) => t = s
         /\ ~Risen(at, s) => t.i < s.i
<1> DEFINE i == s.i
           h == s.heap
           p == i \div 2
           t == UpTurn(at, s)
           g == Swap(h, i, p)
<1>1. /\ s \in [heap : Seq(QueueRequests), i : Nat]
      /\ Holds(h, S) /\ Len(h) = len /\ i \in 1..len /\ HeapedBut(at, h, i)
  BY DEF Rises
<1>2. Risen(at, s) <=> ~(i > 1 /\ Before(at, h[i], h[p]))
  BY <1>1 DEF Risen
<1>3. CASE Risen(at, s)
  <2>1. t = s
    BY <1>2, <1>3 DEF UpTurn
  <2> QED
    BY <1>3, <2>1
<1>4. CASE ~Risen(at, s)
  <2>1. i > 1 /\ at[h[i]] < at[h[p]]
    BY <1>2, <1>4 DEF Before
  <2>2. t = [heap |-> g, i |-> p]
    BY <1>2, <1>4 DEF UpTurn
  <2>3. /\ i \in Nat /\ p \in Nat /\ 1 <= p /\ p < i /\ p \in Places(h) /\ i \in Places(h) /\ p # i
    <3>1. i \in Nat /\ i \in Places(h)
      BY <1>1 DEF Places
    <3>2. p \in Nat /\ 1 <= p /\ p < i
      BY <2>1, <3>1, HalfIs
    <3> QED
      BY <1>1, <3>1, <3>2 DEF Places
  <2>4. /\ Holds(g, S) /\ Len(g) = len /\ g[i] = h[p] /\ g[p] = h[i]
        /\ \A k \in Places(h) : k # i /\ k # p => g[k] = h[k]
    BY <1>1, <2>3, Swapped
  <2>5. /\ \A k \in Places(h) : at[h[k]] \in Nat
        /\ \A k \in Places(h) : k > 1 => k \in Nat /\ k \div 2 \in Places(h) /\ k \div 2 # k /\ k \div 2 \in Nat
    <3>1. \A k \in Places(h) : h[k] \in QueueRequests
      BY <1>1, HeldAre
    <3>2. ASSUME NEW k \in Places(h), k > 1
          PROVE  k \in Nat /\ k \div 2 \in Places(h) /\ k \div 2 # k /\ k \div 2 \in Nat
      <4>1. k \in Nat /\ k <= len
        BY <1>1 DEF Places
      <4>2. k \div 2 \in Nat /\ 1 <= k \div 2 /\ k \div 2 < k
        BY <3>2, <4>1, HalfIs
      <4> QED
        BY <1>1, <4>1, <4>2 DEF Places
    <3> QED
      BY <3>1, <3>2
  <2>6. Places(g) = Places(h)
    BY <1>1, <2>4 DEF Places
  <2>7. /\ \A k \in Places(h) : k > 1 /\ k # i => at[h[k \div 2]] <= at[h[k]]
        /\ \A k \in Places(h) : k > 1 /\ k \div 2 = i => at[h[p]] <= at[h[k]]
    BY <1>1, <2>1 DEF HeapedBut
  <2>8. p \in Places(h) /\ i \in Places(h)
    BY <2>3
  <2> DEFINE half(k) == k \div 2
  <2>9. half(i) = p
    OBVIOUS
  <2>10. /\ \A k \in Places(h) : k > 1 => k \in Nat /\ half(k) \in Places(h) /\ half(k) # k /\ half(k) \in Nat
         /\ \A k \in Places(h) : k > 1 /\ k # i => at[h[half(k)]] <= at[h[k]]
         /\ \A k \in Places(h) : k > 1 /\ half(k) = i => at[h[p]] <= at[h[k]]
    BY <2>5, <2>7
  <2> HIDE DEF g, h, p, i, half
  <2>11. ASSUME NEW k \in Places(h), k > 1, k # p PROVE at[g[half(k)]] <= at[g[k]]
    <3>1. CASE k = i
      BY <2>1, <2>3, <2>4, <2>5, <2>9, <3>1
    <3>2. CASE k # i /\ half(k) = i
      BY <2>4, <2>10, <2>11, <3>2
    <3>3. CASE k # i /\ half(k) = p
      <4>1. at[h[p]] <= at[h[k]]
        BY <2>10, <2>11, <3>3
      <4>2. g[half(k)] = h[i] /\ g[k] = h[k]
        BY <2>4, <2>11, <3>3
      <4>3. at[h[i]] \in Nat /\ at[h[p]] \in Nat /\ at[h[k]] \in Nat
        BY <2>5, <2>8
      <4> QED
        BY <2>1, <4>1, <4>2, <4>3
    <3>4. CASE k # i /\ half(k) # i /\ half(k) # p
      BY <2>4, <2>10, <2>11, <3>4
    <3> QED
      BY <3>1, <3>2, <3>3, <3>4
  <2>12. ASSUME NEW k \in Places(h), k > 1, half(k) = p, p > 1 PROVE at[g[half(p)]] <= at[g[k]]
    <3>1. /\ half(p) \in Places(h) /\ half(p) # p /\ half(p) < p
          /\ at[h[half(p)]] <= at[h[p]]
      <4>1. half(p) < p
        BY <2>3, <2>12, HalfIs DEF half
      <4> QED
        BY <2>3, <2>10, <2>12, <4>1
    <3>2. half(p) # i
      BY <2>3, <2>10, <2>12, <3>1
    <3>3. g[half(p)] = h[half(p)]
      BY <2>4, <3>1, <3>2
    <3>4. CASE k = i
      BY <2>4, <3>1, <3>3, <3>4
    <3>5. CASE k # i
      <4>1. k # p
        BY <2>10, <2>12
      <4>2. g[k] = h[k] /\ at[h[p]] <= at[h[k]]
        BY <2>4, <2>10, <2>12, <3>5, <4>1
      <4> QED
        BY <2>5, <2>8, <3>1, <3>3, <4>2
    <3> QED
      BY <3>4, <3>5
  <2>13. HeapedBut(at, g, p)
    BY <2>6, <2>11, <2>12 DEF HeapedBut, half
  <2>14. t.heap = g /\ t.i = p /\ t \in [heap : Seq(QueueRequests), i : Nat]
    BY <2>2, <2>3, <2>4 DEF Holds
  <2>15. p \in 1..len
    BY <1>1, <2>3 DEF Places
  <2>16. Rises(at, t, S, len)
    BY <2>4, <2>13, <2>14, <2>15 DEF Rises
  <2> QED
    BY <1>4, <2>3, <2>14, <2>16 DEF i
<1> QED
  BY <1>3, <1>4

LEMMA RisenIsHeaped ==
  ASSUME NEW at \in [QueueRequests -> Nat], NEW S, NEW len \in Nat, NEW s, Rises(at, s, S, len), Risen(at, s)
  PROVE  Heaped(at, s.heap)
<1> DEFINE h == s.heap
           i == s.i
<1>1. /\ Holds(h, S) /\ Len(h) = len /\ i \in 1..len /\ HeapedBut(at, h, i)
      /\ i = 1 \/ ~(at[h[i]] < at[h[i \div 2]])
  BY DEF Rises, Risen, Before
<1> HIDE DEF h, i
<1>2. ASSUME NEW k \in Places(h), k > 1 PROVE at[h[k \div 2]] <= at[h[k]]
  <2>1. CASE k # i
    BY <1>1, <1>2, <2>1 DEF HeapedBut
  <2>2. CASE k = i
    <3>1. k \in Nat /\ k <= len
      BY <1>1 DEF Places
    <3>2. k \div 2 \in Nat /\ 1 <= k \div 2 /\ k \div 2 < k
      BY <1>2, <3>1, HalfIs
    <3>3. k \div 2 \in Places(h)
      BY <1>1, <3>1, <3>2 DEF Places
    <3>4. h[k] \in QueueRequests /\ h[k \div 2] \in QueueRequests
      BY <1>1, <3>3, HeldAre
    <3>5. at[h[k]] \in Nat /\ at[h[k \div 2]] \in Nat
      BY <3>4
    <3>6. ~(at[h[k]] < at[h[k \div 2]])
      BY <1>1, <1>2, <2>2
    <3> QED
      BY <3>5, <3>6
  <2> QED
    BY <2>1, <2>2
<1> QED
  BY <1>2 DEF Heaped, h

LEMMA HeapifiedUp ==
  ASSUME NEW at \in [QueueRequests -> Nat], NEW S, NEW heap, Holds(heap, S),
         NEW i \in Places(heap), HeapedBut(at, heap, i)
  PROVE  LET g == HeapifyUp(at, heap, i) IN
         Holds(g, S) /\ Len(g) = Len(heap) /\ Heaped(at, g)
<1> DEFINE len == Len(heap)
           V == {s \in [heap : Seq(QueueRequests), i : Nat] : Rises(at, s, S, len)}
           base == [heap |-> heap, i |-> i]
           G == [s \in V |-> UpTurn(at, s)]
           turn == CHOOSE f : f = [n \in 0..i |-> IF n = 0 THEN base ELSE UpTurn(at, f[n - 1])]
<1>1. len \in Nat /\ i \in Nat /\ i \in 1..len
  BY HeldAre DEF Places
<1>2. base \in V /\ base.i = i
  <2>1. base \in [heap : Seq(QueueRequests), i : Nat] /\ base.heap = heap /\ base.i = i
    BY <1>1 DEF Holds
  <2> HIDE DEF base
  <2>2. Rises(at, base, S, len)
    BY <1>1, <2>1 DEF Rises
  <2> QED
    BY <2>1, <2>2
<1>3. \A s \in V : UpTurn(at, s) \in V
  <2> TAKE s \in V
  <2>1. Rises(at, UpTurn(at, s), S, len)
    BY <1>1, UpTurnIs
  <2> QED
    BY <2>1 DEF Rises
<1>4. HeapifyUp(at, heap, i) = turn[i].heap
  BY DEF HeapifyUp
<1>5. turn = [n \in 0..i |-> IF n = 0 THEN base ELSE UpTurn(at, turn[n - 1])]
  <2>1. PICK h \in [0..i -> V] : h[0] = base /\ \A k \in 1..i : h[k] = G[h[k - 1]]
    <3> HIDE DEF V, base
    <3>1. G \in [V -> V]
      BY <1>3
    <3>2. i \in Nat /\ base \in V
      BY <1>1, <1>2
    <3> HIDE DEF G
    <3>3. PICK h : Turns(h, i, V, base, G)
      BY <3>1, <3>2, LoopIsDefined
    <3> QED
      BY <3>3 DEF Turns
  <2>2. h = [n \in 0..i |-> IF n = 0 THEN base ELSE UpTurn(at, h[n - 1])]
    <3>1. ASSUME NEW n \in 0..i PROVE h[n] = IF n = 0 THEN base ELSE UpTurn(at, h[n - 1])
      <4>1. n # 0 => n \in 1..i /\ n - 1 \in 0..i
        BY <1>1
      <4>2. n # 0 => h[n - 1] \in V
        BY <4>1
      <4> HIDE DEF V, base
      <4> QED
        BY <2>1, <4>1, <4>2
    <3> HIDE DEF V, base, G
    <3> QED
      BY <3>1
  <2> HIDE DEF base
  <2> QED
    BY <2>2
<1> HIDE DEF turn, base
<1>6. 0 \in 0..i /\ turn[0] = base
  BY <1>1, <1>5
<1>7. ASSUME NEW n \in 1..i PROVE n \in 0..i /\ n - 1 \in 0..i /\ turn[n] = UpTurn(at, turn[n - 1])
  <2>1. n \in 0..i /\ n - 1 \in 0..i /\ n # 0
    BY <1>1
  <2> QED
    BY <1>5, <2>1
<1> DEFINE T == {n \in 0..i : turn[n] \in V /\ (Risen(at, turn[n]) \/ turn[n].i <= i - n)}
<1>8. 0 \in T
  BY <1>1, <1>2, <1>6
<1>9. ASSUME NEW n \in 1..i, n - 1 \in T PROVE n \in T
  <2> DEFINE s == turn[n - 1]
             t == turn[n]
  <2>1. t = UpTurn(at, s) /\ s \in V /\ (Risen(at, s) \/ s.i <= i - (n - 1))
    BY <1>7, <1>9
  <2>2. /\ Rises(at, t, S, len) /\ (Risen(at, s) => t = s) /\ (~Risen(at, s) => t.i < s.i)
        /\ s.i \in Nat /\ t \in V /\ t.i \in Nat
    <3>1. Rises(at, s, S, len)
      BY <2>1
    <3>2. /\ Rises(at, t, S, len) /\ (Risen(at, s) => t = s) /\ (~Risen(at, s) => t.i < s.i)
      BY <1>1, <2>1, <3>1, UpTurnIs
    <3> QED
      BY <1>3, <2>1, <3>1, <3>2 DEF Rises
  <2> HIDE DEF V
  <2>3. Risen(at, t) \/ t.i <= i - n
    <3> HIDE DEF s, t
    <3>1. CASE Risen(at, s)
      BY <2>2, <3>1
    <3>2. CASE ~Risen(at, s)
      BY <1>1, <2>1, <2>2, <3>2
    <3> QED
      BY <3>1, <3>2
  <2> QED
    BY <1>7, <2>2, <2>3
<1> HIDE DEF T
<1>10. i \in T
  <2>1. 0..i \subseteq T
    BY <1>1, <1>8, <1>9, InductionUpTo
  <2> QED
    BY <1>1, <2>1
<1>11. Rises(at, turn[i], S, len) /\ (Risen(at, turn[i]) \/ turn[i].i <= i - i)
  BY <1>10 DEF T
<1>12. Risen(at, turn[i])
  <2>1. turn[i].i \in 1..len
    BY <1>11 DEF Rises
  <2> QED
    BY <1>1, <1>11, <2>1
<1>13. Heaped(at, turn[i].heap)
  BY <1>1, <1>11, <1>12, RisenIsHeaped
<1> QED
  BY <1>4, <1>11, <1>13 DEF Rises

\* What is pushed is held with the rest.
LEMMA PushIs ==
  ASSUME NEW at \in [QueueRequests -> Nat], NEW S, NEW heap, Holds(heap, S), Heaped(at, heap),
         NEW r \in QueueRequests \ S
  PROVE  LET g == Push(at, heap, r) IN
         Holds(g, S \cup {r}) /\ Len(g) = Len(heap) + 1 /\ Heaped(at, g)
<1> DEFINE len == Len(heap)
           g == Append(heap, r)
           n == len + 1
<1>1. /\ heap \in Seq(QueueRequests) /\ len \in Nat /\ Places(heap) = 1..len
      /\ \A i \in 1..len : heap[i] \in S
      /\ \A i, j \in 1..len : heap[i] = heap[j] => i = j
      /\ \A q : q \in S <=> \E i \in 1..len : heap[i] = q
  BY HeldAre DEF Holds, Places
<1>2. /\ g \in Seq(QueueRequests) /\ Len(g) = n /\ g[n] = r
      /\ \A i \in 1..len : g[i] = heap[i]
  BY <1>1, AppendProperties
<1>3. Places(g) = 1..n /\ n \in Places(g) /\ \A i \in 1..n : i = n \/ i \in 1..len
  BY <1>1, <1>2 DEF Places
<1>4. Heaped(at, heap)
  OBVIOUS
<1> HIDE DEF g, n
<1>5. Holds(g, S \cup {r})
  <2>1. ASSUME NEW i \in 1..n, NEW j \in 1..n, g[i] = g[j] PROVE i = j
    <3>1. i = n \/ i \in 1..len
      BY <1>3
    <3>2. j = n \/ j \in 1..len
      BY <1>3
    <3> QED
      BY <1>1, <1>2, <2>1, <3>1, <3>2
  <2>2. ASSUME NEW q PROVE q \in S \cup {r} <=> \E i \in 1..n : g[i] = q
    <3>1. 1..len \subseteq 1..n /\ n \in 1..n
      BY <1>1, <1>3 DEF n
    <3>2. ASSUME q \in S PROVE \E i \in 1..n : g[i] = q
      BY <1>1, <1>2, <3>1, <3>2
    <3>3. ASSUME NEW i \in 1..n PROVE g[i] \in S \cup {r}
      BY <1>1, <1>2, <1>3
    <3> QED
      BY <1>2, <3>1, <3>2, <3>3
  <2> QED
    BY <1>2, <1>3, <2>1, <2>2 DEF Holds
<1>6. HeapedBut(at, g, n)
  <2>1. ASSUME NEW i \in Places(g), i > 1
        PROVE  i \in Nat /\ i <= n /\ i \div 2 \in Nat /\ i \div 2 >= 1 /\ i \div 2 < i /\ i \div 2 \in 1..len
    <3>1. i \in Nat /\ i <= n
      BY <1>1, <1>3 DEF n
    <3>2. i \div 2 \in Nat /\ 1 <= i \div 2 /\ i \div 2 < i
      BY <2>1, <3>1, HalfIs
    <3> QED
      BY <1>1, <3>1, <3>2 DEF n
  <2>2. ASSUME NEW i \in Places(g), i > 1, i # n PROVE at[g[i \div 2]] <= at[g[i]]
    <3>1. i \in 1..len /\ i \div 2 \in 1..len
      BY <1>3, <2>1, <2>2
    <3>2. at[heap[i \div 2]] <= at[heap[i]]
      BY <1>1, <1>4, <2>2, <3>1 DEF Heaped
    <3> QED
      BY <1>2, <3>1, <3>2
  <2>3. ASSUME NEW i \in Places(g), i > 1, i \div 2 = n PROVE FALSE
    BY <2>1, <2>3 DEF n
  <2> QED
    BY <2>2, <2>3 DEF HeapedBut
<1>7. Push(at, heap, r) = HeapifyUp(at, g, n)
  BY DEF Push, g, n
<1>8. LET u == HeapifyUp(at, g, n) IN Holds(u, S \cup {r}) /\ Len(u) = n /\ Heaped(at, u)
  BY <1>2, <1>3, <1>5, <1>6, HeapifiedUp
<1> QED
  BY <1>7, <1>8 DEF n

-----------------------------------------------------------------------------
(* Down                                                                    *)

\* All is in order but perhaps the children of the place j.
HeapedAbove(at, heap, j) ==
  /\ \A i \in Places(heap) : i > 1 /\ i \div 2 # j => at[heap[i \div 2]] <= at[heap[i]]
  /\ \A i \in Places(heap) : i > 1 /\ i \div 2 = j /\ j > 1 => at[heap[j \div 2]] <= at[heap[i]]

Sinks(at, s, S, len) ==
  /\ s \in [heap : Seq(QueueRequests), i : Nat]
  /\ Holds(s.heap, S) /\ Len(s.heap) = len /\ s.i \in 1..len /\ HeapedAbove(at, s.heap, s.i)

Sunk(at, s) == Largest(at, s.heap, s.i) = s.i

LEMMA LargestIs ==
  ASSUME NEW at \in [QueueRequests -> Nat], NEW S, NEW heap, Holds(heap, S), NEW i \in Places(heap)
  PROVE  LET l == Largest(at, heap, i) IN
         /\ l \in Places(heap) /\ l \in Nat /\ i \in Nat
         /\ l = i \/ (l > i /\ l \div 2 = i /\ at[heap[l]] < at[heap[i]])
         /\ \A k \in Places(heap) : k > 1 /\ k \div 2 = i => at[heap[l]] <= at[heap[k]]
<1> DEFINE len == Len(heap)
           left == IF 2 * i <= len /\ Before(at, heap[2 * i], heap[i]) THEN 2 * i ELSE i
           right == 2 * i + 1
           l == Largest(at, heap, i)
           a(k) == at[heap[k]]
<1>1. len \in Nat /\ i \in Nat /\ i \in 1..len /\ Places(heap) = 1..len
  BY HeldAre DEF Places
<1>2. \A k \in 1..len : a(k) \in Nat
  <2>1. \A k \in 1..len : heap[k] \in QueueRequests
    BY <1>1, HeldAre
  <2> QED
    BY <2>1
<1>3. l = IF right <= len /\ a(right) < a(left) THEN right ELSE left
  BY DEF Largest, Before
<1>4. left = IF 2 * i <= len /\ a(2 * i) < a(i) THEN 2 * i ELSE i
  BY DEF Before
<1> HIDE DEF left, right, l, a, len
<1>5. right = 2 * i + 1
  BY DEF right
<1>6. /\ left \in 1..len /\ left \in Nat
      /\ left = i \/ (left = 2 * i /\ a(left) < a(i))
      /\ a(left) <= a(i)
      /\ 2 * i <= len => a(left) <= a(2 * i)
  <2>1. CASE 2 * i <= len /\ a(2 * i) < a(i)
    <3>1. left = 2 * i /\ 2 * i \in 1..len
      BY <1>1, <1>4, <2>1
    <3> QED
      BY <1>1, <1>2, <2>1, <3>1
  <2>2. CASE ~(2 * i <= len /\ a(2 * i) < a(i))
    <3>1. left = i
      BY <1>4, <2>2
    <3>2. 2 * i <= len => 2 * i \in 1..len
      BY <1>1
    <3> QED
      BY <1>1, <1>2, <2>2, <3>1, <3>2
  <2> QED
    BY <2>1, <2>2
<1>7. /\ l \in 1..len /\ l \in Nat
      /\ l = i \/ ((l = 2 * i \/ l = 2 * i + 1) /\ a(l) < a(i))
      /\ a(l) <= a(left)
      /\ right <= len => a(l) <= a(right)
  <2>1. CASE right <= len /\ a(right) < a(left)
    <3>1. l = right /\ right \in 1..len
      BY <1>1, <1>3, <1>5, <2>1
    <3> QED
      BY <1>1, <1>2, <1>5, <1>6, <2>1, <3>1
  <2>2. CASE ~(right <= len /\ a(right) < a(left))
    <3>1. l = left
      BY <1>3, <2>2
    <3>2. right <= len => right \in 1..len
      BY <1>1, <1>5
    <3> QED
      BY <1>1, <1>2, <1>6, <2>2, <3>1, <3>2
  <2> QED
    BY <2>1, <2>2
<1>8. ASSUME NEW k \in 1..len, k > 1, k \div 2 = i PROVE a(l) <= a(k)
  <2>1. k = 2 * i \/ k = 2 * i + 1
    BY <1>1, <1>8, HalfIs
  <2>2. CASE k = 2 * i
    <3>1. a(left) <= a(k) /\ a(l) <= a(left)
      BY <1>1, <1>6, <1>7, <2>2
    <3>2. a(left) \in Nat /\ a(k) \in Nat /\ a(l) \in Nat
      BY <1>2, <1>6, <1>7
    <3> QED
      BY <3>1, <3>2
  <2>3. CASE k = 2 * i + 1
    BY <1>1, <1>5, <1>7, <2>3
  <2> QED
    BY <2>1, <2>2, <2>3
<1>9. l = i \/ (l > i /\ l \div 2 = i /\ a(l) < a(i))
  <2>1. l = 2 * i \/ l = 2 * i + 1 => l > i /\ l \div 2 = i
    BY <1>1
  <2> QED
    BY <1>7, <2>1
<1> QED
  BY <1>1, <1>7, <1>8, <1>9 DEF l, a

LEMMA DownTurnIs ==
  ASSUME NEW at \in [QueueRequests -> Nat], NEW S, NEW len \in Nat, NEW s, Sinks(at, s, S, len)
  PROVE  LET t == DownTurn(at, s) IN
         /\ Sinks(at, t, S, len)
         /\ Sunk(at, s) => t = s
         /\ ~Sunk(at, s) => t.i > s.i
<1> DEFINE i == s.i
           h == s.heap
           l == Largest(at, h, i)
           t == DownTurn(at, s)
           g == Swap(h, i, l)
<1>1. /\ s \in [heap : Seq(QueueRequests), i : Nat]
      /\ Holds(h, S) /\ Len(h) = len /\ i \in 1..len /\ HeapedAbove(at, h, i)
  BY DEF Sinks
<1>2. Sunk(at, s) <=> l = i
  BY DEF Sunk
<1>3. CASE Sunk(at, s)
  <2>1. t = s
    BY <1>2, <1>3 DEF DownTurn
  <2> QED
    BY <1>3, <2>1
<1>4. CASE ~Sunk(at, s)
  <2>1. l # i /\ t = [heap |-> g, i |-> l]
    BY <1>2, <1>4 DEF DownTurn
  <2>2. i \in Places(h) /\ i \in Nat
    BY <1>1 DEF Places
  <2>3. /\ l \in Places(h) /\ l \in Nat /\ l > i /\ l \div 2 = i /\ at[h[l]] < at[h[i]]
        /\ \A k \in Places(h) : k > 1 /\ k \div 2 = i => at[h[l]] <= at[h[k]]
    BY <1>1, <2>1, <2>2, LargestIs
  <2>4. /\ Holds(g, S) /\ Len(g) = len /\ g[i] = h[l] /\ g[l] = h[i]
        /\ \A k \in Places(h) : k # i /\ k # l => g[k] = h[k]
    BY <1>1, <2>1, <2>2, <2>3, Swapped
  <2> DEFINE half(k) == k \div 2
  <2>5. /\ \A k \in Places(h) : at[h[k]] \in Nat
        /\ \A k \in Places(h) : k > 1 => k \in Nat /\ half(k) \in Places(h) /\ half(k) < k /\ half(k) \in Nat
    <3>1. \A k \in Places(h) : h[k] \in QueueRequests
      BY <1>1, HeldAre
    <3>2. ASSUME NEW k \in Places(h), k > 1
          PROVE  k \in Nat /\ half(k) \in Places(h) /\ half(k) < k /\ half(k) \in Nat
      <4>1. k \in Nat /\ k <= len
        BY <1>1 DEF Places
      <4>2. half(k) \in Nat /\ 1 <= half(k) /\ half(k) < k
        BY <3>2, <4>1, HalfIs
      <4> QED
        BY <1>1, <4>1, <4>2 DEF Places
    <3> QED
      BY <3>1, <3>2
  <2>6. Places(g) = Places(h)
    BY <1>1, <2>4 DEF Places
  <2>7. /\ \A k \in Places(h) : k > 1 /\ half(k) # i => at[h[half(k)]] <= at[h[k]]
        /\ \A k \in Places(h) : k > 1 /\ half(k) = i /\ i > 1 => at[h[half(i)]] <= at[h[k]]
        /\ \A k \in Places(h) : k > 1 /\ half(k) = i => at[h[l]] <= at[h[k]]
    BY <1>1, <2>3 DEF HeapedAbove
  <2>8. half(l) = i /\ l > 1
    BY <2>2, <2>3, <1>1
  <2> HIDE DEF g, h, l, i, half
  <2>9. ASSUME NEW k \in Places(h), k > 1, half(k) # l PROVE at[g[half(k)]] <= at[g[k]]
    <3>1. CASE k = l
      <4>1. g[half(k)] = h[l] /\ g[k] = h[i]
        BY <2>4, <2>8, <3>1
      <4>2. at[h[l]] \in Nat /\ at[h[i]] \in Nat
        BY <2>2, <2>3, <2>5
      <4> QED
        BY <2>3, <4>1, <4>2
    <3>2. CASE k # l /\ half(k) = i
      <4>1. k # i
        BY <2>2, <2>5, <2>9, <3>2
      <4>2. g[half(k)] = h[l] /\ g[k] = h[k]
        BY <2>4, <3>2, <4>1
      <4> QED
        BY <2>7, <2>9, <3>2, <4>2
    <3>3. CASE k = i
      <4>1. half(k) # i /\ half(k) \in Places(h)
        BY <2>2, <2>5, <2>9, <3>3
      <4>2. g[half(k)] = h[half(i)] /\ g[k] = h[l]
        BY <2>4, <2>9, <3>3, <4>1
      <4>3. at[h[half(i)]] <= at[h[l]]
        BY <2>3, <2>7, <2>8, <2>9, <3>3
      <4> QED
        BY <4>2, <4>3
    <3>4. CASE k # l /\ k # i /\ half(k) # i
      <4>1. g[half(k)] = h[half(k)] /\ g[k] = h[k]
        BY <2>4, <2>5, <2>9, <3>4
      <4> QED
        BY <2>7, <2>9, <3>4, <4>1
    <3> QED
      BY <3>1, <3>2, <3>3, <3>4
  <2>10. ASSUME NEW k \in Places(h), k > 1, half(k) = l PROVE at[g[half(l)]] <= at[g[k]]
    <3>1. k # l /\ half(k) # i
      BY <2>2, <2>3, <2>5, <2>10
    <3>2. k # i
      <4>1. l < k /\ i < l /\ k \in Nat
        BY <2>3, <2>5, <2>10
      <4> QED
        BY <2>2, <2>3, <4>1
    <3>3. g[half(l)] = h[l] /\ g[k] = h[k]
      BY <2>4, <2>8, <3>1, <3>2
    <3>4. at[h[half(k)]] <= at[h[k]]
      BY <2>7, <2>10, <3>1
    <3> QED
      BY <2>10, <3>3, <3>4
  <2>11. HeapedAbove(at, g, l)
    BY <2>6, <2>9, <2>10 DEF HeapedAbove, half
  <2>12. t.heap = g /\ t.i = l /\ t \in [heap : Seq(QueueRequests), i : Nat]
    BY <2>1, <2>3, <2>4 DEF Holds
  <2>13. l \in 1..len
    BY <1>1, <2>3 DEF Places
  <2>14. Sinks(at, t, S, len)
    BY <2>4, <2>11, <2>12, <2>13 DEF Sinks
  <2> QED
    BY <1>4, <2>3, <2>12, <2>14 DEF i
<1> QED
  BY <1>3, <1>4

LEMMA SunkIsHeaped ==
  ASSUME NEW at \in [QueueRequests -> Nat], NEW S, NEW len \in Nat, NEW s, Sinks(at, s, S, len), Sunk(at, s)
  PROVE  Heaped(at, s.heap)
<1> DEFINE h == s.heap
           i == s.i
<1>1. /\ Holds(h, S) /\ Len(h) = len /\ i \in 1..len /\ HeapedAbove(at, h, i)
      /\ Largest(at, h, i) = i
  BY DEF Sinks, Sunk
<1>2. i \in Places(h)
  BY <1>1 DEF Places
<1> HIDE DEF h, i
<1>3. \A k \in Places(h) : k > 1 /\ k \div 2 = i => at[h[i]] <= at[h[k]]
  BY <1>1, <1>2, LargestIs
<1>4. ASSUME NEW k \in Places(h), k > 1 PROVE at[h[k \div 2]] <= at[h[k]]
  <2>1. CASE k \div 2 = i
    BY <1>3, <1>4, <2>1
  <2>2. CASE k \div 2 # i
    BY <1>1, <1>4, <2>2 DEF HeapedAbove
  <2> QED
    BY <2>1, <2>2
<1> QED
  BY <1>4 DEF Heaped, h

LEMMA HeapifiedDown ==
  ASSUME NEW at \in [QueueRequests -> Nat], NEW S, NEW heap, Holds(heap, S),
         1 \in Places(heap), HeapedAbove(at, heap, 1)
  PROVE  LET g == HeapifyDown(at, heap) IN
         Holds(g, S) /\ Len(g) = Len(heap) /\ Heaped(at, g)
<1> DEFINE len == Len(heap)
           V == {s \in [heap : Seq(QueueRequests), i : Nat] : Sinks(at, s, S, len)}
           base == [heap |-> heap, i |-> 1]
           G == [s \in V |-> DownTurn(at, s)]
           turn == CHOOSE f : f = [n \in 0..Len(heap) |-> IF n = 0 THEN base ELSE DownTurn(at, f[n - 1])]
<1>1. len \in Nat /\ 1 \in 1..len
  BY HeldAre DEF Places
<1>2. base \in V /\ base.i = 1
  <2>1. base \in [heap : Seq(QueueRequests), i : Nat] /\ base.heap = heap /\ base.i = 1
    BY <1>1 DEF Holds
  <2> HIDE DEF base
  <2>2. Sinks(at, base, S, len)
    BY <1>1, <2>1 DEF Sinks
  <2> QED
    BY <2>1, <2>2
<1>3. \A s \in V : DownTurn(at, s) \in V
  <2> TAKE s \in V
  <2>1. Sinks(at, DownTurn(at, s), S, len)
    BY <1>1, DownTurnIs
  <2> QED
    BY <2>1 DEF Sinks
<1>4. HeapifyDown(at, heap) = turn[len].heap
  BY DEF HeapifyDown
<1> HIDE DEF len
<1>5. turn = [n \in 0..len |-> IF n = 0 THEN base ELSE DownTurn(at, turn[n - 1])]
  <2>1. PICK h \in [0..len -> V] : h[0] = base /\ \A k \in 1..len : h[k] = G[h[k - 1]]
    <3> HIDE DEF V, base
    <3>1. G \in [V -> V]
      BY <1>3
    <3>2. len \in Nat /\ base \in V
      BY <1>1, <1>2
    <3> HIDE DEF G
    <3>3. PICK h : Turns(h, len, V, base, G)
      BY <3>1, <3>2, LoopIsDefined
    <3> QED
      BY <3>3 DEF Turns
  <2>2. h = [n \in 0..len |-> IF n = 0 THEN base ELSE DownTurn(at, h[n - 1])]
    <3>1. ASSUME NEW n \in 0..len PROVE h[n] = IF n = 0 THEN base ELSE DownTurn(at, h[n - 1])
      <4>1. n # 0 => n \in 1..len /\ n - 1 \in 0..len
        BY <1>1
      <4>2. n # 0 => h[n - 1] \in V
        BY <4>1
      <4> HIDE DEF V, base
      <4> QED
        BY <2>1, <4>1, <4>2
    <3> HIDE DEF V, base, G
    <3> QED
      BY <3>1
  <2> HIDE DEF base
  <2> QED
    BY <2>2 DEF len
<1> HIDE DEF turn, base
<1>6. 0 \in 0..len /\ turn[0] = base
  BY <1>1, <1>5
<1>7. ASSUME NEW n \in 1..len PROVE n \in 0..len /\ n - 1 \in 0..len /\ turn[n] = DownTurn(at, turn[n - 1])
  <2>1. n \in 0..len /\ n - 1 \in 0..len /\ n # 0
    BY <1>1
  <2> QED
    BY <1>5, <2>1
<1> DEFINE T == {n \in 0..len : turn[n] \in V /\ (Sunk(at, turn[n]) \/ turn[n].i >= 1 + n)}
<1>8. 0 \in T
  BY <1>1, <1>2, <1>6
<1>9. ASSUME NEW n \in 1..len, n - 1 \in T PROVE n \in T
  <2> DEFINE s == turn[n - 1]
             t == turn[n]
  <2>1. t = DownTurn(at, s) /\ s \in V /\ (Sunk(at, s) \/ s.i >= 1 + (n - 1))
    BY <1>7, <1>9
  <2>2. /\ Sinks(at, t, S, len) /\ (Sunk(at, s) => t = s) /\ (~Sunk(at, s) => t.i > s.i)
        /\ s.i \in Nat /\ t \in V /\ t.i \in Nat
    <3>1. Sinks(at, s, S, len)
      BY <2>1
    <3>2. /\ Sinks(at, t, S, len) /\ (Sunk(at, s) => t = s) /\ (~Sunk(at, s) => t.i > s.i)
      BY <1>1, <2>1, <3>1, DownTurnIs
    <3> QED
      BY <1>3, <2>1, <3>1, <3>2 DEF Sinks
  <2> HIDE DEF V
  <2>3. Sunk(at, t) \/ t.i >= 1 + n
    <3> HIDE DEF s, t
    <3>1. CASE Sunk(at, s)
      BY <2>2, <3>1
    <3>2. CASE ~Sunk(at, s)
      BY <1>1, <2>1, <2>2, <3>2
    <3> QED
      BY <3>1, <3>2
  <2> QED
    BY <1>7, <2>2, <2>3
<1> HIDE DEF T
<1>10. len \in T
  <2>1. 0..len \subseteq T
    BY <1>1, <1>8, <1>9, InductionUpTo
  <2> QED
    BY <1>1, <2>1
<1>11. Sinks(at, turn[len], S, len) /\ (Sunk(at, turn[len]) \/ turn[len].i >= 1 + len)
  BY <1>10 DEF T
<1>12. Sunk(at, turn[len])
  <2>1. turn[len].i \in 1..len
    BY <1>11 DEF Sinks
  <2> QED
    BY <1>1, <1>11, <2>1
<1>13. Heaped(at, turn[len].heap)
  BY <1>1, <1>11, <1>12, SunkIsHeaped
<1> QED
  BY <1>4, <1>11, <1>13 DEF Sinks, len

-----------------------------------------------------------------------------
(* Taking the first                                                        *)

\* What is at the root came no later than any other.
LEMMA RootIsFirst ==
  ASSUME NEW at \in [QueueRequests -> Nat], NEW S, NEW heap, Holds(heap, S), Heaped(at, heap),
         heap # <<>>
  PROVE  1 \in Places(heap) /\ heap[1] \in S /\ \A r \in S : at[heap[1]] <= at[r]
<1> DEFINE len == Len(heap)
           T == {n \in 0..len : \A i \in 1..n : at[heap[1]] <= at[heap[i]]}
<1>1. len \in Nat /\ Places(heap) = 1..len /\ len # 0
  <2>1. heap \in Seq(QueueRequests)
    BY DEF Holds
  <2> QED
    BY <2>1, HeldAre, EmptySeq DEF Places
<1>2. 1 \in 1..len
  BY <1>1
<1>3. \A i \in 1..len : at[heap[i]] \in Nat
  <2>1. \A i \in 1..len : heap[i] \in QueueRequests
    BY <1>1, HeldAre
  <2> QED
    BY <2>1
<1> HIDE DEF len
<1>4. 0 \in T
  BY <1>1
<1>5. ASSUME NEW n \in 1..len, n - 1 \in T PROVE n \in T
  <2>1. \A i \in 1..(n - 1) : at[heap[1]] <= at[heap[i]]
    BY <1>5
  <2>2. at[heap[1]] <= at[heap[n]]
    <3>1. CASE n = 1
      BY <1>2, <1>3, <3>1
    <3>2. CASE n > 1
      <4>1. n \in Nat /\ n \in Places(heap)
        BY <1>1
      <4>2. n \div 2 \in Nat /\ 1 <= n \div 2 /\ n \div 2 < n
        BY <3>2, <4>1, HalfIs
      <4>3. n \div 2 \in 1..(n - 1) /\ n \div 2 \in 1..len
        BY <1>1, <4>1, <4>2
      <4>4. at[heap[n \div 2]] <= at[heap[n]]
        BY <3>2, <4>1 DEF Heaped
      <4>5. at[heap[1]] <= at[heap[n \div 2]]
        BY <2>1, <4>3
      <4>6. at[heap[1]] \in Nat /\ at[heap[n \div 2]] \in Nat /\ at[heap[n]] \in Nat
        BY <1>2, <1>3, <4>3
      <4> QED
        BY <4>4, <4>5, <4>6
    <3> QED
      BY <1>1, <3>1, <3>2
  <2>3. n \in 0..len /\ \A i \in 1..n : i = n \/ i \in 1..(n - 1)
    BY <1>1
  <2> QED
    BY <2>1, <2>2, <2>3
<1> HIDE DEF T
<1>6. len \in T
  <2>1. 0..len \subseteq T
    BY <1>1, <1>4, <1>5, InductionUpTo
  <2> QED
    BY <1>1, <2>1
<1>7. \A i \in 1..len : at[heap[1]] <= at[heap[i]]
  BY <1>6 DEF T
<1>8. \A r \in S : \E i \in 1..len : heap[i] = r
  BY <1>1 DEF Holds
<1> QED
  BY <1>1, <1>2, <1>7, <1>8, HeldAre

LEMMA PopIs ==
  ASSUME NEW at \in [QueueRequests -> Nat], NEW S, NEW heap, Holds(heap, S), Heaped(at, heap),
         heap # <<>>
  PROVE  LET g == Pop(at, heap) IN
         Holds(g, S \ {heap[1]}) /\ Len(g) = Len(heap) - 1 /\ Heaped(at, g)
<1> DEFINE len == Len(heap)
           g == Pop(at, heap)
           h == [Front(heap) EXCEPT ![1] = heap[len]]
           R == S \ {heap[1]}
<1>1. /\ heap \in Seq(QueueRequests) /\ len \in Nat /\ Places(heap) = 1..len /\ len # 0
      /\ \A i, j \in 1..len : heap[i] = heap[j] => i = j
      /\ \A r : r \in S <=> \E i \in 1..len : heap[i] = r
      /\ \A i \in 1..len : heap[i] \in QueueRequests
  <2>1. heap \in Seq(QueueRequests)
    BY DEF Holds
  <2> QED
    BY <2>1, HeldAre, EmptySeq DEF Holds, Places
<1>2. \A k \in 1..len : k > 1 => at[heap[k \div 2]] <= at[heap[k]]
  BY <1>1 DEF Heaped
<1>3. CASE len = 1
  <2>1. g = <<>>
    BY <1>3 DEF Pop
  <2>2. Len(<<>>) = 0 /\ <<>> \in Seq(QueueRequests) /\ Places(<<>>) = {}
    BY EmptySeq DEF Places
  <2>3. \A r : r \notin R
    BY <1>1, <1>3
  <2>4. Holds(<<>>, R) /\ Heaped(at, <<>>)
    BY <2>2, <2>3 DEF Holds, Heaped
  <2>5. Len(g) = len - 1
    BY <1>3, <2>1, <2>2
  <2> QED
    BY <2>1, <2>4, <2>5
<1>4. CASE len # 1
  <2>1. g = HeapifyDown(at, h)
    BY <1>4 DEF Pop
  <2> DEFINE n == len - 1
             F == Front(heap)
  <2>2. /\ n \in Nat /\ n >= 1 /\ len = n + 1 /\ 1 \in 1..n /\ n \in 1..len /\ len \in 1..len
        /\ \A i \in 1..n : i \in 1..len /\ i # len
    <3>1. len \in Nat /\ len # 0 /\ len # 1
      BY <1>1, <1>4
    <3> HIDE DEF len
    <3> QED
      BY <3>1
  <2>3. F \in Seq(QueueRequests) /\ Len(F) = n /\ \A i \in 1..n : F[i] = heap[i]
    <3>1. F = SubSeq(heap, 1, n)
      BY DEF Front
    <3>2. n \in 1..len
      BY <2>2
    <3> HIDE DEF F, n, len
    <3>3. /\ SubSeq(heap, 1, n) \in Seq(QueueRequests) /\ Len(SubSeq(heap, 1, n)) = n
          /\ \A i \in 1..n : SubSeq(heap, 1, n)[i] = heap[i]
      <4>1. SubSeq(heap, 1, n) = [i \in 1..n |-> heap[i]]
        BY <1>1, <2>2 DEF len
      <4> QED
        BY <1>1, <2>2, <4>1
    <3> QED
      BY <3>1, <3>3
  <2> HIDE DEF F
  <2>4. /\ h \in Seq(QueueRequests) /\ Len(h) = n /\ h[1] = heap[len]
        /\ \A i \in 1..n : i # 1 => h[i] = heap[i]
    <3>1. h = [F EXCEPT ![1] = heap[len]]
      BY DEF F
    <3>2. heap[len] \in QueueRequests /\ F \in [1..n -> QueueRequests]
      <4>1. heap[len] \in QueueRequests
        BY <1>1, <2>2
      <4>2. DOMAIN F = 1..n /\ \A i \in 1..n : F[i] \in QueueRequests
        BY <2>3, LenProperties, ElementOfSeq
      <4> QED
        BY <2>3, <4>1, <4>2, LenProperties
    <3> HIDE DEF h, n, len
    <3>3. h \in [1..n -> QueueRequests] /\ h[1] = heap[len] /\ \A i \in 1..n : i # 1 => h[i] = F[i]
      BY <2>2, <3>1, <3>2
    <3> QED
      BY <2>2, <2>3, <3>3
  <2>5. Places(h) = 1..n
    BY <2>4 DEF Places
  <2> HIDE DEF h, n, len
  <2>6. Holds(h, R)
    <3>1. ASSUME NEW i \in 1..n, NEW j \in 1..n, h[i] = h[j] PROVE i = j
      BY <1>1, <2>2, <2>4, <3>1
    <3>2. ASSUME NEW r PROVE r \in R <=> \E i \in 1..n : h[i] = r
      <4>1. ASSUME r \in R PROVE \E i \in 1..n : h[i] = r
        <5>1. PICK i \in 1..len : heap[i] = r
          BY <1>1, <4>1
        <5>2. i # 1
          BY <4>1, <5>1
        <5>3. i = len \/ i \in 1..n
          BY <2>2
        <5> QED
          BY <2>2, <2>4, <5>1, <5>2, <5>3
      <4>2. ASSUME NEW i \in 1..n PROVE h[i] \in R
        <5>1. CASE i = 1
          <6>1. heap[len] \in S /\ heap[len] # heap[1]
            BY <1>1, <2>2
          <6> QED
            BY <2>4, <5>1, <6>1
        <5>2. CASE i # 1
          <6>1. heap[i] \in S /\ heap[i] # heap[1]
            BY <1>1, <2>2, <5>2
          <6> QED
            BY <2>4, <5>2, <6>1
        <5> QED
          BY <5>1, <5>2
      <4> QED
        BY <4>1, <4>2
    <3> QED
      BY <2>4, <2>5, <3>1, <3>2 DEF Holds
  <2>7. HeapedAbove(at, h, 1)
    <3>1. ASSUME NEW k \in 1..n, k > 1, k \div 2 # 1 PROVE at[h[k \div 2]] <= at[h[k]]
      <4>1. k \in Nat /\ k <= n
        BY <2>2
      <4>2. k \div 2 \in Nat /\ 1 <= k \div 2 /\ k \div 2 < k
        BY <3>1, <4>1, HalfIs
      <4>3. k \div 2 \in 1..n
        BY <2>2, <4>1, <4>2
      <4>4. h[k] = heap[k] /\ h[k \div 2] = heap[k \div 2]
        BY <2>4, <3>1, <4>3
      <4> QED
        BY <1>2, <2>2, <3>1, <4>4
    <3> QED
      BY <2>5, <3>1 DEF HeapedAbove
  <2>8. Holds(g, R) /\ Len(g) = Len(h) /\ Heaped(at, g)
    BY <2>1, <2>2, <2>5, <2>6, <2>7, HeapifiedDown
  <2> QED
    BY <2>4, <2>8 DEF n, len
<1> QED
  BY <1>3, <1>4

-----------------------------------------------------------------------------
(* The heaps of the priorities                                             *)

OfPriority(p, Q) == {r \in Q : PriorityOf[r] = p}

\* The heaps hold the requests of Q, each in the heap of its priority.
HeldBy(hs, at, Q) ==
  /\ hs \in [1..4 -> Seq(QueueRequests)]
  /\ \A p \in 1..4 : Holds(hs[p], OfPriority(p, Q)) /\ Heaped(at, hs[p])

LEMMA PrioritiesAre ==
  /\ QueueRequests = 1..Len(PriorityOf) /\ Len(PriorityOf) \in Nat
  /\ \A r \in QueueRequests : PriorityOf[r] \in 1..4
BY QueueAssumption, LenProperties, ElementOfSeq DEF QueueRequests

LEMMA SizeIs ==
  ASSUME NEW hs \in [1..4 -> Seq(QueueRequests)]
  PROVE  /\ QueueSize(hs) \in Nat
         /\ \A p \in 1..4 : Len(hs[p]) \in Nat /\ Len(hs[p]) <= QueueSize(hs)
         /\ QueueSize(hs) = 0 <=> \A p \in 1..4 : hs[p] = <<>>
<1>1. \A p \in 1..4 : Len(hs[p]) \in Nat /\ (Len(hs[p]) = 0 <=> hs[p] = <<>>)
  <2>1. \A p \in 1..4 : hs[p] \in Seq(QueueRequests)
    OBVIOUS
  <2> QED
    BY <2>1, LenProperties, EmptySeq
<1>2. 1 \in 1..4 /\ 2 \in 1..4 /\ 3 \in 1..4 /\ 4 \in 1..4 /\ \A p \in 1..4 : p = 1 \/ p = 2 \/ p = 3 \/ p = 4
  OBVIOUS
<1>3. QueueSize(hs) = Len(hs[1]) + Len(hs[2]) + Len(hs[3]) + Len(hs[4])
  BY DEF QueueSize
<1> DEFINE a == Len(hs[1])
           b == Len(hs[2])
           c == Len(hs[3])
           d == Len(hs[4])
<1>4. a \in Nat /\ b \in Nat /\ c \in Nat /\ d \in Nat /\ QueueSize(hs) = a + b + c + d
  BY <1>1, <1>2, <1>3
<1> HIDE DEF a, b, c, d
<1>5. /\ QueueSize(hs) \in Nat
      /\ a <= QueueSize(hs) /\ b <= QueueSize(hs) /\ c <= QueueSize(hs) /\ d <= QueueSize(hs)
      /\ QueueSize(hs) = 0 <=> a = 0 /\ b = 0 /\ c = 0 /\ d = 0
  BY <1>4
<1>6. QueueSize(hs) = 0 <=> \A p \in 1..4 : hs[p] = <<>>
  BY <1>1, <1>2, <1>5 DEF a, b, c, d
<1> QED
  BY <1>1, <1>2, <1>5, <1>6 DEF a, b, c, d

LEMMA SizeFalls ==
  ASSUME NEW hs \in [1..4 -> Seq(QueueRequests)], NEW p \in 1..4, NEW g \in Seq(QueueRequests),
         NEW k \in Int, Len(g) = Len(hs[p]) + k
  PROVE  QueueSize([hs EXCEPT ![p] = g]) = QueueSize(hs) + k
<1> DEFINE gs == [hs EXCEPT ![p] = g]
<1>1. \A q \in 1..4 : gs[q] = IF q = p THEN g ELSE hs[q]
  OBVIOUS
<1>2. \A q \in 1..4 : Len(hs[q]) \in Nat
  BY SizeIs
<1> DEFINE l(q) == Len(hs[q])
           m(q) == Len(gs[q])
<1>3. \A q \in 1..4 : m(q) = IF q = p THEN l(q) + k ELSE l(q)
  BY <1>1
<1>4. QueueSize(hs) = l(1) + l(2) + l(3) + l(4) /\ QueueSize(gs) = m(1) + m(2) + m(3) + m(4)
  BY DEF QueueSize
<1>5. l(1) \in Nat /\ l(2) \in Nat /\ l(3) \in Nat /\ l(4) \in Nat
  BY <1>2
<1>6. p = 1 \/ p = 2 \/ p = 3 \/ p = 4
  OBVIOUS
<1> HIDE DEF gs, l, m
<1>8. /\ m(1) = IF 1 = p THEN l(1) + k ELSE l(1)
      /\ m(2) = IF 2 = p THEN l(2) + k ELSE l(2)
      /\ m(3) = IF 3 = p THEN l(3) + k ELSE l(3)
      /\ m(4) = IF 4 = p THEN l(4) + k ELSE l(4)
  BY <1>3
<1>7. QueueSize(gs) = QueueSize(hs) + k
  <2>1. CASE p = 1
    BY <1>4, <1>5, <1>8, <2>1
  <2>2. CASE p = 2
    BY <1>4, <1>5, <1>8, <2>2
  <2>3. CASE p = 3
    BY <1>4, <1>5, <1>8, <2>3
  <2>4. CASE p = 4
    BY <1>4, <1>5, <1>8, <2>4
  <2> QED
    BY <1>6, <2>1, <2>2, <2>3, <2>4
<1> QED
  BY <1>7 DEF gs

LEMMA DequeueIs ==
  ASSUME NEW at \in [QueueRequests -> Nat], NEW Q \in SUBSET QueueRequests,
         NEW hs, HeldBy(hs, at, Q), QueueSize(hs) # 0
  PROVE  LET d == Dequeue(at, hs) IN
         /\ d.request \in Q
         /\ HeldBy(d.heaps, at, Q \ {d.request})
         /\ QueueSize(d.heaps) = QueueSize(hs) - 1
         /\ \A q \in Q : ComesFirst(at, d.request, q)
<1> DEFINE d == Dequeue(at, hs)
           IsFirst(q) == hs[q] # <<>> /\ \A k \in 1..(q - 1) : hs[k] = <<>>
           p == CHOOSE q \in 1..4 : IsFirst(q)
           r == hs[p][1]
           g == Pop(at, hs[p])
<1>1. /\ hs \in [1..4 -> Seq(QueueRequests)]
      /\ \A q \in 1..4 : Holds(hs[q], OfPriority(q, Q)) /\ Heaped(at, hs[q])
  BY DEF HeldBy
<1>2. \E q \in 1..4 : IsFirst(q)
  <2> DEFINE T == {q \in 1..4 : hs[q] # <<>>}
  <2>1. T \in SUBSET Nat /\ T # {}
    BY <1>1, SizeIs
  <2>2. PICK q \in T : \A k \in T : q <= k
    BY <2>1, LeastNumber
  <2>3. \A k \in 1..(q - 1) : k \in 1..4 /\ ~(q <= k)
    OBVIOUS
  <2>4. q \in 1..4 /\ hs[q] # <<>> /\ \A k \in 1..(q - 1) : hs[k] = <<>>
    BY <2>2, <2>3
  <2> QED
    BY <2>4
<1>3. p \in 1..4 /\ hs[p] # <<>> /\ \A k \in 1..(p - 1) : hs[k] = <<>>
  BY <1>2
<1>4. d = [request |-> r, heaps |-> [hs EXCEPT ![p] = g]]
  BY <1>1, <1>3 DEF Dequeue
<1> HIDE DEF p, d
<1>5. /\ r \in OfPriority(p, Q) /\ \A q \in OfPriority(p, Q) : at[r] <= at[q]
      /\ Holds(g, OfPriority(p, Q) \ {r}) /\ Len(g) = Len(hs[p]) - 1 /\ Heaped(at, g)
  BY <1>1, <1>3, RootIsFirst, PopIs
<1>6. r \in Q /\ PriorityOf[r] = p
  BY <1>5 DEF OfPriority
<1> HIDE DEF r, g
<1>7. d.request = r /\ d.heaps = [hs EXCEPT ![p] = g] /\ g \in Seq(QueueRequests)
  BY <1>4, <1>5 DEF Holds
<1>8. \A q \in 1..4 : d.heaps[q] = IF q = p THEN g ELSE hs[q]
  BY <1>1, <1>7
<1>9. HeldBy(d.heaps, at, Q \ {r})
  <2>1. OfPriority(p, Q \ {r}) = OfPriority(p, Q) \ {r}
    BY DEF OfPriority
  <2>2. \A q \in 1..4 : q # p => OfPriority(q, Q \ {r}) = OfPriority(q, Q)
    BY <1>6 DEF OfPriority
  <2>3. d.heaps \in [1..4 -> Seq(QueueRequests)]
    BY <1>1, <1>7
  <2>4. \A q \in 1..4 : Holds(d.heaps[q], OfPriority(q, Q \ {r})) /\ Heaped(at, d.heaps[q])
    BY <1>1, <1>5, <1>8, <2>1, <2>2
  <2> QED
    BY <2>3, <2>4 DEF HeldBy
<1>10. QueueSize(d.heaps) = QueueSize(hs) - 1
  <2>1. Len(hs[p]) \in Nat /\ QueueSize(hs) \in Nat
    BY <1>1, <1>3, SizeIs
  <2> DEFINE k == -1
  <2>2. k \in Int /\ Len(g) = Len(hs[p]) + k
    BY <1>5, <2>1
  <2> HIDE DEF k
  <2>3. QueueSize([hs EXCEPT ![p] = g]) = QueueSize(hs) + k
    <3>1. hs \in [1..4 -> Seq(QueueRequests)] /\ p \in 1..4 /\ g \in Seq(QueueRequests)
      BY <1>1, <1>3, <1>7
    <3> QED
      BY <2>2, <3>1, SizeFalls
  <2> QED
    BY <1>7, <2>1, <2>3 DEF k
<1>11. ASSUME NEW q \in Q PROVE ComesFirst(at, r, q)
  <2>1. PriorityOf[q] \in 1..4 /\ q \in OfPriority(PriorityOf[q], Q)
    BY PrioritiesAre DEF OfPriority
  <2>2. hs[PriorityOf[q]] # <<>>
    <3>1. PICK i \in Places(hs[PriorityOf[q]]) : hs[PriorityOf[q]][i] = q
      BY <1>1, <2>1 DEF Holds
    <3>2. Places(<<>>) = {}
      BY EmptySeq DEF Places
    <3> QED
      BY <3>1, <3>2
  <2>3. p <= PriorityOf[q]
    BY <1>3, <2>1, <2>2
  <2>4. CASE p = PriorityOf[q]
    BY <1>5, <1>6, <2>1, <2>4 DEF ComesFirst
  <2>5. CASE p # PriorityOf[q]
    BY <1>3, <1>6, <2>1, <2>3, <2>5 DEF ComesFirst
  <2> QED
    BY <2>4, <2>5
<1> QED
  BY <1>6, <1>7, <1>9, <1>10, <1>11 DEF d

-----------------------------------------------------------------------------
(* Batches                                                                 *)

Taken(at, t, Q) ==
  /\ t \in [requests : SUBSET QueueRequests, heaps : [1..4 -> Seq(QueueRequests)]]
  /\ t.requests \subseteq Q
  /\ HeldBy(t.heaps, at, Q \ t.requests)
  /\ \A r \in t.requests : \A q \in Q \ t.requests : ComesFirst(at, r, q)

LEMMA TakenInto ==
  ASSUME NEW at \in [QueueRequests -> Nat], NEW Q \in SUBSET QueueRequests, NEW t, Taken(at, t, Q)
  PROVE  LET u == TakeInto(at, t) IN
         /\ Taken(at, u, Q)
         /\ QueueSize(t.heaps) \in Nat /\ QueueSize(u.heaps) \in Nat
         /\ QueueSize(u.heaps) <= QueueSize(t.heaps)
         /\ t.requests \subseteq u.requests
         /\ QueueSize(t.heaps) # 0 => u.requests # {}
         /\ \E r : u.requests \subseteq t.requests \cup {r}
<1> DEFINE u == TakeInto(at, t)
           d == Dequeue(at, t.heaps)
<1>1. /\ t.requests \subseteq Q /\ HeldBy(t.heaps, at, Q \ t.requests)
      /\ t.requests \subseteq QueueRequests
      /\ \A r \in t.requests : \A q \in Q \ t.requests : ComesFirst(at, r, q)
      /\ t.heaps \in [1..4 -> Seq(QueueRequests)]
  BY DEF Taken, HeldBy
<1>2. QueueSize(t.heaps) \in Nat
  BY <1>1, SizeIs
<1>3. CASE QueueSize(t.heaps) = 0
  <2>1. u = t
    BY <1>3 DEF TakeInto
  <2>2. \E r : t.requests \subseteq t.requests \cup {r}
    OBVIOUS
  <2> QED
    BY <1>2, <1>3, <2>1, <2>2
<1>4. CASE QueueSize(t.heaps) # 0
  <2>1. u = [requests |-> t.requests \cup {d.request}, heaps |-> d.heaps]
    BY <1>4 DEF TakeInto
  <2>2. /\ d.request \in Q \ t.requests
        /\ HeldBy(d.heaps, at, (Q \ t.requests) \ {d.request})
        /\ QueueSize(d.heaps) = QueueSize(t.heaps) - 1
        /\ \A q \in Q \ t.requests : ComesFirst(at, d.request, q)
    <3> DEFINE P == Q \ t.requests
    <3>1. P \in SUBSET QueueRequests /\ HeldBy(t.heaps, at, P)
      BY <1>1
    <3> HIDE DEF P, d
    <3>2. /\ d.request \in P
          /\ HeldBy(d.heaps, at, P \ {d.request})
          /\ QueueSize(d.heaps) = QueueSize(t.heaps) - 1
          /\ \A q \in P : ComesFirst(at, d.request, q)
      BY <1>4, <3>1, DequeueIs DEF d
    <3> QED
      BY <3>2 DEF P
  <2> HIDE DEF u, d
  <2>3. u.requests = t.requests \cup {d.request} /\ u.heaps = d.heaps
    BY <2>1
  <2>4. Q \ u.requests = (Q \ t.requests) \ {d.request}
    BY <2>3
  <2>5. d.heaps \in [1..4 -> Seq(QueueRequests)]
    BY <2>2 DEF HeldBy
  <2>6. u \in [requests : SUBSET QueueRequests, heaps : [1..4 -> Seq(QueueRequests)]]
    <3>1. t.requests \cup {d.request} \in SUBSET QueueRequests
      BY <1>1, <2>2
    <3> QED
      BY <2>1, <2>5, <3>1
  <2>7. \A r \in u.requests : \A q \in Q \ u.requests : ComesFirst(at, r, q)
    BY <1>1, <2>2, <2>3
  <2>8. Taken(at, u, Q)
    BY <1>1, <2>2, <2>3, <2>4, <2>6, <2>7 DEF Taken
  <2>9. QueueSize(u.heaps) \in Nat /\ QueueSize(u.heaps) <= QueueSize(t.heaps)
    BY <1>2, <1>4, <2>2, <2>3
  <2>10. \E r : u.requests \subseteq t.requests \cup {r}
    BY <2>3
  <2> QED
    BY <1>2, <2>3, <2>8, <2>9, <2>10 DEF u
<1> QED
  BY <1>3, <1>4

LEMMA DequeueBatchIs ==
  ASSUME NEW at \in [QueueRequests -> Nat], NEW Q \in SUBSET QueueRequests,
         NEW hs, HeldBy(hs, at, Q), NEW n \in Nat \ {0}
  PROVE  LET b == DequeueBatch(at, hs, n) IN
         /\ Taken(at, b, Q)
         /\ IsFiniteSet(b.requests) /\ Cardinality(b.requests) <= n
         /\ QueueSize(b.heaps) <= QueueSize(hs)
         /\ QueueSize(hs) # 0 => b.requests # {}
<1> DEFINE V == {t \in [requests : SUBSET QueueRequests, heaps : [1..4 -> Seq(QueueRequests)]] : Taken(at, t, Q)}
           base == [requests |-> {}, heaps |-> hs]
           G == [t \in V |-> TakeInto(at, t)]
           turn == CHOOSE f : f = [k \in 0..n |-> IF k = 0 THEN base ELSE TakeInto(at, f[k - 1])]
<1>1. n \in Nat /\ n \in 1..n /\ hs \in [1..4 -> Seq(QueueRequests)]
  BY DEF HeldBy
<1>2. base \in V /\ base.requests = {} /\ base.heaps = hs
  <2>1. /\ base \in [requests : SUBSET QueueRequests, heaps : [1..4 -> Seq(QueueRequests)]]
        /\ base.requests = {} /\ base.heaps = hs
    BY <1>1
  <2> HIDE DEF base
  <2>2. Q \ base.requests = Q
    BY <2>1
  <2>3. Taken(at, base, Q)
    BY <2>1, <2>2 DEF Taken
  <2> QED
    BY <2>1, <2>3
<1>3. \A t \in V : TakeInto(at, t) \in V
  <2> TAKE t \in V
  <2>1. Taken(at, TakeInto(at, t), Q)
    BY TakenInto
  <2> QED
    BY <2>1 DEF Taken
<1>4. DequeueBatch(at, hs, n) = turn[n]
  BY DEF DequeueBatch
<1>5. turn = [k \in 0..n |-> IF k = 0 THEN base ELSE TakeInto(at, turn[k - 1])]
  <2>1. PICK h \in [0..n -> V] : h[0] = base /\ \A k \in 1..n : h[k] = G[h[k - 1]]
    <3> HIDE DEF V, base
    <3>1. G \in [V -> V]
      BY <1>3
    <3>2. n \in Nat /\ base \in V
      BY <1>1, <1>2
    <3> HIDE DEF G
    <3>3. PICK h : Turns(h, n, V, base, G)
      BY <3>1, <3>2, LoopIsDefined
    <3> QED
      BY <3>3 DEF Turns
  <2>2. h = [k \in 0..n |-> IF k = 0 THEN base ELSE TakeInto(at, h[k - 1])]
    <3>1. ASSUME NEW k \in 0..n PROVE h[k] = IF k = 0 THEN base ELSE TakeInto(at, h[k - 1])
      <4>1. k # 0 => k \in 1..n /\ k - 1 \in 0..n
        BY <1>1
      <4>2. k # 0 => h[k - 1] \in V
        BY <4>1
      <4> HIDE DEF V, base
      <4> QED
        BY <2>1, <4>1, <4>2
    <3> HIDE DEF V, base, G
    <3> QED
      BY <3>1
  <2> HIDE DEF base
  <2> QED
    BY <2>2
<1> HIDE DEF turn, base
<1>6. 0 \in 0..n /\ turn[0] = base
  BY <1>1, <1>5
<1>7. ASSUME NEW k \in 1..n PROVE k \in 0..n /\ k - 1 \in 0..n /\ turn[k] = TakeInto(at, turn[k - 1])
  <2>1. k \in 0..n /\ k - 1 \in 0..n /\ k # 0
    BY <1>1
  <2> QED
    BY <1>5, <2>1
<1> DEFINE size == QueueSize(hs)
           Goes(k) == /\ turn[k] \in V
                      /\ IsFiniteSet(turn[k].requests) /\ Cardinality(turn[k].requests) <= k
                      /\ QueueSize(turn[k].heaps) <= size
                      /\ (k = 0 => turn[k] = base)
                      /\ (k # 0 /\ size # 0 => turn[k].requests # {})
           T == {k \in 0..n : Goes(k)}
<1>8. 0 \in T
  <2>1. IsFiniteSet({}) /\ Cardinality({}) = 0
    BY FS_EmptySet
  <2>2. size \in Nat
    BY <1>1, SizeIs
  <2> HIDE DEF V, size
  <2>3. QueueSize(turn[0].heaps) <= size
    BY <1>2, <1>6, <2>2 DEF size
  <2>4. Goes(0)
    BY <1>2, <1>6, <2>1, <2>3
  <2> HIDE DEF Goes
  <2> QED
    BY <1>6, <2>4
<1>9. ASSUME NEW k \in 1..n, k - 1 \in T PROVE k \in T
  <2> DEFINE t == turn[k - 1]
             u == turn[k]
  <2>1. /\ u = TakeInto(at, t) /\ t \in V /\ Taken(at, t, Q)
        /\ IsFiniteSet(t.requests) /\ Cardinality(t.requests) <= k - 1
        /\ QueueSize(t.heaps) <= size
        /\ k - 1 = 0 => t = base
        /\ k - 1 # 0 /\ size # 0 => t.requests # {}
    BY <1>7, <1>9
  <2> HIDE DEF V, T, Goes, t, u
  <2>2. /\ Taken(at, u, Q) /\ u \in V
        /\ QueueSize(t.heaps) \in Nat /\ QueueSize(u.heaps) \in Nat
        /\ QueueSize(u.heaps) <= QueueSize(t.heaps)
        /\ t.requests \subseteq u.requests
        /\ QueueSize(t.heaps) # 0 => u.requests # {}
        /\ \E r : u.requests \subseteq t.requests \cup {r}
    <3>1. TakeInto(at, t) \in V
      BY <1>3, <2>1
    <3> QED
      BY <2>1, <3>1, TakenInto
  <2>3. PICK r : u.requests \subseteq t.requests \cup {r}
    BY <2>2
  <2>4. IsFiniteSet(u.requests) /\ Cardinality(u.requests) <= k
    <3>1. /\ IsFiniteSet(t.requests \cup {r})
          /\ Cardinality(t.requests \cup {r}) <= Cardinality(t.requests) + 1
      <4>1. /\ IsFiniteSet(t.requests \cup {r})
            /\ Cardinality(t.requests \cup {r}) =
                 IF r \in t.requests THEN Cardinality(t.requests) ELSE Cardinality(t.requests) + 1
        BY <2>1, FS_AddElement
      <4>2. Cardinality(t.requests) \in Nat
        BY <2>1, FS_CardinalityType
      <4> QED
        BY <4>1, <4>2
    <3>2. /\ IsFiniteSet(u.requests)
          /\ Cardinality(u.requests) <= Cardinality(t.requests \cup {r})
      BY <2>3, <3>1, FS_Subset
    <3>3. /\ Cardinality(t.requests) \in Nat /\ Cardinality(u.requests) \in Nat
          /\ Cardinality(t.requests \cup {r}) \in Nat
      BY <2>1, <3>1, <3>2, FS_CardinalityType
    <3> QED
      BY <1>1, <2>1, <3>1, <3>2, <3>3
  <2>5. size \in Nat
    BY <1>1, SizeIs
  <2>6. size # 0 => u.requests # {}
    <3>1. CASE k = 1
      <4>1. t = base
        BY <2>1, <3>1
      <4>2. QueueSize(t.heaps) = size
        BY <1>2, <4>1
      <4> QED
        BY <2>2, <4>2
    <3>2. CASE k # 1
      <4>1. k - 1 # 0
        BY <1>1, <3>2
      <4> QED
        BY <2>1, <2>2, <4>1
    <3> QED
      BY <3>1, <3>2
  <2> HIDE DEF size
  <2>7. QueueSize(u.heaps) <= size
    BY <2>1, <2>2, <2>5
  <2>8. k # 0 /\ k \in 0..n
    BY <1>1
  <2>9. Goes(k)
    BY <2>2, <2>4, <2>6, <2>7, <2>8 DEF Goes, u
  <2> QED
    BY <2>8, <2>9 DEF T
<1> HIDE DEF T
<1>10. n \in T
  <2>1. 0..n \subseteq T
    BY <1>1, <1>8, <1>9, InductionUpTo
  <2> QED
    BY <1>1, <2>1
<1>11. Goes(n) /\ n # 0
  BY <1>10 DEF T
<1> QED
  BY <1>4, <1>11

-----------------------------------------------------------------------------
(* The inductive invariant                                                 *)

QueuedIn(f) == {r \in QueueRequests : f[r] = "queued"}

BatchIn(f) == {r \in QueueRequests : f[r] = "batch"}

\* The heaps hold what is queued, and a batch is out while one is processed.
Holding(at, hs, f, busy) ==
  /\ HeldBy(hs, at, QueuedIn(f)) /\ QueueSize(hs) <= MaxSize
  /\ busy \in BOOLEAN /\ (busy <=> BatchIn(f) # {})
  /\ Cardinality(BatchIn(f)) <= BatchSize

QueueShape ==
  /\ addedAt \in [QueueRequests -> Nat] /\ clock \in Nat
  /\ enqueued \in 0..Len(PriorityOf)
  /\ fate \in [QueueRequests -> Fates]
  /\ batchTimer \in BOOLEAN /\ stopped \in BOOLEAN
  /\ \A r \in QueueRequests : r > enqueued => fate[r] = "new"

QueueIInv ==
  /\ QueueShape
  /\ Holding(addedAt, heaps, fate, isProcessing)
  /\ LeftBehindByABatch

LEMMA HeapsHold ==
  ASSUME HeldBy(heaps, addedAt, QueuedIn(fate)), QueueSize(heaps) <= MaxSize
  PROVE  HeapsHoldTheQueued
<1> DEFINE At(r, p) == {i \in DOMAIN heaps[p] : heaps[p][i] = r}
           All(r) == UNION {{p} \X At(r, p) : p \in 1..4}
<1>1. ASSUME NEW p \in 1..4
      PROVE  /\ DOMAIN heaps[p] = Places(heaps[p])
             /\ \A i, j \in Places(heaps[p]) : heaps[p][i] = heaps[p][j] => i = j
             /\ \A r : r \in OfPriority(p, QueuedIn(fate)) <=> \E i \in Places(heaps[p]) : heaps[p][i] = r
  <2>1. Holds(heaps[p], OfPriority(p, QueuedIn(fate)))
    BY DEF HeldBy
  <2> DEFINE heap == heaps[p]
             S == OfPriority(p, QueuedIn(fate))
  <2>2. Holds(heap, S)
    BY <2>1
  <2> HIDE DEF heap, S
  <2>3. DOMAIN heap = Places(heap)
    BY <2>2, HeldAre
  <2>4. \A i, j \in Places(heap) : heap[i] = heap[j] => i = j
    BY <2>2 DEF Holds
  <2>5. \A r : r \in S <=> \E i \in Places(heap) : heap[i] = r
    BY <2>2 DEF Holds
  <2> QED
    BY <2>3, <2>4, <2>5 DEF heap, S
<1>2. ASSUME NEW r \in QueueRequests
      PROVE  Cardinality(All(r)) = IF fate[r] = "queued" THEN 1 ELSE 0
  <2>1. CASE fate[r] = "queued"
    <3> DEFINE p == PriorityOf[r]
    <3>1. p \in 1..4 /\ r \in OfPriority(p, QueuedIn(fate))
      BY <2>1, PrioritiesAre DEF OfPriority, QueuedIn
    <3>2. PICK i \in Places(heaps[p]) : heaps[p][i] = r
      BY <1>1, <3>1
    <3>3. \A q \in 1..4 : \A j \in At(r, q) : q = p /\ j = i
      <4> TAKE q \in 1..4
      <4> TAKE j \in At(r, q)
      <4>1. j \in Places(heaps[q]) /\ heaps[q][j] = r
        BY <1>1
      <4>2. q = p
        <5>1. r \in OfPriority(q, QueuedIn(fate))
          BY <1>1, <4>1
        <5> QED
          BY <5>1 DEF OfPriority
      <4> QED
        BY <1>1, <3>1, <3>2, <4>1, <4>2
    <3>4. i \in At(r, p)
      BY <1>1, <3>1, <3>2
    <3> HIDE DEF At, p
    <3>5. All(r) = {<<p, i>>}
      <4>1. ASSUME NEW u \in All(r) PROVE u = <<p, i>>
        <5>1. PICK q \in 1..4 : u \in {q} \X At(r, q)
          OBVIOUS
        <5> QED
          BY <3>3, <5>1
      <4>2. <<p, i>> \in All(r)
        <5>1. <<p, i>> \in {p} \X At(r, p)
          BY <3>4
        <5> QED
          BY <3>1, <5>1
      <4> HIDE DEF All
      <4> QED
        BY <4>1, <4>2
    <3> HIDE DEF All
    <3>6. Cardinality(All(r)) = 1
      BY <3>5, FS_Singleton
    <3> QED
      BY <2>1, <3>6
  <2>2. CASE fate[r] # "queued"
    <3>1. \A p \in 1..4 : At(r, p) = {}
      <4> TAKE p \in 1..4
      <4>1. r \notin OfPriority(p, QueuedIn(fate))
        BY <2>2 DEF OfPriority, QueuedIn
      <4> QED
        BY <1>1, <4>1
    <3> HIDE DEF At
    <3>2. All(r) = {}
      BY <3>1
    <3> HIDE DEF All
    <3>3. Cardinality(All(r)) = 0
      BY <3>2, FS_EmptySet
    <3> QED
      BY <2>2, <3>3
  <2> QED
    BY <2>1, <2>2
<1>3. \A r \in QueueRequests :
        Cardinality(UNION {{p} \X {i \in DOMAIN heaps[p] : heaps[p][i] = r} : p \in 1..4})
          = IF fate[r] = "queued" THEN 1 ELSE 0
  BY <1>2
<1> QED
  BY <1>3 DEF HeapsHoldTheQueued

LEMMA QueueImplied ==
  ASSUME QueueIInv
  PROVE  QueueInv
<1>1. /\ QueueShape /\ Holding(addedAt, heaps, fate, isProcessing) /\ LeftBehindByABatch
  BY DEF QueueIInv
<1>2. HeapsHoldTheQueued
  BY <1>1, HeapsHold DEF Holding
<1>3. OneBatch
  <2>1. InBatch = BatchIn(fate)
    BY DEF InBatch, BatchIn
  <2> QED
    BY <1>1, <2>1 DEF OneBatch, Holding
<1>4. QueueTypeOK
  <2>1. ASSUME NEW p \in 1..4 PROVE Range(heaps[p]) \subseteq {r \in QueueRequests : PriorityOf[r] = p}
    <3>1. Holds(heaps[p], OfPriority(p, QueuedIn(fate)))
      BY <1>1 DEF Holding, HeldBy
    <3>2. DOMAIN heaps[p] = Places(heaps[p]) /\ \A i \in Places(heaps[p]) : heaps[p][i] \in OfPriority(p, QueuedIn(fate))
      BY <3>1, HeldAre
    <3>3. OfPriority(p, QueuedIn(fate)) \subseteq {r \in QueueRequests : PriorityOf[r] = p}
      BY DEF OfPriority, QueuedIn
    <3> QED
      BY <3>2, <3>3 DEF Range
  <2> QED
    BY <1>1, <2>1 DEF QueueTypeOK, QueueShape, Holding
<1> QED
  BY <1>1, <1>2, <1>3, <1>4 DEF QueueInv

LEMMA QueueInitial == QueueInit => QueueIInv
<1> SUFFICES ASSUME QueueInit PROVE QueueIInv
  OBVIOUS
<1>1. QueueShape
  <2>1. 0 \in 0..Len(PriorityOf) /\ 0 \in Nat
    BY PrioritiesAre
  <2> QED
    BY <2>1 DEF QueueShape, QueueInit, Fates
<1>2. QueuedIn(fate) = {} /\ BatchIn(fate) = {}
  BY DEF QueuedIn, BatchIn, QueueInit
<1>3. HeldBy(heaps, addedAt, {})
  <2>1. <<>> \in Seq(QueueRequests) /\ Places(<<>>) = {}
    BY EmptySeq DEF Places
  <2>2. \A p \in 1..4 : heaps[p] = <<>> /\ OfPriority(p, {}) = {}
    BY DEF QueueInit, OfPriority
  <2>3. Holds(<<>>, {}) /\ Heaped(addedAt, <<>>)
    BY <2>1 DEF Holds, Heaped
  <2>4. heaps \in [1..4 -> Seq(QueueRequests)]
    BY <2>1 DEF QueueInit
  <2> QED
    BY <2>2, <2>3, <2>4 DEF HeldBy
<1>4. QueueSize(heaps) = 0
  <2>1. heaps \in [1..4 -> Seq(QueueRequests)] /\ \A p \in 1..4 : heaps[p] = <<>>
    BY <1>3 DEF HeldBy, QueueInit
  <2> QED
    BY <2>1, SizeIs
<1>5. Holding(addedAt, heaps, fate, isProcessing)
  <2>1. Cardinality({}) = 0 /\ 0 <= BatchSize /\ 0 <= MaxSize
    BY FS_EmptySet, QueueAssumption
  <2>2. isProcessing = FALSE
    BY DEF QueueInit
  <2> QED
    BY <1>2, <1>3, <1>4, <2>1, <2>2 DEF Holding
<1>6. LeftBehindByABatch
  BY <1>4 DEF LeftBehindByABatch
<1> QED
  BY <1>1, <1>5, <1>6 DEF QueueIInv

-----------------------------------------------------------------------------
(* The steps                                                               *)

LEMMA MovedAre ==
  ASSUME NEW f \in [QueueRequests -> Fates], NEW rs, NEW place \in Fates
  PROVE  /\ MoveAll(f, rs, place) \in [QueueRequests -> Fates]
         /\ \A r \in QueueRequests : MoveAll(f, rs, place)[r] = IF r \in rs THEN place ELSE f[r]
BY DEF MoveAll

\* A step takes some of what is queued into a batch, in their turn.
Moves(at, f, g) ==
  /\ g \in [QueueRequests -> Fates]
  /\ \A r \in QueueRequests : g[r] = f[r] \/ (f[r] = "queued" /\ g[r] = "batch")
  /\ \A r, q \in QueueRequests :
       f[r] = "queued" /\ g[r] = "batch" /\ g[q] = "queued" => ComesFirst(at, r, q)

LEMMA BatchIs ==
  ASSUME NEW at \in [QueueRequests -> Nat], NEW f \in [QueueRequests -> Fates],
         NEW hs, Holding(at, hs, f, FALSE),
         DequeueBatch(at, hs, BatchSize).requests # {}
  PROVE  LET b == DequeueBatch(at, hs, BatchSize)
             g == MoveAll(f, b.requests, "batch")
         IN Holding(at, b.heaps, g, TRUE) /\ Moves(at, f, g)
<1> DEFINE b == DequeueBatch(at, hs, BatchSize)
           rs == b.requests
           g == MoveAll(f, rs, "batch")
           Q == QueuedIn(f)
<1>1. /\ HeldBy(hs, at, Q) /\ QueueSize(hs) <= MaxSize /\ BatchIn(f) = {}
      /\ Q \in SUBSET QueueRequests /\ BatchSize \in Nat \ {0} /\ MaxSize \in Nat
      /\ hs \in [1..4 -> Seq(QueueRequests)]
  BY QueueAssumption DEF Holding, QueuedIn, HeldBy
<1>2. /\ Taken(at, b, Q) /\ IsFiniteSet(rs) /\ Cardinality(rs) <= BatchSize
      /\ QueueSize(b.heaps) <= QueueSize(hs) /\ rs # {}
  BY <1>1, DequeueBatchIs
<1>3. /\ rs \subseteq Q /\ HeldBy(b.heaps, at, Q \ rs) /\ b.heaps \in [1..4 -> Seq(QueueRequests)]
      /\ \A r \in rs : \A q \in Q \ rs : ComesFirst(at, r, q)
  BY <1>2 DEF Taken, HeldBy
<1>4. /\ g \in [QueueRequests -> Fates]
      /\ \A r \in QueueRequests : g[r] = IF r \in rs THEN "batch" ELSE f[r]
  BY MovedAre DEF Fates
<1>5. QueueSize(b.heaps) \in Nat /\ QueueSize(hs) \in Nat
  BY <1>1, <1>3, SizeIs
<1> HIDE DEF g, rs, b
<1>6. QueuedIn(g) = Q \ rs
  BY <1>3, <1>4 DEF QueuedIn
<1>7. BatchIn(g) = rs
  BY <1>1, <1>3, <1>4 DEF BatchIn, QueuedIn
<1>8. QueueSize(b.heaps) <= MaxSize
  BY <1>1, <1>2, <1>5
<1>9. Holding(at, b.heaps, g, TRUE)
  BY <1>2, <1>3, <1>6, <1>7, <1>8 DEF Holding
<1>10. Moves(at, f, g)
  <2>1. \A r \in QueueRequests : g[r] = f[r] \/ (f[r] = "queued" /\ g[r] = "batch")
    BY <1>3, <1>4 DEF QueuedIn
  <2>2. ASSUME NEW r \in QueueRequests, NEW q \in QueueRequests,
               f[r] = "queued", g[r] = "batch", g[q] = "queued"
        PROVE  ComesFirst(at, r, q)
    <3>1. r \in rs /\ q \in Q \ rs
      BY <1>4, <1>6, <2>2 DEF QueuedIn
    <3> QED
      BY <1>3, <3>1
  <2> QED
    BY <1>4, <2>1, <2>2 DEF Moves
<1> QED
  BY <1>9, <1>10 DEF g, rs, b

LEMMA ProcessBatchIs ==
  ASSUME NEW at \in [QueueRequests -> Nat], NEW f \in [QueueRequests -> Fates], NEW hs,
         Holding(at, hs, f, isProcessing), ProcessBatch(at, hs, f)
  PROVE  /\ Holding(at, heaps', fate', isProcessing') /\ Moves(at, f, fate')
         /\ QueueSize(heaps') # 0 => isProcessing'
<1> DEFINE b == DequeueBatch(at, hs, BatchSize)
<1>1. isProcessing \in BOOLEAN /\ HeldBy(hs, at, QueuedIn(f))
  BY DEF Holding
<1>2. CASE MayProcess /\ b.requests # {}
  <2>1. isProcessing = FALSE
    BY <1>1, <1>2 DEF MayProcess
  <2>2. Holding(at, hs, f, FALSE)
    BY <2>1
  <2>3. heaps' = b.heaps /\ fate' = MoveAll(f, b.requests, "batch") /\ isProcessing' = TRUE
    BY <1>2 DEF ProcessBatch
  <2>4. Holding(at, b.heaps, MoveAll(f, b.requests, "batch"), TRUE) /\ Moves(at, f, MoveAll(f, b.requests, "batch"))
    BY <1>2, <2>2, BatchIs
  <2> HIDE DEF b
  <2> QED
    BY <2>3, <2>4
<1>3. CASE ~(MayProcess /\ b.requests # {})
  <2>1. heaps' = hs /\ fate' = f /\ isProcessing' = isProcessing
    BY <1>3 DEF ProcessBatch
  <2>2. Moves(at, f, f)
    BY DEF Moves
  <2>3. QueueSize(hs) # 0 => isProcessing
    <3>1. QueuedIn(f) \in SUBSET QueueRequests
      BY DEF QueuedIn
    <3>2. QueueSize(hs) # 0 => b.requests # {}
      BY <1>1, <3>1, DequeueBatchIs, QueueAssumption
    <3> QED
      BY <1>3, <3>2 DEF MayProcess
  <2> QED
    BY <2>1, <2>2, <2>3
<1> QED
  BY <1>2, <1>3

LEMMA ScheduleBatchIs ==
  ASSUME NEW at \in [QueueRequests -> Nat], NEW f \in [QueueRequests -> Fates], NEW hs,
         Holding(at, hs, f, isProcessing), batchTimer \in BOOLEAN, ScheduleBatch(at, hs, f)
  PROVE  /\ Holding(at, heaps', fate', isProcessing') /\ Moves(at, f, fate')
         /\ batchTimer' \in BOOLEAN
         /\ QueueSize(heaps') # 0 => isProcessing' \/ batchTimer'
<1>1. CASE ~batchTimer /\ QueueSize(hs) >= BatchSize
  <2>1. ProcessBatch(at, hs, f) /\ batchTimer' = batchTimer
    BY <1>1 DEF ScheduleBatch
  <2> QED
    BY <2>1, ProcessBatchIs
<1>2. CASE ~(~batchTimer /\ QueueSize(hs) >= BatchSize)
  <2>1. heaps' = hs /\ fate' = f /\ batchTimer' = TRUE /\ isProcessing' = isProcessing
    BY <1>2 DEF ScheduleBatch
  <2>2. Moves(at, f, f)
    BY DEF Moves
  <2> QED
    BY <2>1, <2>2
<1> QED
  BY <1>1, <1>2

LEMMA InTurn ==
  ASSUME NEW f, Moves(addedAt', f, fate'),
         \A r \in QueueRequests : fate[r] \in {"new", "queued"} => f[r] \notin {"batch", "taken"}
  PROVE  LeavesInTurn
<1> SUFFICES ASSUME NEW r \in QueueRequests, NEW q \in QueueRequests,
                    fate[r] \in {"new", "queued"}, fate'[r] \in {"batch", "taken"}, fate'[q] = "queued"
             PROVE  ComesFirst(addedAt', r, q)
  BY DEF LeavesInTurn
<1>1. f[r] \notin {"batch", "taken"}
  OBVIOUS
<1>2. f[r] = "queued" /\ fate'[r] = "batch"
  BY <1>1 DEF Moves
<1> QED
  BY <1>2 DEF Moves

\* The time of a request that is not held makes no difference.
LEMMA HeldLater ==
  ASSUME NEW at \in [QueueRequests -> Nat], NEW Q \in SUBSET QueueRequests, NEW hs, HeldBy(hs, at, Q),
         NEW r \in QueueRequests \ Q, NEW now \in Nat
  PROVE  HeldBy(hs, [at EXCEPT ![r] = now], Q)
<1> DEFINE later == [at EXCEPT ![r] = now]
<1>0. later \in [QueueRequests -> Nat] /\ \A q \in QueueRequests : q # r => later[q] = at[q]
  OBVIOUS
<1> HIDE DEF later
<1>1. ASSUME NEW k \in 1..4
      PROVE  Holds(hs[k], OfPriority(k, Q)) /\ Heaped(later, hs[k])
  <2> DEFINE heap == hs[k]
             S == OfPriority(k, Q)
  <2>1. Holds(heap, S) /\ Heaped(at, heap)
    BY DEF HeldBy
  <2>2. S \subseteq Q
    BY DEF OfPriority
  <2> HIDE DEF heap, S
  <2>3. Len(heap) \in Nat /\ \A i \in Places(heap) : heap[i] \in QueueRequests /\ heap[i] # r
    BY <2>1, <2>2, HeldAre
  <2>4. ASSUME NEW i \in Places(heap), i > 1
        PROVE  later[heap[i \div 2]] <= later[heap[i]]
    <3>1. i \div 2 \in Places(heap)
      BY <2>3, <2>4 DEF Places
    <3>2. at[heap[i \div 2]] <= at[heap[i]]
      BY <2>1, <2>4 DEF Heaped
    <3> QED
      BY <1>0, <2>3, <3>1, <3>2
  <2>5. Heaped(later, heap)
    BY <2>4 DEF Heaped
  <2> QED
    BY <2>1, <2>5 DEF heap, S
<1> QED
  BY <1>1 DEF HeldBy, later

Pushed(at, hs, r) == [hs EXCEPT ![HeapOf(r)] = Push(at, @, r)]

\* A request that is accepted is held from then on.
LEMMA PushHolds ==
  ASSUME NEW at \in [QueueRequests -> Nat], NEW Q \in SUBSET QueueRequests, NEW hs, HeldBy(hs, at, Q),
         NEW r \in QueueRequests \ Q
  PROVE  LET gs == Pushed(at, hs, r) IN
         HeldBy(gs, at, Q \cup {r}) /\ QueueSize(gs) = QueueSize(hs) + 1
<1> DEFINE p == PriorityOf[r]
           g == Push(at, hs[p], r)
           gs == Pushed(at, hs, r)
<1>1. p \in 1..4 /\ hs \in [1..4 -> Seq(QueueRequests)]
  BY PrioritiesAre DEF HeldBy
<1>2. gs = [hs EXCEPT ![p] = g]
  BY DEF HeapOf, Pushed
<1>3. \A k \in 1..4 : Holds(hs[k], OfPriority(k, Q)) /\ Heaped(at, hs[k])
  BY DEF HeldBy
<1>4. r \notin OfPriority(p, Q)
  BY DEF OfPriority
<1>5. /\ Holds(g, OfPriority(p, Q) \cup {r}) /\ Len(g) = Len(hs[p]) + 1 /\ Heaped(at, g)
      /\ g \in Seq(QueueRequests)
  <2> DEFINE heap == hs[p]
             S == OfPriority(p, Q)
  <2>1. Holds(heap, S) /\ Heaped(at, heap) /\ r \in QueueRequests \ S
    BY <1>1, <1>3, <1>4
  <2> HIDE DEF heap, S, p
  <2>2. LET h == Push(at, heap, r) IN Holds(h, S \cup {r}) /\ Len(h) = Len(heap) + 1 /\ Heaped(at, h)
    BY <2>1, PushIs
  <2> QED
    BY <2>2 DEF Holds, heap, S
<1> HIDE DEF g, gs
<1>6. QueueSize(gs) = QueueSize(hs) + 1
  <2>1. Len(g) = Len(hs[p]) + 1 /\ 1 \in Int
    BY <1>5
  <2> HIDE DEF p
  <2> QED
    BY <1>1, <1>2, <1>5, <2>1, SizeFalls
<1>7. HeldBy(gs, at, Q \cup {r})
  <2>1. gs \in [1..4 -> Seq(QueueRequests)] /\ \A k \in 1..4 : gs[k] = IF k = p THEN g ELSE hs[k]
    BY <1>2, <1>1, <1>5
  <2>2. \A k \in 1..4 : OfPriority(k, Q \cup {r}) = IF k = p THEN OfPriority(k, Q) \cup {r} ELSE OfPriority(k, Q)
    BY DEF OfPriority
  <2> HIDE DEF p
  <2> QED
    BY <1>3, <1>5, <2>1, <2>2 DEF HeldBy
<1> QED
  BY <1>6, <1>7 DEF gs

LEMMA EnqueueKeeps ==
  ASSUME QueueIInv, Enqueue
  PROVE  QueueIInv' /\ LeavesInTurn
<1> DEFINE r == enqueued + 1
           at == [addedAt EXCEPT ![r] = clock]
<1>1. /\ addedAt \in [QueueRequests -> Nat] /\ clock \in Nat
      /\ enqueued \in 0..Len(PriorityOf) /\ fate \in [QueueRequests -> Fates]
      /\ batchTimer \in BOOLEAN /\ stopped \in BOOLEAN
      /\ \A q \in QueueRequests : q > enqueued => fate[q] = "new"
      /\ Holding(addedAt, heaps, fate, isProcessing) /\ LeftBehindByABatch
  BY DEF QueueIInv, QueueShape
<1>2. /\ enqueued < Len(PriorityOf) /\ enqueued' = r /\ addedAt' = at
      /\ clock' = clock /\ stopped' = stopped
  BY DEF Enqueue
<1>3. /\ r \in QueueRequests /\ fate[r] = "new" /\ r \in 0..Len(PriorityOf)
      /\ at \in [QueueRequests -> Nat] /\ \A q \in QueueRequests : q > r => q > enqueued
  BY <1>1, <1>2, PrioritiesAre
<1>4. /\ HeldBy(heaps, addedAt, QueuedIn(fate)) /\ QueueSize(heaps) <= MaxSize
      /\ isProcessing \in BOOLEAN /\ (isProcessing <=> BatchIn(fate) # {})
      /\ Cardinality(BatchIn(fate)) <= BatchSize
      /\ r \notin QueuedIn(fate) /\ QueuedIn(fate) \in SUBSET QueueRequests
      /\ heaps \in [1..4 -> Seq(QueueRequests)] /\ QueueSize(heaps) \in Nat /\ MaxSize \in Nat
  BY <1>1, <1>3, SizeIs, QueueAssumption DEF Holding, QueuedIn, HeldBy
<1> HIDE DEF r
<1>5. CASE IsFull
  <2>1. /\ fate' = [fate EXCEPT ![r] = "refused"] /\ heaps' = heaps
        /\ isProcessing' = isProcessing /\ batchTimer' = batchTimer
    BY <1>5 DEF Enqueue, r
  <2>2. /\ fate' \in [QueueRequests -> Fates] /\ fate'[r] = "refused"
        /\ \A q \in QueueRequests : q # r => fate'[q] = fate[q]
    BY <1>1, <1>3, <2>1 DEF Fates
  <2>3. QueuedIn(fate') = QueuedIn(fate) /\ BatchIn(fate') = BatchIn(fate)
    BY <1>3, <2>2 DEF QueuedIn, BatchIn
  <2>4. HeldBy(heaps, at, QueuedIn(fate))
    BY <1>1, <1>3, <1>4, HeldLater
  <2>5. Holding(addedAt', heaps', fate', isProcessing')
    BY <1>2, <1>4, <2>1, <2>3, <2>4 DEF Holding
  <2>6. QueueShape'
    BY <1>1, <1>2, <1>3, <2>1, <2>2 DEF QueueShape
  <2>7. LeftBehindByABatch'
    BY <1>1, <1>2, <1>3, <2>1, <2>2 DEF LeftBehindByABatch
  <2>8. LeavesInTurn
    BY <1>3, <2>2 DEF LeavesInTurn
  <2> QED
    BY <2>5, <2>6, <2>7, <2>8 DEF QueueIInv
<1>6. CASE ~IsFull
  <2> DEFINE gs == [heaps EXCEPT ![HeapOf(r)] = Push(at, @, r)]
             f == [fate EXCEPT ![r] = "queued"]
  <2>1. ScheduleBatch(at, gs, f)
    BY <1>6 DEF Enqueue, r
  <2>2. HeldBy(gs, at, QueuedIn(fate) \cup {r}) /\ QueueSize(gs) = QueueSize(heaps) + 1
    <3> DEFINE Q == QueuedIn(fate)
    <3>1. r \in QueueRequests \ Q /\ HeldBy(heaps, addedAt, Q) /\ Q \in SUBSET QueueRequests
      BY <1>3, <1>4
    <3>2. gs = Pushed(at, heaps, r)
      BY DEF Pushed
    <3>3. HeldBy(heaps, at, Q)
      BY <1>1, <3>1, HeldLater
    <3> HIDE DEF Q, gs, at
    <3>4. HeldBy(gs, at, Q \cup {r}) /\ QueueSize(gs) = QueueSize(heaps) + 1
      BY <1>3, <3>1, <3>2, <3>3, PushHolds
    <3> QED
      BY <3>4 DEF Q
  <2>3. /\ f \in [QueueRequests -> Fates] /\ f[r] = "queued"
        /\ \A q \in QueueRequests : q # r => f[q] = fate[q]
    BY <1>1, <1>3 DEF Fates
  <2> HIDE DEF gs, f
  <2>4. QueuedIn(f) = QueuedIn(fate) \cup {r} /\ BatchIn(f) = BatchIn(fate)
    BY <1>3, <2>3 DEF QueuedIn, BatchIn
  <2>5. QueueSize(gs) <= MaxSize
    BY <1>4, <1>6, <2>2 DEF IsFull
  <2>6. Holding(at, gs, f, isProcessing)
    BY <1>4, <2>2, <2>4, <2>5 DEF Holding
  <2>7. /\ Holding(at, heaps', fate', isProcessing') /\ Moves(at, f, fate')
        /\ batchTimer' \in BOOLEAN /\ (QueueSize(heaps') # 0 => isProcessing' \/ batchTimer')
    BY <1>1, <1>3, <2>1, <2>3, <2>6, ScheduleBatchIs
  <2> HIDE DEF at
  <2>8. QueueShape'
    <3>1. \A q \in QueueRequests : q > r => fate'[q] = "new"
      <4> TAKE q \in QueueRequests
      <4> HAVE q > r
      <4>1. q # r /\ fate[q] = "new"
        BY <1>1, <1>3 DEF r
      <4>2. f[q] = "new"
        BY <2>3, <4>1
      <4> QED
        BY <2>7, <4>2 DEF Moves
    <3> QED
      BY <1>1, <1>2, <1>3, <2>7, <3>1 DEF QueueShape, Moves
  <2>9. LeftBehindByABatch'
    BY <2>7 DEF LeftBehindByABatch
  <2>10. LeavesInTurn
    <3>1. \A q \in QueueRequests : fate[q] \in {"new", "queued"} => f[q] \notin {"batch", "taken"}
      BY <2>3
    <3> QED
      BY <1>2, <2>7, <3>1, InTurn
  <2> QED
    BY <1>2, <2>7, <2>8, <2>9, <2>10 DEF QueueIInv
<1> QED
  BY <1>5, <1>6

\* What the invariant says of the state a step begins in.
Begins ==
  /\ addedAt \in [QueueRequests -> Nat] /\ clock \in Nat
  /\ enqueued \in 0..Len(PriorityOf) /\ fate \in [QueueRequests -> Fates]
  /\ batchTimer \in BOOLEAN /\ stopped \in BOOLEAN /\ isProcessing \in BOOLEAN
  /\ \A r \in QueueRequests : r > enqueued => fate[r] = "new"
  /\ HeldBy(heaps, addedAt, QueuedIn(fate)) /\ QueueSize(heaps) <= MaxSize
  /\ isProcessing <=> BatchIn(fate) # {}
  /\ Cardinality(BatchIn(fate)) <= BatchSize
  /\ QueuedIn(fate) \in SUBSET QueueRequests
  /\ heaps \in [1..4 -> Seq(QueueRequests)] /\ QueueSize(heaps) \in Nat /\ MaxSize \in Nat
  /\ LeftBehindByABatch

LEMMA QueueBegins ==
  ASSUME QueueIInv
  PROVE  Begins
<1>1. /\ QueueShape /\ Holding(addedAt, heaps, fate, isProcessing) /\ LeftBehindByABatch
  BY DEF QueueIInv
<1>2. QueuedIn(fate) \in SUBSET QueueRequests /\ MaxSize \in Nat
  BY QueueAssumption DEF QueuedIn
<1>3. heaps \in [1..4 -> Seq(QueueRequests)] /\ QueueSize(heaps) \in Nat
  BY <1>1, SizeIs DEF Holding, HeldBy
<1> QED
  BY <1>1, <1>2, <1>3 DEF QueueShape, Holding, Begins

LEMMA TakeOneKeeps ==
  ASSUME QueueIInv, TakeOne
  PROVE  QueueIInv' /\ LeavesInTurn
<1> DEFINE d == Dequeue(addedAt, heaps)
           r == d.request
<1>1. Begins
  BY QueueBegins
<1>2. /\ QueueSize(heaps) > 0 /\ heaps' = d.heaps /\ fate' = [fate EXCEPT ![r] = "taken"]
      /\ addedAt' = addedAt /\ clock' = clock /\ enqueued' = enqueued /\ isProcessing' = isProcessing
      /\ batchTimer' = batchTimer /\ stopped' = stopped
  BY DEF TakeOne
<1>3. /\ r \in QueuedIn(fate) /\ HeldBy(d.heaps, addedAt, QueuedIn(fate) \ {r})
      /\ QueueSize(d.heaps) = QueueSize(heaps) - 1
      /\ \A q \in QueuedIn(fate) : ComesFirst(addedAt, r, q)
  <2> DEFINE Q == QueuedIn(fate)
  <2>1. /\ addedAt \in [QueueRequests -> Nat] /\ Q \in SUBSET QueueRequests
        /\ HeldBy(heaps, addedAt, Q) /\ QueueSize(heaps) # 0
    BY <1>1, <1>2 DEF Begins
  <2> HIDE DEF Q
  <2>2. /\ r \in Q /\ HeldBy(d.heaps, addedAt, Q \ {r})
        /\ QueueSize(d.heaps) = QueueSize(heaps) - 1
        /\ \A q \in Q : ComesFirst(addedAt, r, q)
    BY <2>1, DequeueIs
  <2> HIDE DEF d
  <2> QED
    BY <2>2 DEF Q
<1> HIDE DEF d, r
<1>4. r \in QueueRequests /\ fate[r] = "queued"
  BY <1>3 DEF QueuedIn
<1>5. /\ fate' \in [QueueRequests -> Fates] /\ fate'[r] = "taken"
      /\ \A q \in QueueRequests : q # r => fate'[q] = fate[q]
  BY <1>1, <1>2, <1>4 DEF Fates, Begins
<1>6. QueuedIn(fate') = QueuedIn(fate) \ {r} /\ BatchIn(fate') = BatchIn(fate)
  BY <1>4, <1>5 DEF QueuedIn, BatchIn
<1>7. Holding(addedAt', heaps', fate', isProcessing')
  <2>1. QueueSize(heaps') <= MaxSize
    BY <1>1, <1>2, <1>3 DEF Begins
  <2> QED
    BY <1>1, <1>2, <1>3, <1>6, <2>1 DEF Holding, Begins
<1>8. QueueShape'
  BY <1>1, <1>2, <1>4, <1>5 DEF QueueShape, Begins
<1>9. LeftBehindByABatch'
  <2> SUFFICES ASSUME QueueSize(heaps') > 0, ~batchTimer', ~isProcessing', ~stopped'
               PROVE  \E q \in QueueRequests : fate'[q] \in {"done", "dropped", "failed"}
    BY DEF LeftBehindByABatch
  <2>1. \E q \in QueueRequests : fate[q] \in {"done", "dropped", "failed"}
    BY <1>1, <1>2 DEF LeftBehindByABatch, Begins
  <2> QED
    BY <1>4, <1>5, <2>1
<1>10. LeavesInTurn
  <2> SUFFICES ASSUME NEW p \in QueueRequests, NEW q \in QueueRequests,
                      fate[p] \in {"new", "queued"}, fate'[p] \in {"batch", "taken"}, fate'[q] = "queued"
               PROVE  ComesFirst(addedAt', p, q)
    BY DEF LeavesInTurn
  <2>1. p = r /\ q \in QueuedIn(fate)
    BY <1>5 DEF QueuedIn
  <2> QED
    BY <1>2, <1>3, <2>1
<1> QED
  BY <1>7, <1>8, <1>9, <1>10 DEF QueueIInv

\* A batch that a timer or start may take keeps the invariant.
LEMMA Scheduled ==
  ASSUME Begins, Moves(addedAt, fate, fate'), Holding(addedAt, heaps', fate', isProcessing'),
         batchTimer' \in BOOLEAN, QueueSize(heaps') # 0 => isProcessing' \/ batchTimer',
         addedAt' = addedAt, clock' = clock, enqueued' = enqueued, stopped' = stopped
  PROVE  QueueIInv' /\ LeavesInTurn
<1>1. QueueShape'
  BY DEF QueueShape, Begins, Moves
<1>2. LeftBehindByABatch'
  BY DEF LeftBehindByABatch
<1>3. LeavesInTurn
  <2>1. Moves(addedAt', fate, fate')
    OBVIOUS
  <2>2. \A r \in QueueRequests : fate[r] \in {"new", "queued"} => fate[r] \notin {"batch", "taken"}
    OBVIOUS
  <2> QED
    BY <2>1, <2>2, InTurn
<1>4. Holding(addedAt', heaps', fate', isProcessing')
  OBVIOUS
<1> QED
  BY <1>1, <1>2, <1>3, <1>4 DEF QueueIInv

LEMMA TimerKeeps ==
  ASSUME QueueIInv, BatchTimerFires
  PROVE  QueueIInv' /\ LeavesInTurn
<1>1. Begins /\ Holding(addedAt, heaps, fate, isProcessing)
  BY QueueBegins DEF QueueIInv
<1>2. /\ batchTimer' = FALSE /\ ProcessBatch(addedAt, heaps, fate)
      /\ addedAt' = addedAt /\ clock' = clock /\ enqueued' = enqueued /\ stopped' = stopped
  BY DEF BatchTimerFires
<1>3. addedAt \in [QueueRequests -> Nat] /\ fate \in [QueueRequests -> Fates]
  BY <1>1 DEF Begins
<1>4. /\ Holding(addedAt, heaps', fate', isProcessing') /\ Moves(addedAt, fate, fate')
      /\ QueueSize(heaps') # 0 => isProcessing'
  BY <1>1, <1>2, <1>3, ProcessBatchIs
<1> QED
  BY <1>1, <1>2, <1>4, Scheduled

LEMMA StartKeeps ==
  ASSUME QueueIInv, StartQueue
  PROVE  QueueIInv' /\ LeavesInTurn
<1>1. Begins /\ Holding(addedAt, heaps, fate, isProcessing)
  BY QueueBegins DEF QueueIInv
<1>2. /\ ScheduleBatch(addedAt, heaps, fate)
      /\ addedAt' = addedAt /\ clock' = clock /\ enqueued' = enqueued /\ stopped' = stopped
  BY DEF StartQueue
<1>3. addedAt \in [QueueRequests -> Nat] /\ fate \in [QueueRequests -> Fates] /\ batchTimer \in BOOLEAN
  BY <1>1 DEF Begins
<1>4. /\ Holding(addedAt, heaps', fate', isProcessing') /\ Moves(addedAt, fate, fate')
      /\ batchTimer' \in BOOLEAN /\ (QueueSize(heaps') # 0 => isProcessing' \/ batchTimer')
  BY <1>1, <1>2, <1>3, ScheduleBatchIs
<1> QED
  BY <1>1, <1>2, <1>4, Scheduled

LEMMA BatchEnds ==
  ASSUME QueueIInv, isProcessing, fate' \in [QueueRequests -> Fates],
         \A r \in QueueRequests : IF fate[r] = "batch" THEN fate'[r] \in {"done", "dropped", "failed"}
                                                       ELSE fate'[r] = fate[r],
         isProcessing' = FALSE,
         UNCHANGED <<heaps, addedAt, clock, enqueued, batchTimer, stopped>>
  PROVE  QueueIInv' /\ LeavesInTurn
<1>1. Begins
  BY QueueBegins
<1>2. QueuedIn(fate') = QueuedIn(fate) /\ BatchIn(fate') = {}
  BY DEF QueuedIn, BatchIn
<1>3. Cardinality(BatchIn(fate')) = 0 /\ BatchSize \in Nat \ {0}
  BY <1>2, FS_EmptySet, QueueAssumption
<1>4. Holding(addedAt', heaps', fate', isProcessing')
  <2>1. Cardinality(BatchIn(fate')) <= BatchSize
    BY <1>3
  <2>2. isProcessing' \in BOOLEAN /\ (isProcessing' <=> BatchIn(fate') # {})
    BY <1>2
  <2>3. HeldBy(heaps', addedAt', QueuedIn(fate')) /\ QueueSize(heaps') <= MaxSize
    BY <1>1, <1>2 DEF Begins
  <2> QED
    BY <2>1, <2>2, <2>3 DEF Holding
<1>5. QueueShape'
  BY <1>1 DEF QueueShape, Begins
<1>6. LeftBehindByABatch'
  <2>1. PICK r \in QueueRequests : fate[r] = "batch"
    BY <1>1 DEF Begins, BatchIn
  <2>2. fate'[r] \in {"done", "dropped", "failed"}
    BY <2>1
  <2> QED
    BY <2>2 DEF LeftBehindByABatch
<1>7. LeavesInTurn
  BY DEF LeavesInTurn
<1> QED
  BY <1>4, <1>5, <1>6, <1>7 DEF QueueIInv

LEMMA BatchReturnsKeeps ==
  ASSUME QueueIInv, BatchReturns \/ BatchThrows
  PROVE  QueueIInv' /\ LeavesInTurn
<1>1. fate \in [QueueRequests -> Fates] /\ \A r \in QueueRequests : r \in InBatch <=> fate[r] = "batch"
  BY DEF QueueIInv, QueueShape, InBatch
<1>2. /\ isProcessing /\ isProcessing' = FALSE
      /\ UNCHANGED <<heaps, addedAt, clock, enqueued, batchTimer, stopped>>
  BY DEF BatchReturns, BatchThrows
<1>3. CASE BatchThrows
  <2>1. fate' = MoveAll(fate, InBatch, "failed")
    BY <1>3 DEF BatchThrows
  <2>2. /\ fate' \in [QueueRequests -> Fates]
        /\ \A r \in QueueRequests : fate'[r] = IF r \in InBatch THEN "failed" ELSE fate[r]
    BY <1>1, <2>1, MovedAre DEF Fates
  <2> QED
    BY <1>1, <1>2, <2>2, BatchEnds
<1>4. CASE BatchReturns
  <2>1. PICK failed \in SUBSET InBatch :
          fate' = MoveAll(MoveAll(fate, InBatch, "done"), failed, "dropped")
    BY <1>4 DEF BatchReturns
  <2> DEFINE done == MoveAll(fate, InBatch, "done")
  <2>2. /\ done \in [QueueRequests -> Fates]
        /\ \A r \in QueueRequests : done[r] = IF r \in InBatch THEN "done" ELSE fate[r]
    BY <1>1, MovedAre DEF Fates
  <2> HIDE DEF done
  <2>3. /\ MoveAll(done, failed, "dropped") \in [QueueRequests -> Fates]
        /\ \A r \in QueueRequests : MoveAll(done, failed, "dropped")[r] = IF r \in failed THEN "dropped" ELSE done[r]
    BY <2>2, MovedAre DEF Fates
  <2>4. fate' = MoveAll(done, failed, "dropped")
    BY <2>1 DEF done
  <2>5. \A r \in QueueRequests : IF fate[r] = "batch" THEN fate'[r] \in {"done", "dropped", "failed"}
                                                      ELSE fate'[r] = fate[r]
    BY <1>1, <2>2, <2>3, <2>4
  <2> QED
    BY <1>2, <2>3, <2>4, <2>5, BatchEnds
<1> QED
  BY <1>3, <1>4

LEMMA NothingIsHeld ==
  ASSUME NEW at
  PROVE  /\ HeldBy([p \in 1..4 |-> <<>>], at, {})
         /\ QueueSize([p \in 1..4 |-> <<>>]) = 0
<1>1. <<>> \in Seq(QueueRequests) /\ Places(<<>>) = {} /\ Len(<<>>) = 0
  BY EmptySeq DEF Places
<1>2. Holds(<<>>, {}) /\ Heaped(at, <<>>)
  BY <1>1 DEF Holds, Heaped
<1>3. \A p \in 1..4 : OfPriority(p, {}) = {}
  BY DEF OfPriority
<1> DEFINE hs == [p \in 1..4 |-> <<>>]
<1>4. hs \in [1..4 -> Seq(QueueRequests)] /\ \A p \in 1..4 : hs[p] = <<>>
  BY <1>1
<1> HIDE DEF hs
<1>5. HeldBy(hs, at, {})
  BY <1>2, <1>3, <1>4 DEF HeldBy
<1>6. QueueSize(hs) = 0
  BY <1>4, SizeIs
<1> QED
  BY <1>5, <1>6 DEF hs

LEMMA ClearKeeps ==
  ASSUME QueueIInv, ClearQueue
  PROVE  QueueIInv' /\ LeavesInTurn
<1> DEFINE rs == {r \in QueueRequests : fate[r] = "queued"}
<1>1. Begins
  BY QueueBegins
<1>2. /\ heaps' = [p \in 1..4 |-> <<>>] /\ fate' = MoveAll(fate, rs, "cleared") /\ stopped' = TRUE
      /\ addedAt' = addedAt /\ clock' = clock /\ enqueued' = enqueued
      /\ isProcessing' = isProcessing /\ batchTimer' = batchTimer
  BY DEF ClearQueue
<1>3. /\ fate' \in [QueueRequests -> Fates]
      /\ \A r \in QueueRequests : fate'[r] = IF fate[r] = "queued" THEN "cleared" ELSE fate[r]
  <2> HIDE DEF rs
  <2>1. /\ fate' \in [QueueRequests -> Fates]
        /\ \A r \in QueueRequests : fate'[r] = IF r \in rs THEN "cleared" ELSE fate[r]
    <3>1. fate \in [QueueRequests -> Fates] /\ "cleared" \in Fates
      BY <1>1 DEF Fates, Begins
    <3> QED
      BY <1>2, <3>1, MovedAre
  <2> QED
    BY <2>1 DEF rs
<1> HIDE DEF rs
<1>4. QueuedIn(fate') = {} /\ BatchIn(fate') = BatchIn(fate)
  BY <1>3 DEF QueuedIn, BatchIn
<1>5. HeldBy(heaps', addedAt', {}) /\ QueueSize(heaps') = 0
  BY <1>2, NothingIsHeld
<1>6. QueueSize(heaps') <= MaxSize
  BY <1>1, <1>5 DEF Begins
<1>7. Holding(addedAt', heaps', fate', isProcessing')
  BY <1>1, <1>2, <1>4, <1>5, <1>6 DEF Holding, Begins
<1>8. QueueShape'
  BY <1>1, <1>2, <1>3 DEF QueueShape, Begins
<1>9. LeftBehindByABatch'
  BY <1>2 DEF LeftBehindByABatch
<1>10. LeavesInTurn
  BY <1>3 DEF LeavesInTurn
<1> QED
  BY <1>7, <1>8, <1>9, <1>10 DEF QueueIInv

LEMMA StopKeeps ==
  ASSUME QueueIInv, StopQueue
  PROVE  QueueIInv' /\ LeavesInTurn
<1>1. /\ batchTimer' = FALSE /\ stopped' = TRUE
      /\ heaps' = heaps /\ addedAt' = addedAt /\ clock' = clock /\ enqueued' = enqueued
      /\ fate' = fate /\ isProcessing' = isProcessing
  BY DEF StopQueue
<1>2. QueueShape /\ Holding(addedAt, heaps, fate, isProcessing)
  BY DEF QueueIInv
<1>3. QueueShape'
  BY <1>1, <1>2 DEF QueueShape
<1>4. Holding(addedAt', heaps', fate', isProcessing')
  BY <1>1, <1>2
<1>5. LeftBehindByABatch'
  BY <1>1 DEF LeftBehindByABatch
<1>6. LeavesInTurn
  BY <1>1 DEF LeavesInTurn
<1> QED
  BY <1>3, <1>4, <1>5, <1>6 DEF QueueIInv

LEMMA ClockKeeps ==
  ASSUME QueueIInv, MillisecondPasses \/ UNCHANGED queueVars
  PROVE  QueueIInv' /\ LeavesInTurn
<1>1. QueueShape /\ Holding(addedAt, heaps, fate, isProcessing) /\ LeftBehindByABatch
  BY DEF QueueIInv
<1>2. /\ heaps' = heaps /\ addedAt' = addedAt /\ enqueued' = enqueued /\ fate' = fate
      /\ isProcessing' = isProcessing /\ batchTimer' = batchTimer /\ stopped' = stopped
      /\ clock' = clock \/ clock' = clock + 1
  BY DEF MillisecondPasses, queueVars
<1>3. QueueShape'
  BY <1>1, <1>2 DEF QueueShape
<1>4. Holding(addedAt', heaps', fate', isProcessing')
  BY <1>1, <1>2
<1>5. LeftBehindByABatch'
  BY <1>1, <1>2 DEF LeftBehindByABatch
<1>6. LeavesInTurn
  BY <1>2 DEF LeavesInTurn
<1> QED
  BY <1>3, <1>4, <1>5, <1>6 DEF QueueIInv

LEMMA QueueStep ==
  ASSUME QueueIInv, [QueueNext]_queueVars
  PROVE  QueueIInv' /\ LeavesInTurn
<1>1. CASE Enqueue
  BY <1>1, EnqueueKeeps
<1>2. CASE TakeOne
  BY <1>2, TakeOneKeeps
<1>3. CASE BatchTimerFires
  BY <1>3, TimerKeeps
<1>4. CASE BatchReturns \/ BatchThrows
  BY <1>4, BatchReturnsKeeps
<1>5. CASE StartQueue
  BY <1>5, StartKeeps
<1>6. CASE StopQueue
  BY <1>6, StopKeeps
<1>7. CASE ClearQueue
  BY <1>7, ClearKeeps
<1>8. CASE MillisecondPasses \/ UNCHANGED queueVars
  BY <1>8, ClockKeeps
<1> QED
  BY <1>1, <1>2, <1>3, <1>4, <1>5, <1>6, <1>7, <1>8 DEF QueueNext

\* The queue keeps its promises, whatever the priorities, the limit and the
\* size of a batch: every accepted request is in one heap, once, until a
\* batch, a caller or clear takes it; no more than one batch is out, and none
\* is larger than a batch may be; what waits for nothing was left by a batch.
THEOREM QueueInvariance == QueueSpec => []QueueInv
<1>1. QueueInit => QueueIInv
  BY QueueInitial
<1>2. QueueIInv /\ [QueueNext]_queueVars => QueueIInv'
  BY QueueStep
<1>3. QueueIInv => QueueInv
  BY QueueImplied
<1> QED
  BY <1>1, <1>2, <1>3, PTL DEF QueueSpec

\* Nothing that leaves the queue, alone or in a batch, is less urgent than
\* what stays, or came later than what stays of its priority.
THEOREM UrgentLeaveFirst == QueueSpec => UrgentFirst
<1>1. QueueInit => QueueIInv
  BY QueueInitial
<1>2. QueueIInv /\ [QueueNext]_queueVars => QueueIInv'
  BY QueueStep
<1>3. QueueIInv /\ [QueueNext]_queueVars => [LeavesInTurn]_queueVars
  BY QueueStep
<1> QED
  BY <1>1, <1>2, <1>3, PTL DEF QueueSpec, UrgentFirst
==============================================================================
