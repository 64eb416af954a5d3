---------------------------- MODULE RelayProofs ----------------------------
(***************************************************************************)
(* Proofs about Relay for any keys, connections, queue limit and number of *)
(* messages: the inductive invariant RelayInv, and that the relay          *)
(* implements Mailbox.                                                     *)
(***************************************************************************)
EXTENDS Relay, SequenceLemmas, SequenceTheorems, FiniteSetTheorems, TLAPS

-----------------------------------------------------------------------------
(* Queues                                                                  *)

\* A queue as the relay keeps it, apart from its agent
OrderedQueue(q) ==
  /\ q \in Seq(Entry)
  /\ \A i, j \in DOMAIN q : i < j => q[i].id < q[j].id
  /\ \A i, j \in DOMAIN q : i < j /\ q[j].delivered => q[i].delivered

\* What waits in a queue is a set of message identities.
LEMMA WaitingType ==
  ASSUME NEW q \in Seq(Entry)
  PROVE  Waiting(q) \in SUBSET MsgIds
<1>1. \A i \in DOMAIN q : q[i] \in Entry
  BY LenProperties, ElementOfSeq
<1>2. \A i \in DOMAIN q : q[i].id \in MsgIds
  BY <1>1 DEF Entry
<1>3. QED
  BY <1>2 DEF Waiting

\* Marking keeps the entries and their order, and leaves nothing waiting.
LEMMA MarkDeliveredProperties ==
  ASSUME NEW q \in Seq(Entry)
  PROVE  /\ MarkDelivered(q) \in Seq(Entry)
         /\ Len(MarkDelivered(q)) = Len(q)
         /\ \A i \in 1..Len(q) : /\ MarkDelivered(q)[i].id = q[i].id
                                 /\ MarkDelivered(q)[i].delivered
<1>1. DOMAIN q = 1..Len(q) /\ Len(q) \in Nat
  BY LenProperties
<1>2. \A i \in 1..Len(q) : q[i] \in Entry
  BY <1>1, ElementOfSeq
<1>3. \A i \in 1..Len(q) : /\ [q[i] EXCEPT !.delivered = TRUE] \in Entry
                           /\ [q[i] EXCEPT !.delivered = TRUE].id = q[i].id
                           /\ [q[i] EXCEPT !.delivered = TRUE].delivered
  BY <1>2 DEF Entry
<1>4. MarkDelivered(q) = [i \in 1..Len(q) |-> [q[i] EXCEPT !.delivered = TRUE]]
  BY <1>1 DEF MarkDelivered
<1>5. MarkDelivered(q) \in [1..Len(q) -> Entry]
  BY <1>3, <1>4
<1>6. MarkDelivered(q) \in Seq(Entry) /\ Len(MarkDelivered(q)) = Len(q)
  BY <1>1, <1>5
<1>7. QED
  BY <1>3, <1>4, <1>6

\* The entries cleanupQueue keeps are a suffix of the queue: as many fewer as
\* are delivered and old.
LEMMA CleanupIsRest ==
  ASSUME NEW q \in Seq(Entry)
  PROVE  LET k == Cardinality({i \in DOMAIN q : q[i].delivered /\ q[i].id <= horizon}) IN
         /\ k \in 0..Len(q)
         /\ Cleanup(q) \in Seq(Entry)
         /\ Len(Cleanup(q)) = Len(q) - k
         /\ \A i \in 1..(Len(q) - k) : Cleanup(q)[i] = q[i + k]
<1> DEFINE purged == {i \in DOMAIN q : q[i].delivered /\ q[i].id <= horizon}
           k == Cardinality(purged)
<1>1. DOMAIN q = 1..Len(q) /\ Len(q) \in Nat
  BY LenProperties
<1>2. IsFiniteSet(1..Len(q)) /\ Cardinality(1..Len(q)) = Len(q)
  BY <1>1, FS_Interval
<1>3. purged \in SUBSET (1..Len(q))
  BY <1>1
<1>4. IsFiniteSet(purged) /\ k <= Len(q)
  BY <1>2, <1>3, FS_Subset
<1>5. k \in 0..Len(q)
  BY <1>1, <1>4, FS_CardinalityType
<1>6. Cleanup(q) = SubSeq(q, k + 1, Len(q))
  BY DEF Cleanup
<1> HIDE DEF k
<1>7. \A i \in (k + 1)..Len(q) : q[i] \in Entry
  BY <1>1, <1>5
<1>8. /\ SubSeq(q, k + 1, Len(q)) \in Seq(Entry)
      /\ Len(SubSeq(q, k + 1, Len(q))) =
           IF k + 1 <= Len(q) THEN Len(q) - (k + 1) + 1 ELSE 0
      /\ \A i \in 1..(Len(q) - (k + 1) + 1) :
           SubSeq(q, k + 1, Len(q))[i] = q[(k + 1) + i - 1]
  BY <1>1, <1>5, <1>7, SubSeqProperties
<1>9. /\ Cleanup(q) \in Seq(Entry)
      /\ Len(Cleanup(q)) = Len(q) - k
      /\ \A i \in 1..(Len(q) - k) : Cleanup(q)[i] = q[i + k]
  <2> DEFINE c == Cleanup(q)
  <2>1. c \in Seq(Entry) /\ Len(c) = Len(q) - k
    <3>1. Len(q) \in Nat /\ k \in Nat /\ k <= Len(q)
      BY <1>1, <1>5
    <3>2. (IF k + 1 <= Len(q) THEN Len(q) - (k + 1) + 1 ELSE 0) = Len(q) - k
      BY <3>1
    <3>3. QED
      BY <1>6, <1>8, <3>2
  <2>2. ASSUME NEW i \in 1..(Len(q) - k) PROVE c[i] = q[i + k]
    <3>1. i \in 1..(Len(q) - (k + 1) + 1) /\ (k + 1) + i - 1 = i + k
      BY <1>1, <1>5
    <3>2. QED
      BY <1>6, <1>8, <3>1
  <2>3. QED
    BY <2>1, <2>2
<1>10. QED
  BY <1>5, <1>9 DEF k

LEMMA CleanupProperties ==
  ASSUME NEW q \in Seq(Entry)
  PROVE  \E k \in 0..Len(q) :
           /\ Cleanup(q) \in Seq(Entry)
           /\ Len(Cleanup(q)) = Len(q) - k
           /\ \A i \in 1..(Len(q) - k) : Cleanup(q)[i] = q[i + k]
BY CleanupIsRest

\* Sending a queue leaves an ordered part of it, in which nothing waits.
LEMMA DeliveredQueue ==
  ASSUME NEW q, OrderedQueue(q)
  PROVE  LET r == Cleanup(MarkDelivered(q)) IN
         /\ OrderedQueue(r)
         /\ Len(r) <= Len(q)
         /\ Waiting(r) = {}
         /\ \A i \in DOMAIN r : \E j \in DOMAIN q : r[i].id = q[j].id
<1> DEFINE m == MarkDelivered(q)
           r == Cleanup(m)
<1>1. q \in Seq(Entry) /\ DOMAIN q = 1..Len(q) /\ Len(q) \in Nat
  BY LenProperties DEF OrderedQueue
<1>2. /\ m \in Seq(Entry) /\ Len(m) = Len(q)
      /\ \A i \in 1..Len(q) : m[i].id = q[i].id /\ m[i].delivered
  BY <1>1, MarkDeliveredProperties
<1> HIDE DEF m
<1>3. PICK k \in 0..Len(m) :
           /\ r \in Seq(Entry)
           /\ Len(r) = Len(m) - k
           /\ \A i \in 1..(Len(m) - k) : r[i] = m[i + k]
  BY <1>2, CleanupProperties
<1> HIDE DEF r
<1>4. DOMAIN r = 1..(Len(q) - k)
  BY <1>2, <1>3, LenProperties
<1>5. \A i \in DOMAIN r : i + k \in DOMAIN q /\ r[i].id = q[i + k].id /\ r[i].delivered
  BY <1>1, <1>2, <1>3, <1>4
<1>6. Waiting(r) = {}
  BY <1>5 DEF Waiting
<1>7. \A i, j \in DOMAIN r : i < j => r[i].id < r[j].id
  <2> SUFFICES ASSUME NEW i \in DOMAIN r, NEW j \in DOMAIN r, i < j
               PROVE  r[i].id < r[j].id
    OBVIOUS
  <2>1. i + k < j + k
    BY <1>1, <1>2, <1>3, <1>4
  <2>2. QED
    BY <1>5, <2>1 DEF OrderedQueue
<1>8. OrderedQueue(r)
  BY <1>3, <1>5, <1>7 DEF OrderedQueue
<1>9. QED
  BY <1>1, <1>2, <1>3, <1>5, <1>6, <1>8 DEF r, m

\* Queueing a message keeps the order and makes just that message wait.
LEMMA AppendedQueue ==
  ASSUME NEW q, OrderedQueue(q), NEW n \in MsgIds,
         \A i \in DOMAIN q : q[i].id < n
  PROVE  LET r == Append(q, [id |-> n, delivered |-> FALSE]) IN
         /\ OrderedQueue(r)
         /\ Len(r) = Len(q) + 1
         /\ r # <<>>
         /\ Waiting(r) = Waiting(q) \cup {n}
         /\ \A i \in DOMAIN r : r[i].id <= n
<1> DEFINE e == [id |-> n, delivered |-> FALSE]
           r == Append(q, e)
<1>1. q \in Seq(Entry) /\ DOMAIN q = 1..Len(q) /\ Len(q) \in Nat
  BY LenProperties DEF OrderedQueue
<1>2. e \in Entry /\ e.id = n /\ ~e.delivered
  BY DEF Entry
<1> HIDE DEF e
<1>3. /\ r \in Seq(Entry) /\ Len(r) = Len(q) + 1 /\ r # <<>>
      /\ \A i \in 1..Len(q) : r[i] = q[i]
      /\ r[Len(q) + 1] = e
  BY <1>1, <1>2, AppendProperties
<1> HIDE DEF r
<1>4. DOMAIN r = 1..(Len(q) + 1)
  BY <1>3, LenProperties
<1>5. \A i \in DOMAIN r : 
        \/ i \in DOMAIN q /\ r[i] = q[i]
        \/ i = Len(q) + 1 /\ r[i] = e
  BY <1>1, <1>3, <1>4
<1>6. \A i \in DOMAIN q : i \in DOMAIN r /\ r[i] = q[i]
  BY <1>1, <1>3, <1>4
<1>7. Len(q) + 1 \in DOMAIN r
  BY <1>1, <1>4
<1>8. Waiting(r) = Waiting(q) \cup {n}
  <2>1. \A x : x \in Waiting(r) => x \in Waiting(q) \cup {n}
    BY <1>2, <1>5 DEF Waiting
  <2>2. Waiting(q) \subseteq Waiting(r)
    BY <1>6 DEF Waiting
  <2>3. n \in Waiting(r)
    BY <1>2, <1>3, <1>7 DEF Waiting
  <2>4. QED
    BY <2>1, <2>2, <2>3
<1>9. \A i, j \in DOMAIN r : i < j => r[i].id < r[j].id
  <2> SUFFICES ASSUME NEW i \in DOMAIN r, NEW j \in DOMAIN r, i < j
               PROVE  r[i].id < r[j].id
    OBVIOUS
  <2>1. i \in DOMAIN q /\ r[i] = q[i]
    BY <1>1, <1>4, <1>5
  <2>2. CASE j \in DOMAIN q
    BY <1>6, <2>1, <2>2 DEF OrderedQueue
  <2>3. CASE j \notin DOMAIN q
    BY <1>2, <1>5, <2>1, <2>3
  <2>4. QED
    BY <2>2, <2>3
<1>10. \A i, j \in DOMAIN r : i < j /\ r[j].delivered => r[i].delivered
  <2> SUFFICES ASSUME NEW i \in DOMAIN r, NEW j \in DOMAIN r, i < j, r[j].delivered
               PROVE  r[i].delivered
    OBVIOUS
  <2>1. i \in DOMAIN q /\ r[i] = q[i]
    BY <1>1, <1>4, <1>5
  <2>2. j \in DOMAIN q /\ r[j] = q[j]
    BY <1>2, <1>5
  <2>3. QED
    BY <2>1, <2>2 DEF OrderedQueue
<1>11. OrderedQueue(r)
  BY <1>3, <1>9, <1>10 DEF OrderedQueue
<1>12. \A i \in DOMAIN r : r[i].id <= n
  <2> SUFFICES ASSUME NEW i \in DOMAIN r PROVE r[i].id <= n
    OBVIOUS
  <2>1. CASE i \in DOMAIN q /\ r[i] = q[i]
    <3>1. q[i] \in Entry
      BY <1>1, <2>1, ElementOfSeq
    <3>2. q[i].id \in Nat /\ n \in Nat
      BY <3>1 DEF Entry, MsgIds
    <3>3. QED
      BY <2>1, <3>2
  <2>2. CASE r[i] = e
    BY <1>2, <2>2 DEF MsgIds
  <2>3. QED
    BY <1>5, <2>1, <2>2
<1>13. QED
  BY <1>3, <1>8, <1>11, <1>12 DEF r, e

\* How much waits in an ordered queue: no more than its length, less when its
\* first entry was delivered, and all of it when that entry was not.
LEMMA WaitingCount ==
  ASSUME NEW q, OrderedQueue(q)
  PROVE  /\ IsFiniteSet(Waiting(q))
         /\ Cardinality(Waiting(q)) \in Nat
         /\ Cardinality(Waiting(q)) <= Len(q)
         /\ q # <<>> /\ q[1].delivered => Cardinality(Waiting(q)) < Len(q)
         /\ q # <<>> /\ ~q[1].delivered => Cardinality(Waiting(q)) = Len(q)
<1> DEFINE D == {j \in DOMAIN q : ~q[j].delivered}
           f == [i \in D |-> q[i].id]
<1>1. q \in Seq(Entry) /\ DOMAIN q = 1..Len(q) /\ Len(q) \in Nat
  BY LenProperties DEF OrderedQueue
<1>2. \A i \in DOMAIN q : q[i] \in Entry /\ q[i].id \in Nat
  <2>1. \A i \in DOMAIN q : q[i] \in Entry
    BY <1>1, ElementOfSeq
  <2>2. QED
    BY <2>1 DEF Entry, MsgIds
<1>3. IsFiniteSet(1..Len(q)) /\ Cardinality(1..Len(q)) = Len(q)
  BY <1>1, FS_Interval
<1>4. D \in SUBSET (1..Len(q))
  BY <1>1
<1>5. IsFiniteSet(D) /\ Cardinality(D) <= Len(q) /\ (Cardinality(D) = Len(q) => D = 1..Len(q))
  BY <1>3, <1>4, FS_Subset
<1>6. f \in Surjection(D, Waiting(q))
  BY DEF Waiting, Surjection
<1>7. \A i, j \in D : i # j => f[i] # f[j]
  <2> SUFFICES ASSUME NEW i \in D, NEW j \in D, i # j
               PROVE  q[i].id # q[j].id
    OBVIOUS
  <2>1. i < j \/ j < i
    BY <1>1, <1>4
  <2>2. q[i].id < q[j].id \/ q[j].id < q[i].id
    BY <2>1 DEF OrderedQueue
  <2>3. QED
    BY <1>2, <2>2
<1>8. f \in Injection(D, Waiting(q))
  BY <1>6, <1>7 DEF Injection, IsInjective, Surjection
<1>9. IsFiniteSet(Waiting(q)) /\ Cardinality(Waiting(q)) = Cardinality(D)
  BY <1>5, <1>6, <1>8, FS_Surjection
<1>10. Cardinality(Waiting(q)) \in Nat
  BY <1>9, FS_CardinalityType
<1> HIDE DEF D, f
<1>11. q # <<>> => 1 \in DOMAIN q
  BY <1>1
<1>12. ASSUME q # <<>>, q[1].delivered
       PROVE  Cardinality(Waiting(q)) < Len(q)
  <2>1. 1 \in 1..Len(q) /\ 1 \notin D
    BY <1>1, <1>11, <1>12 DEF D
  <2>2. Cardinality(D) # Len(q)
    BY <1>5, <2>1
  <2>3. QED
    BY <1>1, <1>5, <1>9, <1>10, <2>2
<1>13. ASSUME q # <<>>, ~q[1].delivered
       PROVE  Cardinality(Waiting(q)) = Len(q)
  <2>1. \A j \in DOMAIN q : ~q[j].delivered
    <3> SUFFICES ASSUME NEW j \in DOMAIN q PROVE ~q[j].delivered
      OBVIOUS
    <3>1. CASE j = 1
      BY <1>13, <3>1
    <3>2. CASE j # 1
      BY <1>1, <1>11, <1>13, <3>2 DEF OrderedQueue
    <3>3. QED
      BY <3>1, <3>2
  <2>2. D = 1..Len(q)
    BY <1>1, <2>1 DEF D
  <2>3. QED
    BY <1>3, <1>9, <2>2
<1>14. QED
  BY <1>5, <1>9, <1>10, <1>12, <1>13

\* Dropping the first entry keeps an ordered queue; it takes one message from
\* those that wait, the oldest, exactly when that entry was not delivered.
LEMMA ShiftedQueue ==
  ASSUME NEW q, OrderedQueue(q), q # <<>>
  PROVE  LET r == Tail(q) IN
         /\ OrderedQueue(r)
         /\ Len(r) = Len(q) - 1
         /\ \A i \in DOMAIN r : \E j \in DOMAIN q : r[i].id = q[j].id
         /\ q[1].delivered => Waiting(r) = Waiting(q)
         /\ ~q[1].delivered => /\ q[1].id \in Waiting(q)
                               /\ Waiting(r) = Waiting(q) \ {q[1].id}
                               /\ \A w \in Waiting(q) : q[1].id <= w
<1> DEFINE r == Tail(q)
<1>1. q \in Seq(Entry) /\ DOMAIN q = 1..Len(q) /\ Len(q) \in Nat \ {0}
  BY LenProperties, EmptySeq DEF OrderedQueue
<1>2. \A i \in DOMAIN q : q[i] \in Entry /\ q[i].id \in Nat
  <2>1. \A i \in DOMAIN q : q[i] \in Entry
    BY <1>1, ElementOfSeq
  <2>2. QED
    BY <2>1 DEF Entry, MsgIds
<1>3. /\ r \in Seq(Entry)
      /\ Len(r) = Len(q) - 1
      /\ \A i \in 1..Len(r) : r[i] = q[i + 1]
  BY <1>1, HeadTailProperties
<1> HIDE DEF r
<1>4. DOMAIN r = 1..(Len(q) - 1)
  BY <1>3, LenProperties
<1>5. \A i \in DOMAIN r : i + 1 \in DOMAIN q /\ r[i] = q[i + 1]
  BY <1>1, <1>3, <1>4
<1>6. \A j \in DOMAIN q : j # 1 => j - 1 \in DOMAIN r /\ r[j - 1] = q[j]
  BY <1>1, <1>3, <1>4
<1>7. \A i, j \in DOMAIN r : i < j =>
        r[i].id < r[j].id /\ (r[j].delivered => r[i].delivered)
  <2> SUFFICES ASSUME NEW i \in DOMAIN r, NEW j \in DOMAIN r, i < j
               PROVE  r[i].id < r[j].id /\ (r[j].delivered => r[i].delivered)
    OBVIOUS
  <2>1. i + 1 < j + 1
    BY <1>1, <1>4
  <2>2. QED
    BY <1>5, <2>1 DEF OrderedQueue
<1>8. OrderedQueue(r)
  BY <1>3, <1>7 DEF OrderedQueue
<1>9. \A j \in DOMAIN q : j # 1 => q[1].id < q[j].id
  BY <1>1 DEF OrderedQueue
<1>10. Waiting(r) \subseteq Waiting(q)
  BY <1>5 DEF Waiting
<1>11. \A w \in Waiting(q) : w \notin Waiting(r) => w = q[1].id /\ ~q[1].delivered
  <2> SUFFICES ASSUME NEW w \in Waiting(q), w \notin Waiting(r)
               PROVE  w = q[1].id /\ ~q[1].delivered
    OBVIOUS
  <2>1. PICK j \in DOMAIN q : ~q[j].delivered /\ w = q[j].id
    BY DEF Waiting
  <2>2. j = 1
    BY <1>6, <2>1 DEF Waiting
  <2>3. QED
    BY <2>1, <2>2
<1>12. q[1].id \notin Waiting(r)
  <2> SUFFICES ASSUME NEW i \in DOMAIN r, q[1].id = r[i].id
               PROVE  FALSE
    BY DEF Waiting
  <2>1. i + 1 \in DOMAIN q /\ i + 1 # 1 /\ q[1].id = q[i + 1].id
    BY <1>4, <1>5
  <2>2. QED
    BY <1>1, <1>2, <1>9, <2>1
<1>13. ~q[1].delivered => q[1].id \in Waiting(q)
  BY <1>1 DEF Waiting
<1>14. \A w \in Waiting(q) : q[1].id <= w
  <2> SUFFICES ASSUME NEW j \in DOMAIN q PROVE q[1].id <= q[j].id
    BY DEF Waiting
  <2>1. QED
    BY <1>1, <1>2, <1>9
<1>15. \A i \in DOMAIN r : \E j \in DOMAIN q : r[i].id = q[j].id
  BY <1>5
<1>16. q[1].delivered => Waiting(r) = Waiting(q)
  BY <1>10, <1>11
<1>17. ~q[1].delivered => Waiting(r) = Waiting(q) \ {q[1].id}
  BY <1>10, <1>11, <1>12
<1>18. QED
  BY <1>3, <1>8, <1>13, <1>14, <1>15, <1>16, <1>17 DEF r

\* Making room in a queue within its limit: either nothing that waits is lost
\* and fewer messages than the limit wait, or the limit is reached by waiting
\* messages only and the oldest of them goes.
LEMMA RoomInQueue ==
  ASSUME NEW q, OrderedQueue(q), Len(q) <= MaxQueueSize
  PROVE  LET r == MakeRoom(q) IN
         /\ OrderedQueue(r)
         /\ Len(r) < MaxQueueSize
         /\ \A i \in DOMAIN r : \E j \in DOMAIN q : r[i].id = q[j].id
         /\ \/ /\ Waiting(r) = Waiting(q)
               /\ Cardinality(Waiting(q)) < MaxQueueSize
            \/ /\ Cardinality(Waiting(q)) = MaxQueueSize
               /\ \E m \in Waiting(q) :
                    /\ \A w \in Waiting(q) : m <= w
                    /\ Waiting(r) = Waiting(q) \ {m}
<1>1. q \in Seq(Entry) /\ Len(q) \in Nat /\ MaxQueueSize \in Nat \ {0}
  BY LenProperties, ConstantsAssumption DEF OrderedQueue
<1>2. CASE Len(q) >= MaxQueueSize
  <2>1. q # <<>> /\ Len(q) = MaxQueueSize
    BY <1>1, <1>2, EmptySeq
  <2>2. MakeRoom(q) = Tail(q)
    BY <1>2 DEF MakeRoom
  <2>3. /\ OrderedQueue(Tail(q))
        /\ Len(Tail(q)) = Len(q) - 1
        /\ \A i \in DOMAIN Tail(q) : \E j \in DOMAIN q : Tail(q)[i].id = q[j].id
        /\ q[1].delivered => Waiting(Tail(q)) = Waiting(q)
        /\ ~q[1].delivered => /\ q[1].id \in Waiting(q)
                              /\ Waiting(Tail(q)) = Waiting(q) \ {q[1].id}
                              /\ \A w \in Waiting(q) : q[1].id <= w
    BY <2>1, ShiftedQueue
  <2>4. /\ q[1].delivered => Cardinality(Waiting(q)) < Len(q)
        /\ ~q[1].delivered => Cardinality(Waiting(q)) = Len(q)
    BY <2>1, WaitingCount
  <2>5. Len(MakeRoom(q)) < MaxQueueSize
    BY <1>1, <2>1, <2>2, <2>3
  <2>6. CASE q[1].delivered
    BY <2>1, <2>2, <2>3, <2>4, <2>5, <2>6
  <2>7. CASE ~q[1].delivered
    BY <2>1, <2>2, <2>3, <2>4, <2>5, <2>7
  <2>8. QED
    BY <2>6, <2>7
<1>3. CASE ~(Len(q) >= MaxQueueSize)
  <2>1. MakeRoom(q) = q
    BY <1>3 DEF MakeRoom
  <2>2. Len(q) < MaxQueueSize
    BY <1>1, <1>3
  <2>3. Cardinality(Waiting(q)) \in Nat /\ Cardinality(Waiting(q)) <= Len(q)
    BY WaitingCount
  <2>4. Cardinality(Waiting(q)) < MaxQueueSize
    BY <1>1, <2>2, <2>3
  <2>5. QED
    BY <2>1, <2>2, <2>4
<1>4. QED
  BY <1>2, <1>3

-----------------------------------------------------------------------------
(* The inductive invariant                                                 *)

\* Every queue of the relay is an ordered queue within its limit.
LEMMA QueuesAreOrdered ==
  ASSUME RelayInv, NEW a \in Agents
  PROVE  OrderedQueue(queue[a]) /\ Len(queue[a]) <= MaxQueueSize
BY DEF RelayInv, TypeOK, NoOvertaking, DeliveredFirst, QueueBounded, OrderedQueue

\* A relay that has just started satisfies the invariant.
LEMMA RelayInitially == Init => RelayInv
<1> SUFFICES ASSUME Init PROVE RelayInv
  OBVIOUS
<1>1. TypeOK
  <2>1. 1 \in 1..(MaxMsgs + 1) /\ 0 \in 0..MaxMsgs
    BY ConstantsAssumption
  <2>2. <<>> \in Seq(Entry)
    BY EmptySeq
  <2>3. QED
    BY <2>1, <2>2 DEF Init, TypeOK, SockStates
<1>2. \A a \in Agents : queue[a] = <<>> /\ Waiting(queue[a]) = {}
  BY DEF Init, Waiting
<1>3. \A a \in Agents : DOMAIN queue[a] = {} /\ Len(queue[a]) = 0
  BY <1>2
<1>4. NoStranded /\ NoOvertaking /\ DeliveredFirst /\ SocketsWereOpened /\ IdsInThePast
  BY <1>2, <1>3 DEF Init, NoStranded, NoOvertaking, DeliveredFirst, SocketsWereOpened,
     IdsInThePast
<1>5. QueueBounded
  BY <1>3, ConstantsAssumption DEF QueueBounded
<1>6. NothingDisappears
  BY DEF Init, NothingDisappears
<1>7. QED
  BY <1>1, <1>4, <1>5, <1>6 DEF RelayInv

\* A step that leaves queues and histories alone only has to keep the sockets
\* in order and bring no agent online.
LEMMA QueuesUntouched ==
  ASSUME RelayInv, TypeOK', SocketsWereOpened',
         UNCHANGED <<queue, next, handed, lost>>,
         \A a \in Agents : Online(a)' => Online(a)
  PROVE  RelayInv'
<1>1. NoStranded'
  BY DEF RelayInv, NoStranded, Waiting
<1>2. NoOvertaking' /\ DeliveredFirst' /\ QueueBounded' /\ IdsInThePast'
  BY DEF RelayInv, NoOvertaking, DeliveredFirst, QueueBounded, IdsInThePast, Waiting
<1>3. NothingDisappears'
  BY DEF RelayInv, NothingDisappears, Waiting
<1>4. QED
  BY <1>1, <1>2, <1>3 DEF RelayInv

\* The part of the invariant that speaks of queues and histories
QueueInv ==
  /\ queue \in [Agents -> Seq(Entry)]
  /\ next \in 1..(MaxMsgs + 1)
  /\ handed \in [Agents -> SUBSET MsgIds]
  /\ lost \in [Agents -> SUBSET MsgIds]
  /\ IdsInThePast
  /\ NoOvertaking
  /\ DeliveredFirst
  /\ QueueBounded
  /\ NothingDisappears

\* A queue handed to an open socket: deliverQueuedMessages past its returns
LEMMA QueueSent ==
  ASSUME RelayInv, NEW a \in Agents,
         handed' = [handed EXCEPT ![a] = @ \cup Waiting(queue[a])],
         queue' = [queue EXCEPT ![a] = Cleanup(MarkDelivered(@))],
         UNCHANGED <<next, lost>>
  PROVE  /\ QueueInv'
         /\ Waiting(queue'[a]) = {}
         /\ \A b \in Agents \ {a} : queue'[b] = queue[b]
<1> DEFINE r == Cleanup(MarkDelivered(queue[a]))
<1>1. /\ OrderedQueue(r)
      /\ Len(r) <= Len(queue[a])
      /\ Waiting(r) = {}
      /\ \A i \in DOMAIN r : \E j \in DOMAIN queue[a] : r[i].id = queue[a][j].id
  BY QueuesAreOrdered, DeliveredQueue
<1>2. queue \in [Agents -> Seq(Entry)] /\ handed \in [Agents -> SUBSET MsgIds]
  BY DEF RelayInv, TypeOK
<1>3. queue'[a] = r /\ \A b \in Agents \ {a} : queue'[b] = queue[b]
  BY <1>2
<1>4. /\ handed'[a] = handed[a] \cup Waiting(queue[a])
      /\ \A b \in Agents \ {a} : handed'[b] = handed[b]
  BY <1>2
<1>5. OrderedQueue(queue[a]) /\ Len(queue[a]) <= MaxQueueSize
  BY QueuesAreOrdered
<1> HIDE DEF r
<1>6. Waiting(queue[a]) \in SUBSET MsgIds /\ \A w \in Waiting(queue[a]) : w < next
  BY <1>5, WaitingType DEF OrderedQueue, RelayInv, IdsInThePast, Waiting
<1>7. queue' \in [Agents -> Seq(Entry)] /\ handed' \in [Agents -> SUBSET MsgIds]
  BY <1>1, <1>2, <1>6 DEF OrderedQueue, r
<1>8. IdsInThePast'
  BY <1>1, <1>3, <1>4, <1>6 DEF RelayInv, IdsInThePast
<1>9. NoOvertaking'
  <2> SUFFICES ASSUME NEW b \in Agents
               PROVE  /\ \A m \in handed'[b], w \in Waiting(queue'[b]) : m < w
                      /\ \A i, j \in DOMAIN queue'[b] :
                           i < j => queue'[b][i].id < queue'[b][j].id
    BY DEF NoOvertaking
  <2>1. CASE b = a
    BY <1>1, <1>3, <2>1 DEF OrderedQueue
  <2>2. CASE b # a
    BY <1>3, <1>4, <2>2 DEF RelayInv, NoOvertaking
  <2>3. QED
    BY <2>1, <2>2
<1>10. DeliveredFirst'
  <2> SUFFICES ASSUME NEW b \in Agents
               PROVE  \A i, j \in DOMAIN queue'[b] :
                        i < j /\ queue'[b][j].delivered => queue'[b][i].delivered
    BY DEF DeliveredFirst
  <2>1. CASE b = a
    BY <1>1, <1>3, <2>1 DEF OrderedQueue
  <2>2. CASE b # a
    BY <1>3, <2>2 DEF RelayInv, DeliveredFirst
  <2>3. QED
    BY <2>1, <2>2
<1>11. QueueBounded'
  <2>1. Len(r) \in Nat /\ Len(queue[a]) \in Nat /\ MaxQueueSize \in Nat
    BY <1>1, <1>5, LenProperties, ConstantsAssumption DEF OrderedQueue
  <2>2. Len(r) <= MaxQueueSize
    BY <1>1, <1>5, <2>1
  <2>3. QED
    BY <1>3, <2>2 DEF RelayInv, QueueBounded
<1>12. NothingDisappears'
  BY <1>3, <1>4 DEF RelayInv, NothingDisappears
<1>13. QED
  BY <1>1, <1>3, <1>7, <1>8, <1>9, <1>10, <1>11, <1>12 DEF RelayInv, TypeOK, QueueInv

\* routeMessage to a registered open socket: nothing waits, so what is sent is
\* newer than all that waits for its agent.
LEMMA MessageForwarded ==
  ASSUME RelayInv, NEW a \in Agents, Online(a), next <= MaxMsgs,
         next' = next + 1,
         handed' = [handed EXCEPT ![a] = @ \cup {next}],
         UNCHANGED <<queue, lost>>
  PROVE  QueueInv'
<1>1. next \in MsgIds /\ next' \in 1..(MaxMsgs + 1) /\ next \in Nat
  BY ConstantsAssumption DEF RelayInv, TypeOK, MsgIds
<1>2. handed \in [Agents -> SUBSET MsgIds] /\ lost \in [Agents -> SUBSET MsgIds]
      /\ queue \in [Agents -> Seq(Entry)]
  BY DEF RelayInv, TypeOK
<1>3. /\ handed'[a] = handed[a] \cup {next}
      /\ \A b \in Agents \ {a} : handed'[b] = handed[b]
  BY <1>2
<1>4. Waiting(queue[a]) = {}
  BY DEF RelayInv, NoStranded
<1>5. handed' \in [Agents -> SUBSET MsgIds]
  BY <1>1, <1>2
<1>6. \A b \in Agents : \A i \in DOMAIN queue[b] : queue[b][i].id \in Nat
  <2>1. \A b \in Agents : \A i \in DOMAIN queue[b] : queue[b][i] \in Entry
    BY <1>2, ElementOfSeq, LenProperties
  <2>2. QED
    BY <2>1 DEF Entry, MsgIds
<1>7. IdsInThePast'
  BY <1>1, <1>2, <1>3, <1>6 DEF RelayInv, IdsInThePast, MsgIds
<1>8. NoOvertaking'
  <2> SUFFICES ASSUME NEW b \in Agents
               PROVE  \A m \in handed'[b], w \in Waiting(queue[b]) : m < w
    BY DEF RelayInv, NoOvertaking
  <2>1. QED
    BY <1>3, <1>4 DEF RelayInv, NoOvertaking
<1>9. DeliveredFirst' /\ QueueBounded'
  BY DEF RelayInv, DeliveredFirst, QueueBounded
<1>10. NothingDisappears'
  <2> SUFFICES ASSUME NEW m \in 1..next
               PROVE  \E b \in Agents : m \in handed'[b] \cup Waiting(queue[b]) \cup lost[b]
    BY <1>1 DEF NothingDisappears
  <2>1. CASE m = next
    BY <1>3, <2>1
  <2>2. CASE m # next
    <3>1. m \in 1..(next - 1)
      BY <1>1, <2>2
    <3>2. PICK b \in Agents : m \in handed[b] \cup Waiting(queue[b]) \cup lost[b]
      BY <3>1 DEF RelayInv, NothingDisappears
    <3>3. QED
      BY <1>3, <3>2
  <2>3. QED
    BY <2>1, <2>2
<1>11. QED
  BY <1>1, <1>2, <1>5, <1>7, <1>8, <1>9, <1>10 DEF QueueInv

\* routeMessage to an agent that is not online: the new message is the newest
\* that waits, and what makes room for it is remembered as lost.
LEMMA MessageQueued ==
  ASSUME RelayInv, NEW a \in Agents, next <= MaxMsgs,
         next' = next + 1,
         QueueMessage(a),
         UNCHANGED handed
  PROVE  /\ QueueInv'
         /\ \A b \in Agents \ {a} : queue'[b] = queue[b]
<1> DEFINE q == queue[a]
           r == MakeRoom(q)
           t == Append(r, [id |-> next, delivered |-> FALSE])
<1>1. next \in MsgIds /\ next' \in 1..(MaxMsgs + 1) /\ next \in Nat
  BY ConstantsAssumption DEF RelayInv, TypeOK, MsgIds
<1>2. handed \in [Agents -> SUBSET MsgIds] /\ lost \in [Agents -> SUBSET MsgIds]
      /\ queue \in [Agents -> Seq(Entry)]
  BY DEF RelayInv, TypeOK
<1>3. OrderedQueue(q) /\ Len(q) <= MaxQueueSize
  BY QueuesAreOrdered
<1>4. \A i \in DOMAIN q : q[i].id < next
  BY DEF RelayInv, IdsInThePast
<1>5. /\ OrderedQueue(r)
      /\ Len(r) < MaxQueueSize
      /\ \A i \in DOMAIN r : \E j \in DOMAIN q : r[i].id = q[j].id
      /\ Waiting(r) \subseteq Waiting(q)
  BY <1>3, RoomInQueue
<1>6. \A i \in DOMAIN r : r[i].id < next
  BY <1>4, <1>5
<1>7. /\ OrderedQueue(t)
      /\ Len(t) = Len(r) + 1
      /\ Waiting(t) = Waiting(r) \cup {next}
      /\ \A i \in DOMAIN t : t[i].id <= next
  <2> HIDE DEF r
  <2>1. QED
    BY <1>1, <1>5, <1>6, AppendedQueue
<1>8. queue'[a] = t /\ \A b \in Agents \ {a} : queue'[b] = queue[b]
  BY <1>2 DEF QueueMessage
<1>9. /\ lost'[a] = lost[a] \cup (Waiting(q) \ Waiting(r))
      /\ \A b \in Agents \ {a} : lost'[b] = lost[b]
  BY <1>2 DEF QueueMessage
<1>10. Waiting(q) \in SUBSET MsgIds /\ \A w \in Waiting(q) : w < next
  BY <1>3, <1>4, WaitingType DEF OrderedQueue, Waiting
<1>11. queue' \in [Agents -> Seq(Entry)] /\ lost' \in [Agents -> SUBSET MsgIds]
  <2>1. t \in Seq(Entry)
    BY <1>7 DEF OrderedQueue
  <2>2. QED
    BY <1>2, <1>10, <2>1 DEF QueueMessage
<1> HIDE DEF t, r, q
<1>12. IdsInThePast'
  <2>1. \A b \in Agents : \A m \in handed[b] \cup lost'[b] : m < next + 1
    <3>1. \A b \in Agents : \A m \in handed[b] \cup lost'[b] : m < next
      BY <1>9, <1>10 DEF RelayInv, IdsInThePast
    <3>2. \A b \in Agents : \A m \in handed[b] \cup lost'[b] : m \in Nat
      BY <1>2, <1>11 DEF MsgIds
    <3>3. QED
      BY <1>1, <3>1, <3>2
  <2>2. ASSUME NEW b \in Agents, NEW i \in DOMAIN queue'[b]
        PROVE  queue'[b][i].id < next + 1
    <3>1. queue'[b][i] \in Entry
      BY <1>11, ElementOfSeq, LenProperties
    <3>2. queue'[b][i].id \in Nat
      BY <3>1 DEF Entry, MsgIds
    <3>3. CASE b = a
      BY <1>1, <1>7, <1>8, <3>2, <3>3
    <3>4. CASE b # a
      BY <1>1, <1>8, <3>2, <3>4 DEF RelayInv, IdsInThePast
    <3>5. QED
      BY <3>3, <3>4
  <2>3. QED
    BY <2>1, <2>2 DEF IdsInThePast
<1>13. NoOvertaking'
  <2> SUFFICES ASSUME NEW b \in Agents
               PROVE  /\ \A m \in handed[b], w \in Waiting(queue'[b]) : m < w
                      /\ \A i, j \in DOMAIN queue'[b] :
                           i < j => queue'[b][i].id < queue'[b][j].id
    BY DEF NoOvertaking
  <2>1. CASE b = a
    <3>1. \A m \in handed[a] : m < next /\ \A w \in Waiting(q) : m < w
      BY DEF RelayInv, IdsInThePast, NoOvertaking, q
    <3>2. \A m \in handed[a], w \in Waiting(t) : m < w
      BY <1>5, <1>7, <3>1
    <3>3. QED
      BY <1>7, <1>8, <2>1, <3>2 DEF OrderedQueue
  <2>2. CASE b # a
    BY <1>8, <2>2 DEF RelayInv, NoOvertaking
  <2>3. QED
    BY <2>1, <2>2
<1>14. DeliveredFirst'
  <2> SUFFICES ASSUME NEW b \in Agents
               PROVE  \A i, j \in DOMAIN queue'[b] :
                        i < j /\ queue'[b][j].delivered => queue'[b][i].delivered
    BY DEF DeliveredFirst
  <2>1. CASE b = a
    BY <1>7, <1>8, <2>1 DEF OrderedQueue
  <2>2. CASE b # a
    BY <1>8, <2>2 DEF RelayInv, DeliveredFirst
  <2>3. QED
    BY <2>1, <2>2
<1>15. QueueBounded'
  <2>1. Len(r) \in Nat /\ MaxQueueSize \in Nat
    BY <1>5, LenProperties, ConstantsAssumption DEF OrderedQueue
  <2>2. Len(t) <= MaxQueueSize
    BY <1>5, <1>7, <2>1
  <2>3. QED
    BY <1>8, <2>2 DEF RelayInv, QueueBounded
<1>16. NothingDisappears'
  <2> SUFFICES ASSUME NEW m \in 1..next
               PROVE  \E b \in Agents : m \in handed[b] \cup Waiting(queue'[b]) \cup lost'[b]
    BY <1>1 DEF NothingDisappears
  <2>1. CASE m = next
    BY <1>7, <1>8, <2>1
  <2>2. CASE m # next
    <3>1. m \in 1..(next - 1)
      BY <1>1, <2>2
    <3>2. PICK b \in Agents : m \in handed[b] \cup Waiting(queue[b]) \cup lost[b]
      BY <3>1 DEF RelayInv, NothingDisappears
    <3>3. m \in handed[b] \cup Waiting(queue'[b]) \cup lost'[b]
      BY <1>7, <1>8, <1>9, <3>2 DEF q
    <3>4. QED
      BY <3>3
  <2>3. QED
    BY <2>1, <2>2
<1>17. QED
  BY <1>1, <1>2, <1>8, <1>11, <1>12, <1>13, <1>14, <1>15, <1>16 DEF QueueInv

\* Whichever way routeMessage takes
LEMMA MessageRouted ==
  ASSUME RelayInv, NEW a \in Agents, RouteMessage(a),
         UNCHANGED <<sock, key, verifying, agents, registry, horizon>>
  PROVE  RelayInv'
<1>1. QueueInv' /\ \A b \in Agents : Online(b) => Waiting(queue'[b]) = Waiting(queue[b])
  <2>1. CASE Online(a) /\ handed' = [handed EXCEPT ![a] = @ \cup {next}] /\ UNCHANGED <<queue, lost>>
    BY <2>1, MessageForwarded DEF RouteMessage
  <2>2. CASE ~Online(a) /\ QueueMessage(a) /\ UNCHANGED handed
    BY <2>2, MessageQueued DEF RouteMessage
  <2>3. QED
    BY <2>1, <2>2 DEF RouteMessage
<1>2. TypeOK' /\ SocketsWereOpened'
  BY <1>1 DEF RelayInv, TypeOK, QueueInv, SocketsWereOpened
<1>3. NoStranded'
  BY <1>1 DEF RelayInv, NoStranded, Online, Ready
<1>4. QED
  BY <1>1, <1>2, <1>3 DEF QueueInv, RelayInv

\* Opening a connection, seeing its end and running its close handler touch no
\* queue and bring nobody online.
LEMMA SocketSteps ==
  ASSUME RelayInv, NEW s \in Sockets, Connect(s) \/ PeerClose(s) \/ SocketClosed(s)
  PROVE  RelayInv'
<1>1. sock \in [Sockets -> SockStates] /\ agents \in [Agents -> Sockets \cup {NoSocket}]
      /\ key \in [Sockets -> Agents \cup {NoAgent}] /\ NoSocket \notin Sockets
  BY ConstantsAssumption DEF RelayInv, TypeOK
<1>2. CASE Connect(s)
  <2>1. TypeOK'
    BY <1>1, <1>2 DEF Connect, RelayInv, TypeOK, SockStates
  <2>2. SocketsWereOpened'
    BY <1>1, <1>2 DEF Connect, RelayInv, SocketsWereOpened
  <2>3. \A a \in Agents : Online(a)' => Online(a)
    BY <1>1, <1>2 DEF Connect, RelayInv, SocketsWereOpened, Online, Ready
  <2>4. QED
    BY <1>2, <2>1, <2>2, <2>3, QueuesUntouched DEF Connect
<1>3. CASE PeerClose(s)
  <2>1. TypeOK'
    BY <1>1, <1>3 DEF PeerClose, RelayInv, TypeOK, SockStates
  <2>2. SocketsWereOpened'
    BY <1>1, <1>3 DEF PeerClose, RelayInv, SocketsWereOpened
  <2>3. \A a \in Agents : Online(a)' => Online(a)
    BY <1>1, <1>3 DEF PeerClose, Online, Ready
  <2>4. QED
    BY <1>3, <2>1, <2>2, <2>3, QueuesUntouched DEF PeerClose
<1>4. CASE SocketClosed(s)
  <2>1. TypeOK'
    BY <1>1, <1>4 DEF SocketClosed, RelayInv, TypeOK, SockStates
  <2>2. SocketsWereOpened'
    BY <1>1, <1>4 DEF SocketClosed, RelayInv, SocketsWereOpened
  <2>3. \A a \in Agents : Online(a)' => Online(a)
    BY <1>1, <1>4 DEF SocketClosed, Online, Ready
  <2>4. QED
    BY <1>4, <2>1, <2>2, <2>3, QueuesUntouched DEF SocketClosed
<1>5. QED
  BY <1>2, <1>3, <1>4

\* Before its signature is checked, or when it is refused, a registration only
\* changes what is being verified.
LEMMA RegisterSteps ==
  ASSUME RelayInv, NEW s \in Sockets, NEW a \in Agents,
         BeginRegister(s, a) \/ RejectRegister(s, a)
  PROVE  RelayInv'
<1>1. TypeOK'
  BY DEF BeginRegister, RejectRegister, RelayInv, TypeOK
<1>2. SocketsWereOpened'
  BY DEF BeginRegister, RejectRegister, Listening, RelayInv, TypeOK, SocketsWereOpened
<1>3. \A b \in Agents : Online(b)' => Online(b)
  BY DEF BeginRegister, RejectRegister, Online, Ready
<1>4. UNCHANGED <<queue, next, handed, lost>>
  BY DEF BeginRegister, RejectRegister
<1>5. QED
  BY <1>1, <1>2, <1>3, <1>4, QueuesUntouched

\* A registration sends the queue when its socket is still open and otherwise
\* leaves an agent that is not online.
LEMMA FinishRegisterStep ==
  ASSUME RelayInv, NEW s \in Sockets, NEW a \in Agents, FinishRegister(s, a)
  PROVE  RelayInv'
<1>1. /\ verifying' \in [Sockets -> SUBSET Agents]
      /\ key' \in [Sockets -> Agents \cup {NoAgent}]
      /\ agents' \in [Agents -> Sockets \cup {NoSocket}]
      /\ registry' \in SUBSET Agents
  BY DEF FinishRegister, RelayInv, TypeOK
<1>2. SocketsWereOpened'
  BY DEF FinishRegister, RelayInv, TypeOK, SocketsWereOpened
<1>3. \A b \in Agents \ {a} : Online(b)' => Online(b)
  BY DEF FinishRegister, RelayInv, TypeOK, Online, Ready
<1>4. Online(a)' => Ready(s)
  BY DEF FinishRegister, RelayInv, TypeOK, Online, Ready
<1>5. CASE Ready(s)
  <2>1. /\ QueueInv'
        /\ Waiting(queue'[a]) = {}
        /\ \A b \in Agents \ {a} : queue'[b] = queue[b]
    BY <1>5, QueueSent DEF FinishRegister, DeliverQueued
  <2>2. NoStranded'
    BY <1>3, <2>1 DEF RelayInv, NoStranded
  <2>3. TypeOK'
    BY <1>1, <2>1 DEF FinishRegister, QueueInv, RelayInv, TypeOK
  <2>4. QED
    BY <1>2, <2>1, <2>2, <2>3 DEF QueueInv, RelayInv
<1>6. CASE ~Ready(s)
  <2>1. UNCHANGED <<queue, next, handed, lost>>
    BY <1>6 DEF FinishRegister, DeliverQueued
  <2>2. TypeOK'
    BY <1>1, <2>1 DEF FinishRegister, RelayInv, TypeOK
  <2>3. \A b \in Agents : Online(b)' => Online(b)
    BY <1>3, <1>4, <1>6
  <2>4. QED
    BY <1>2, <2>1, <2>2, <2>3, QueuesUntouched
<1>7. QED
  BY <1>5, <1>6

\* The passing of time touches no queue.
LEMMA AgeStep ==
  ASSUME RelayInv, Age
  PROVE  RelayInv'
<1>1. horizon' \in 0..MaxMsgs
  BY ConstantsAssumption DEF Age, RelayInv, TypeOK
<1>2. TypeOK' /\ SocketsWereOpened'
  BY <1>1 DEF Age, RelayInv, TypeOK, SocketsWereOpened
<1>3. \A a \in Agents : Online(a)' => Online(a)
  BY DEF Age, Online, Ready
<1>4. QED
  BY <1>2, <1>3, QueuesUntouched DEF Age

\* A restart moves everything that waits to what is lost.
LEMMA RestartStep ==
  ASSUME RelayInv, Restart
  PROVE  RelayInv'
<1>1. \A a \in Agents : queue'[a] = <<>> /\ DOMAIN queue'[a] = {} /\ Len(queue'[a]) = 0
  BY DEF Restart
<1>2. \A a \in Agents : Waiting(queue'[a]) = {}
  BY <1>1 DEF Waiting
<1>3. \A a \in Agents : /\ Waiting(queue[a]) \in SUBSET MsgIds
                        /\ \A w \in Waiting(queue[a]) : w < next
  BY WaitingType DEF RelayInv, TypeOK, IdsInThePast, Waiting
<1>4. \A a \in Agents : lost'[a] = lost[a] \cup Waiting(queue[a])
  BY DEF Restart
<1>5. queue' \in [Agents -> Seq(Entry)]
  BY EmptySeq DEF Restart
<1>6. lost' \in [Agents -> SUBSET MsgIds]
  BY <1>3 DEF Restart, RelayInv, TypeOK
<1>7. TypeOK'
  BY <1>5, <1>6 DEF Restart, RelayInv, TypeOK, SockStates
<1>8. SocketsWereOpened' /\ NoStranded'
  BY <1>2 DEF Restart, SocketsWereOpened, NoStranded
<1>9. IdsInThePast'
  BY <1>1, <1>3, <1>4 DEF Restart, RelayInv, IdsInThePast
<1>10. NoOvertaking' /\ DeliveredFirst'
  BY <1>1, <1>2 DEF NoOvertaking, DeliveredFirst
<1>11. QueueBounded'
  BY <1>1, ConstantsAssumption DEF QueueBounded
<1>12. NothingDisappears'
  <2> SUFFICES ASSUME NEW m \in 1..(next - 1)
               PROVE  \E b \in Agents : m \in handed[b] \cup lost'[b]
    BY DEF Restart, NothingDisappears
  <2>1. PICK b \in Agents : m \in handed[b] \cup Waiting(queue[b]) \cup lost[b]
    BY DEF RelayInv, NothingDisappears
  <2>2. QED
    BY <1>4, <2>1
<1>13. QED
  BY <1>7, <1>8, <1>9, <1>10, <1>11, <1>12 DEF RelayInv

\* Every step of the relay keeps the invariant.
LEMMA RelayStep == RelayInv /\ [Next]_vars => RelayInv'
<1> SUFFICES ASSUME RelayInv, [Next]_vars PROVE RelayInv'
  OBVIOUS
<1>1. ASSUME NEW s \in Sockets, Connect(s) \/ PeerClose(s) \/ SocketClosed(s)
      PROVE  RelayInv'
  BY <1>1, SocketSteps
<1>2. ASSUME NEW s \in Sockets, NEW a \in Agents, BeginRegister(s, a) \/ RejectRegister(s, a)
      PROVE  RelayInv'
  BY <1>2, RegisterSteps
<1>3. ASSUME NEW s \in Sockets, NEW a \in Agents, FinishRegister(s, a)
      PROVE  RelayInv'
  BY <1>3, FinishRegisterStep
<1>4. ASSUME NEW s \in Sockets, NEW a \in Agents, SocketMessage(s, a)
      PROVE  RelayInv'
  BY <1>4, MessageRouted DEF SocketMessage
<1>5. ASSUME NEW a \in Agents, JsonRpcSend(a)
      PROVE  RelayInv'
  BY <1>5, MessageRouted DEF JsonRpcSend
<1>6. CASE Age
  BY <1>6, AgeStep
<1>7. CASE Restart
  BY <1>7, RestartStep
<1>8. CASE UNCHANGED vars
  <2>1. TypeOK' /\ SocketsWereOpened'
    BY <1>8 DEF vars, RelayInv, TypeOK, SocketsWereOpened
  <2>2. \A a \in Agents : Online(a)' => Online(a)
    BY <1>8 DEF vars, Online, Ready
  <2>3. QED
    BY <1>8, <2>1, <2>2, QueuesUntouched DEF vars
<1>9. QED
  BY <1>1, <1>2, <1>3, <1>4, <1>5, <1>6, <1>7, <1>8 DEF Next

\* In every state the relay can reach, whatever the order of registrations,
\* closes, messages and restarts, its invariant holds.
THEOREM RelayInvariance == Spec => []RelayInv
<1>1. Init => RelayInv
  BY RelayInitially
<1>2. RelayInv /\ [Next]_vars => RelayInv'
  BY RelayStep
<1>3. QED
  BY <1>1, <1>2, PTL DEF Spec

\* The state of the relay always has its type.
THEOREM RelayTypeCorrect == Spec => []TypeOK
<1>1. RelayInv => TypeOK
  BY DEF RelayInv
<1>2. QED
  BY <1>1, RelayInvariance, PTL

\* Nothing waits for an agent whose registered socket is open.
THEOREM NothingStranded == Spec => []NoStranded
<1>1. RelayInv => NoStranded
  BY DEF RelayInv
<1>2. QED
  BY <1>1, RelayInvariance, PTL

\* Messages for one agent are never reordered and never sent twice.
THEOREM MessagesInOrder == Spec => []NoOvertaking
<1>1. RelayInv => NoOvertaking
  BY DEF RelayInv
<1>2. QED
  BY <1>1, RelayInvariance, PTL

\* Every accepted message is accounted for.
THEOREM MessagesAccountedFor == Spec => []NothingDisappears
<1>1. RelayInv => NothingDisappears
  BY DEF RelayInv
<1>2. QED
  BY <1>1, RelayInvariance, PTL

-----------------------------------------------------------------------------
(* The relay implements Mailbox                                            *)

\* The relay starts with empty mailboxes.
LEMMA MailboxInitially == Init => Promise!Init
<1>1. Waiting(<<>>) = {}
  BY DEF Waiting
<1>2. QED
  BY <1>1 DEF Init, Promise!Init

\* Seen as a mailbox, sending a queue hands over what waits, or is nothing when
\* nothing waits.
LEMMA SendingIsHandOver ==
  ASSUME RelayInv, NEW a \in Agents,
         handed' = [handed EXCEPT ![a] = @ \cup Waiting(queue[a])],
         queue' = [queue EXCEPT ![a] = Cleanup(MarkDelivered(@))],
         UNCHANGED <<next, lost>>
  PROVE  Promise!HandOver(a)
<1>1. Waiting(queue'[a]) = {} /\ \A b \in Agents \ {a} : queue'[b] = queue[b]
  BY QueueSent
<1> DEFINE W == [b \in Agents |-> Waiting(queue[b])]
<1>2. [b \in Agents |-> Waiting(queue'[b])] = [W EXCEPT ![a] = {}]
  <2>1. \A b \in Agents : Waiting(queue'[b]) = [W EXCEPT ![a] = {}][b]
    BY <1>1
  <2>2. QED
    BY <2>1
<1>3. QED
  BY <1>2 DEF Promise!HandOver

\* The instance counts with the same operator as the relay.
LEMMA SameCardinality ==
  ASSUME NEW S
  PROVE  Promise!Cardinality(S) = Cardinality(S)
BY DEF Promise!Cardinality, Cardinality

\* Seen as a mailbox, queueing a message is storing it, over the oldest one
\* exactly when the mailbox is full.
LEMMA QueueingIsStoring ==
  ASSUME RelayInv, NEW a \in Agents, next <= MaxMsgs,
         next' = next + 1,
         QueueMessage(a),
         UNCHANGED handed
  PROVE  Promise!Store(a) \/ Promise!StoreOverOldest(a)
<1> DEFINE W == [b \in Agents |-> Waiting(queue[b])]
           r == MakeRoom(queue[a])
           t == Append(r, [id |-> next, delivered |-> FALSE])
<1>1. queue \in [Agents -> Seq(Entry)] /\ lost \in [Agents -> SUBSET MsgIds]
      /\ next \in MsgIds
  BY ConstantsAssumption DEF RelayInv, TypeOK, MsgIds
<1>2. OrderedQueue(queue[a]) /\ Len(queue[a]) <= MaxQueueSize
  BY QueuesAreOrdered
<1>3. /\ OrderedQueue(r)
      /\ \A i \in DOMAIN r : \E j \in DOMAIN queue[a] : r[i].id = queue[a][j].id
      /\ \/ /\ Waiting(r) = Waiting(queue[a])
            /\ Cardinality(Waiting(queue[a])) < MaxQueueSize
         \/ /\ Cardinality(Waiting(queue[a])) = MaxQueueSize
            /\ \E m \in Waiting(queue[a]) :
                 /\ \A w \in Waiting(queue[a]) : m <= w
                 /\ Waiting(r) = Waiting(queue[a]) \ {m}
  BY <1>2, RoomInQueue
<1>4. \A i \in DOMAIN r : r[i].id < next
  BY <1>3 DEF RelayInv, IdsInThePast
<1>5. queue' = [queue EXCEPT ![a] = t]
      /\ lost' = [lost EXCEPT ![a] = @ \cup (Waiting(queue[a]) \ Waiting(r))]
  BY DEF QueueMessage
<1> HIDE DEF r
<1>6. Waiting(t) = Waiting(r) \cup {next}
  BY <1>1, <1>3, <1>4, AppendedQueue
<1> HIDE DEF t
<1>7. [b \in Agents |-> Waiting(queue'[b])] = [W EXCEPT ![a] = Waiting(r) \cup {next}]
  BY <1>1, <1>5, <1>6
<1>8. W[a] = Waiting(queue[a])
  OBVIOUS
<1>9. CASE /\ Waiting(r) = Waiting(queue[a])
           /\ Cardinality(Waiting(queue[a])) < MaxQueueSize
  <2>1. lost' = lost
    BY <1>1, <1>5, <1>9
  <2>2. [b \in Agents |-> Waiting(queue'[b])] = [W EXCEPT ![a] = @ \cup {next}]
    BY <1>7, <1>8, <1>9
  <2>3. QED
    BY <1>8, <1>9, <2>1, <2>2, SameCardinality DEF Promise!Store, Promise!Accept
<1>10. CASE /\ Cardinality(Waiting(queue[a])) = MaxQueueSize
            /\ \E m \in Waiting(queue[a]) :
                 /\ \A w \in Waiting(queue[a]) : m <= w
                 /\ Waiting(r) = Waiting(queue[a]) \ {m}
  <2>1. PICK m \in Waiting(queue[a]) :
          (\A w \in Waiting(queue[a]) : m <= w) /\ Waiting(r) = Waiting(queue[a]) \ {m}
    BY <1>10
  <2>2. lost' = [lost EXCEPT ![a] = @ \cup {m}]
    BY <1>5, <2>1
  <2>3. [b \in Agents |-> Waiting(queue'[b])] = [W EXCEPT ![a] = (@ \ {m}) \cup {next}]
    BY <1>7, <1>8, <2>1
  <2>4. QED
    BY <1>8, <1>10, <2>1, <2>2, <2>3, SameCardinality DEF Promise!StoreOverOldest, Promise!Accept
<1>11. QED
  BY <1>3, <1>9, <1>10

\* Routing forwards a message past an empty mailbox or stores it.
LEMMA RoutingIsMailboxStep ==
  ASSUME RelayInv, NEW a \in Agents, RouteMessage(a)
  PROVE  Promise!Next
<1>1. CASE Online(a) /\ handed' = [handed EXCEPT ![a] = @ \cup {next}] /\ UNCHANGED <<queue, lost>>
  <2>1. Waiting(queue[a]) = {}
    BY <1>1 DEF RelayInv, NoStranded
  <2>2. Promise!Forward(a)
    BY <1>1, <2>1 DEF RouteMessage, Promise!Forward, Promise!Accept
  <2>3. QED
    BY <2>2 DEF Promise!Next
<1>2. CASE ~Online(a) /\ QueueMessage(a) /\ UNCHANGED handed
  <2>1. Promise!Store(a) \/ Promise!StoreOverOldest(a)
    BY <1>2, QueueingIsStoring DEF RouteMessage
  <2>2. QED
    BY <2>1 DEF Promise!Next
<1>3. QED
  BY <1>1, <1>2 DEF RouteMessage

\* Restarting the relay empties every mailbox.
LEMMA RestartIsMailboxStep ==
  ASSUME Restart
  PROVE  Promise!Next
<1>1. Waiting(<<>>) = {}
  BY DEF Waiting
<1>2. [a \in Agents |-> Waiting(queue'[a])] = [a \in Agents |-> {}]
  BY <1>1 DEF Restart
<1>3. [a \in Agents |-> lost[a] \cup Waiting(queue[a])] =
        [a \in Agents |-> lost[a] \cup [b \in Agents |-> Waiting(queue[b])][a]]
  OBVIOUS
<1>4. Promise!Restart
  BY <1>2, <1>3 DEF Restart, Promise!Restart
<1>5. QED
  BY <1>4 DEF Promise!Next

\* Every step of the relay is a step of the mailboxes or leaves them alone.
LEMMA MailboxStep == RelayInv /\ [Next]_vars => [Promise!Next]_(Promise!vars)
<1> SUFFICES ASSUME RelayInv, [Next]_vars PROVE [Promise!Next]_(Promise!vars)
  OBVIOUS
<1>1. ASSUME UNCHANGED <<queue, next, handed, lost>>
      PROVE  UNCHANGED Promise!vars
  BY <1>1 DEF Promise!vars
<1>2. ASSUME NEW s \in Sockets, Connect(s) \/ PeerClose(s) \/ SocketClosed(s)
      PROVE  UNCHANGED Promise!vars
  BY <1>1, <1>2 DEF Connect, PeerClose, SocketClosed
<1>3. ASSUME NEW s \in Sockets, NEW a \in Agents, BeginRegister(s, a) \/ RejectRegister(s, a)
      PROVE  UNCHANGED Promise!vars
  BY <1>1, <1>3 DEF BeginRegister, RejectRegister
<1>4. ASSUME NEW s \in Sockets, NEW a \in Agents, FinishRegister(s, a)
      PROVE  [Promise!Next]_(Promise!vars)
  <2>1. CASE Ready(s)
    BY <1>4, <2>1, SendingIsHandOver DEF FinishRegister, DeliverQueued, Promise!Next
  <2>2. CASE ~Ready(s)
    BY <1>1, <1>4, <2>2 DEF FinishRegister, DeliverQueued
  <2>3. QED
    BY <2>1, <2>2
<1>5. ASSUME NEW a \in Agents, JsonRpcSend(a) \/ \E s \in Sockets : SocketMessage(s, a)
      PROVE  Promise!Next
  BY <1>5, RoutingIsMailboxStep DEF SocketMessage, JsonRpcSend
<1>6. CASE Age
  BY <1>1, <1>6 DEF Age
<1>7. CASE Restart
  BY <1>7, RestartIsMailboxStep
<1>8. CASE UNCHANGED vars
  BY <1>1, <1>8 DEF vars
<1>9. QED
  BY <1>2, <1>3, <1>4, <1>5, <1>6, <1>7, <1>8 DEF Next

\* The relay keeps the promise of Mailbox for every number of agents and
\* connections and every queue limit.
THEOREM RelayImplementsMailbox == Spec => MailboxSpec
<1>1. Init => Promise!Init
  BY MailboxInitially
<1>2. RelayInv /\ [Next]_vars => [Promise!Next]_(Promise!vars)
  BY MailboxStep
<1>3. QED
  BY <1>1, <1>2, RelayInvariance, PTL DEF Spec, MailboxSpec, Promise!Spec
-----------------------------------------------------------------------------
(* What is given up                                                        *)

\* Queueing gives up a message only when the whole queue waits, the oldest.
LEMMA QueueingLosesTheOldest ==
  ASSUME RelayInv, NEW a \in Agents, QueueMessage(a),
         NEW b \in Agents, lost'[b] # lost[b]
  PROVE  /\ Cardinality(Waiting(queue[b])) = MaxQueueSize
         /\ \A m \in lost'[b] \ lost[b] : \A w \in Waiting(queue[b]) : m <= w
<1> DEFINE r == MakeRoom(queue[a])
<1>1. lost \in [Agents -> SUBSET MsgIds]
      /\ lost' = [lost EXCEPT ![a] = @ \cup (Waiting(queue[a]) \ Waiting(r))]
  BY DEF RelayInv, TypeOK, QueueMessage
<1>2. OrderedQueue(queue[a]) /\ Len(queue[a]) <= MaxQueueSize
  BY QueuesAreOrdered
<1>3. \/ Waiting(r) = Waiting(queue[a])
      \/ /\ Cardinality(Waiting(queue[a])) = MaxQueueSize
         /\ \E m \in Waiting(queue[a]) :
              /\ \A w \in Waiting(queue[a]) : m <= w
              /\ Waiting(r) = Waiting(queue[a]) \ {m}
  BY <1>2, RoomInQueue
<1> HIDE DEF r
<1>4. b = a /\ Waiting(r) # Waiting(queue[a])
  BY <1>1
<1>5. PICK m \in Waiting(queue[a]) :
        /\ \A w \in Waiting(queue[a]) : m <= w
        /\ Waiting(r) = Waiting(queue[a]) \ {m}
  BY <1>3, <1>4
<1>6. lost'[b] \ lost[b] \subseteq {m}
  BY <1>1, <1>4, <1>5
<1>7. QED
  BY <1>3, <1>4, <1>5, <1>6

\* No close, registration or clean-up costs a message its place: while the
\* relay runs, one is given up for a newer one only, out of a queue that is
\* all waiting, and it is the oldest.
THEOREM OnlyOverflowLoses == Spec => LostOnlyToOverflow
<1>1. ASSUME RelayInv, [Next]_vars, NEW b \in Agents, lost'[b] # lost[b]
      PROVE  \/ queue'[b] = <<>>
             \/ /\ Cardinality(Waiting(queue[b])) = MaxQueueSize
                /\ \A m \in lost'[b] \ lost[b] : \A w \in Waiting(queue[b]) : m <= w
  <2>1. ASSUME NEW a \in Agents, QueueMessage(a)
        PROVE  /\ Cardinality(Waiting(queue[b])) = MaxQueueSize
               /\ \A m \in lost'[b] \ lost[b] : \A w \in Waiting(queue[b]) : m <= w
    BY <1>1, <2>1, QueueingLosesTheOldest
  <2>2. CASE Restart
    BY <2>2 DEF Restart
  <2>3. ASSUME NEW s \in Sockets, NEW a \in Agents,
               \/ Connect(s) \/ PeerClose(s) \/ SocketClosed(s)
               \/ BeginRegister(s, a) \/ RejectRegister(s, a) \/ FinishRegister(s, a)
        PROVE  lost' = lost
    BY <2>3 DEF Connect, PeerClose, SocketClosed, BeginRegister, RejectRegister, FinishRegister
  <2>4. ASSUME NEW a \in Agents, RouteMessage(a)
        PROVE  lost' = lost \/ QueueMessage(a)
    BY <2>4 DEF RouteMessage
  <2>5. CASE Age \/ UNCHANGED vars
    BY <1>1, <2>5 DEF Age, vars
  <2>6. QED
    BY <1>1, <2>1, <2>2, <2>3, <2>4, <2>5 DEF Next, SocketMessage, JsonRpcSend
<1>2. RelayInv /\ [Next]_vars =>
        [\A a \in Agents : lost'[a] # lost[a] =>
           \/ queue'[a] = <<>>
           \/ /\ Cardinality(Waiting(queue[a])) = MaxQueueSize
              /\ \A m \in lost'[a] \ lost[a] : \A w \in Waiting(queue[a]) : m <= w
        ]_vars
  BY <1>1
<1>3. QED
  BY <1>2, RelayInvariance, PTL DEF Spec, LostOnlyToOverflow

-----------------------------------------------------------------------------
(* The filter of cleanupQueue                                              *)

\* The filter goes through the queue entry by entry.
Filters(h, q) ==
  /\ h \in [0..Len(q) -> Seq(Entry)]
  /\ h[0] = <<>> /\ h[Len(q)] = Filtered(q)
  /\ \A k \in 1..Len(q) :
       h[k] = IF q[k].delivered /\ q[k].id <= horizon THEN h[k - 1] ELSE Append(h[k - 1], q[k])

LEMMA FilterSteps ==
  ASSUME NEW q \in Seq(Entry)
  PROVE  \E h : Filters(h, q)
<1> DEFINE n == Len(q)
           V == Seq(Entry)
           step(kept, e) == IF e.delivered /\ e.id <= horizon THEN kept ELSE Append(kept, e)
           G == [p \in (1..n) \X V |-> step(p[2], q[p[1]])]
           F(f) == [s \in SUBSET (1..n) |->
                      IF s = {} THEN <<>> ELSE step(f[s \ {Max(s)}], q[Max(s)])]
           iter == CHOOSE f : f = F(f)
<1>1. n \in Nat /\ DOMAIN q = 1..n /\ \A i \in 1..n : q[i] \in Entry
  BY LenProperties, ElementOfSeq
<1>2. Filtered(q) = iter[1..n]
  BY <1>1 DEF Filtered, FoldLeft, MapThenFoldSet
<1>3. ASSUME NEW i \in 1..n, NEW l \in V PROVE step(l, q[i]) \in V
  BY <1>1, AppendProperties
<1>4. <<>> \in V
  BY EmptySeq
<1> HIDE DEF n, step, V
<1>5. G \in [(1..n) \X V -> V]
  BY <1>3
<1>6. PICK f : Folds(f, n, V, <<>>, G)
  <2> HIDE DEF G
  <2> QED
    BY <1>1, <1>4, <1>5, FoldIsDefined
<1>7. \A s \in SUBSET (1..n) : s # {} => Max(s) \in 1..n
  <2> TAKE s \in SUBSET (1..n)
  <2> HAVE s # {}
  <2>1. s \in SUBSET Int /\ n \in Int /\ \A x \in s : x <= n
    BY <1>1
  <2> QED
    BY <2>1, MaxOfBounded
<1>8. f = F(f)
  <2>1. ASSUME NEW s \in SUBSET (1..n), s # {}
        PROVE  f[s] = step(f[s \ {Max(s)}], q[Max(s)])
    <3>1. f[s] = G[<<Max(s), f[s \ {Max(s)}]>>] /\ f[s \ {Max(s)}] \in V
      <4> HIDE DEF G
      <4> QED
        BY <1>6, <2>1 DEF Folds
    <3> QED
      BY <1>7, <2>1, <3>1
  <2>2. \A s \in SUBSET (1..n) :
          f[s] = IF s = {} THEN <<>> ELSE step(f[s \ {Max(s)}], q[Max(s)])
    BY <1>6, <2>1 DEF Folds
  <2>3. f = [s \in SUBSET (1..n) |-> f[s]]
    BY <1>6 DEF Folds
  <2> QED
    BY <2>2, <2>3, Zenon
<1>9. iter = F(iter)
  BY <1>8
<1>10. iter[1..n] = f[1..n]
  <2> HIDE DEF iter
  <2>1. iter[{}] = f[{}]
    BY <1>8, <1>9
  <2>2. \A s \in SUBSET (1..n) :
          s # {} /\ iter[s \ {Max(s)}] = f[s \ {Max(s)}] => iter[s] = f[s]
    BY <1>8, <1>9
  <2> HIDE DEF F
  <2> QED
    BY <1>1, <2>1, <2>2, FoldIsUnique
<1>11. PICK h : Steps(h, n, V, <<>>, G, f[1..n])
  <2> HIDE DEF G
  <2> QED
    BY <1>1, <1>4, <1>5, <1>6, FoldSteps
<1>12. h \in [0..n -> V] /\ h[0] = <<>> /\ h[n] = Filtered(q)
  BY <1>2, <1>10, <1>11 DEF Steps
<1>13. ASSUME NEW k \in 1..n PROVE h[k] = step(h[k - 1], q[k])
  <2>1. k - 1 \in 0..n
    BY <1>1
  <2>2. h[k] = G[<<k, h[k - 1]>>] /\ h[k - 1] \in V
    <3> HIDE DEF G
    <3> QED
      BY <1>11, <2>1 DEF Steps
  <2> QED
    BY <2>2
<1> QED
  BY <1>12, <1>13 DEF Filters, n, V, step

\* When the entries it drops are the first c, what it keeps are the others.
LEMMA FilterKeepsTheRest ==
  ASSUME NEW q \in Seq(Entry), NEW c \in 0..Len(q),
         \A i \in 1..Len(q) : (q[i].delivered /\ q[i].id <= horizon) <=> i <= c
  PROVE  /\ Filtered(q) \in Seq(Entry) /\ Len(Filtered(q)) = Len(q) - c
         /\ \A i \in 1..(Len(q) - c) : Filtered(q)[i] = q[i + c]
<1> DEFINE n == Len(q)
           m(k) == IF k <= c THEN 0 ELSE k - c
<1>1. PICK h : Filters(h, q)
  BY FilterSteps
<1>2. /\ n \in Nat /\ c \in Nat /\ c <= n /\ \A i \in 1..n : q[i] \in Entry
      /\ h \in [0..n -> Seq(Entry)] /\ h[0] = <<>> /\ h[n] = Filtered(q)
      /\ \A k \in 1..n : h[k] = IF k <= c THEN h[k - 1] ELSE Append(h[k - 1], q[k])
  BY <1>1, LenProperties, ElementOfSeq DEF Filters
<1> HIDE DEF n
<1> DEFINE Rest(k) == Len(h[k]) = m(k) /\ \A i \in 1..m(k) : h[k][i] = q[i + c]
           T == {k \in 0..n : Rest(k)}
<1>3. 0 \in T
  <2>1. 0 \in 0..n /\ m(0) = 0 /\ Len(<<>>) = 0
    BY <1>2
  <2> QED
    BY <1>2, <2>1
<1>4. ASSUME NEW k \in 1..n, k - 1 \in T PROVE k \in T
  <2> DEFINE r == h[k - 1]
             s == h[k]
  <2>1. k \in 0..n /\ k - 1 \in 0..n /\ r \in Seq(Entry) /\ q[k] \in Entry
    <3>1. k \in 0..n /\ k - 1 \in 0..n
      BY <1>2
    <3> QED
      BY <1>2, <3>1
  <2>2. Len(r) = m(k - 1) /\ \A i \in 1..m(k - 1) : r[i] = q[i + c]
    BY <1>4
  <2>3. s = IF k <= c THEN r ELSE Append(r, q[k])
    BY <1>2
  <2> HIDE DEF r, s
  <2>4. Len(s) = m(k) /\ \A i \in 1..m(k) : s[i] = q[i + c]
    <3>1. CASE k <= c
      <4>1. m(k) = 0 /\ m(k - 1) = 0
        BY <1>2, <3>1
      <4> HIDE DEF m
      <4> QED
        BY <2>2, <2>3, <3>1, <4>1
    <3>2. CASE k > c
      <4>1. m(k) = k - c /\ m(k - 1) = k - 1 - c
        BY <1>2, <3>2
      <4>2. s = Append(r, q[k])
        <5>1. ~(k <= c)
          BY <1>2, <3>2
        <5> QED
          BY <2>3, <5>1
      <4>3. /\ Len(s) = Len(r) + 1 /\ s[Len(r) + 1] = q[k]
            /\ \A i \in 1..Len(r) : s[i] = r[i]
        BY <2>1, <4>2, AppendProperties
      <4> HIDE DEF m
      <4>4. ASSUME NEW i \in 1..m(k) PROVE s[i] = q[i + c]
        <5>1. CASE i = k - c
          <6>1. i + c = k /\ i = Len(r) + 1
            BY <1>2, <2>2, <3>2, <4>1, <5>1
          <6> QED
            BY <4>3, <6>1
        <5>2. CASE i # k - c
          <6>1. i \in 1..m(k - 1) /\ i \in 1..Len(r)
            BY <1>2, <2>2, <3>2, <4>1, <5>2
          <6> QED
            BY <2>2, <4>3, <6>1
        <5> QED
          BY <5>1, <5>2
      <4>5. Len(s) = m(k)
        BY <1>2, <2>2, <3>2, <4>1, <4>3
      <4> QED
        BY <4>4, <4>5
    <3> QED
      BY <1>2, <3>1, <3>2
  <2> QED
    BY <2>1, <2>4 DEF s
<1>5. n \in T
  <2> HIDE DEF T
  <2>1. 0..n \subseteq T
    BY <1>2, <1>3, <1>4, InductionUpTo
  <2> QED
    BY <1>2, <2>1
<1>6. m(n) = n - c
  BY <1>2
<1>7. Rest(n)
  BY <1>5
<1>8. n \in 0..n
  BY <1>2
<1>9. Len(h[n]) = n - c /\ \A i \in 1..(n - c) : h[n][i] = q[i + c]
  <2> HIDE DEF m
  <2> QED
    BY <1>6, <1>7
<1> QED
  BY <1>2, <1>8, <1>9 DEF n

\* What cleanupQueue purges of a queue of the relay are its oldest entries,
\* so that a suffix is what its filter keeps.
THEOREM CleanupFilters == Spec => []CleanupIsTheFilter
<1>1. RelayInv => CleanupIsTheFilter
  <2> SUFFICES ASSUME RelayInv, NEW a \in Agents
               PROVE  Cleanup(MarkDelivered(queue[a])) = Filtered(MarkDelivered(queue[a]))
    BY DEF CleanupIsTheFilter
  <2> DEFINE q == MarkDelivered(queue[a])
             n == Len(q)
             purged == {i \in DOMAIN q : q[i].delivered /\ q[i].id <= horizon}
             c == Cardinality(purged)
  <2>1. /\ q \in Seq(Entry) /\ n \in Nat /\ DOMAIN q = 1..n
        /\ \A i \in 1..n : q[i].delivered /\ q[i].id \in Nat
        /\ \A i, j \in 1..n : i < j => q[i].id < q[j].id
    <3> DEFINE o == queue[a]
    <3>1. OrderedQueue(o)
      BY QueuesAreOrdered
    <3>2. /\ o \in Seq(Entry) /\ DOMAIN o = 1..Len(o)
          /\ \A i, j \in 1..Len(o) : i < j => o[i].id < o[j].id
          /\ \A i \in 1..Len(o) : o[i] \in Entry
      BY <3>1, LenProperties, ElementOfSeq DEF OrderedQueue
    <3>3. /\ q \in Seq(Entry) /\ n = Len(o)
          /\ \A i \in 1..n : q[i].id = o[i].id /\ q[i].delivered
      BY <3>2, MarkDeliveredProperties
    <3>4. \A i \in 1..Len(o) : o[i].id \in Nat
      BY <3>2 DEF Entry, MsgIds
    <3> HIDE DEF o, q
    <3>5. n \in Nat /\ DOMAIN q = 1..n
      BY <3>3, LenProperties
    <3> QED
      BY <3>2, <3>3, <3>4, <3>5
  <2> HIDE DEF q, n
  <2>2. horizon \in Nat
    BY DEF RelayInv, TypeOK
  <2>3. purged = 1..c /\ c \in 0..n
    <3>1. purged \in SUBSET (1..n) /\ \A i, j \in 1..n : i < j /\ j \in purged => i \in purged
      BY <2>1, <2>2
    <3> HIDE DEF purged
    <3> QED
      BY <2>1, <3>1, FirstOnes
  <2> HIDE DEF c
  <2>4. \A i \in 1..n : (q[i].delivered /\ q[i].id <= horizon) <=> i <= c
    <3>1. \A i \in 1..n : i \in purged <=> i <= c
      BY <2>1, <2>3
    <3> QED
      BY <2>1, <3>1
  <2> DEFINE s == Filtered(q)
             t == Cleanup(q)
  <2>5. s \in Seq(Entry) /\ Len(s) = n - c /\ \A i \in 1..(n - c) : s[i] = q[i + c]
    BY <2>1, <2>3, <2>4, FilterKeepsTheRest DEF n
  <2>6. t \in Seq(Entry) /\ Len(t) = n - c /\ \A i \in 1..(n - c) : t[i] = q[i + c]
    BY <2>1, CleanupIsRest DEF n, c
  <2> HIDE DEF s, t
  <2>7. s = t
    BY <2>5, <2>6, SeqEqual
  <2> QED
    BY <2>7 DEF s, t, q
<1> QED
  BY <1>1, RelayInvariance, PTL
===============================================================================
