----------------------- MODULE StoreAndForwardProofs -----------------------
(***************************************************************************)
(* Proofs about the storage of messages.  StoreAndForward, for any         *)
(* messages, rounds, queue limit and number of attempts: the inductive     *)
(* invariant StoreInv, and from it the bounds on duplicates and attempts   *)
(* and that what is queued is kept.  MessageHistory, for any contexts,     *)
(* times and page length: what the pages of a changing table may miss and  *)
(* repeat.                                                                 *)
(***************************************************************************)
EXTENDS StoreAndForward, MessageHistory, SequenceLemmas, FiniteSetTheorems, TLAPS

-----------------------------------------------------------------------------
(* Counting rounds and rows                                                *)

\* Sets of rounds are finite and no larger than Rounds, which is not empty.
LEMMA RoundsFinite ==
  /\ Cardinality(Rounds) \in Nat \ {0}
  /\ \A S \in SUBSET Rounds : /\ IsFiniteSet(S)
                              /\ Cardinality(S) \in Nat
                              /\ Cardinality(S) <= Cardinality(Rounds)
<1>1. IsFiniteSet(Rounds) /\ Rounds # {}
  BY ConstantsAssumption
<1>2. Cardinality(Rounds) \in Nat
  BY <1>1, FS_CardinalityType
<1>3. Cardinality(Rounds) # 0
  BY <1>1, FS_EmptySet
<1>4. ASSUME NEW S \in SUBSET Rounds
      PROVE  /\ IsFiniteSet(S)
             /\ Cardinality(S) \in Nat
             /\ Cardinality(S) <= Cardinality(Rounds)
  <2>1. IsFiniteSet(S) /\ Cardinality(S) <= Cardinality(Rounds)
    BY <1>1, FS_Subset
  <2>2. QED
    BY <2>1, FS_CardinalityType
<1>5. QED
  BY <1>2, <1>3, <1>4

\* Removing and adding one round.
LEMMA RoundsAddRemove ==
  ASSUME NEW S \in SUBSET Rounds, NEW r \in Rounds
  PROVE  /\ r \in S => Cardinality(S \ {r}) = Cardinality(S) - 1
         /\ r \notin S => Cardinality(S \cup {r}) = Cardinality(S) + 1
<1>1. IsFiniteSet(S)
  BY RoundsFinite
<1>2. Cardinality(S \ {r}) =
        IF r \in S THEN Cardinality(S) - 1 ELSE Cardinality(S)
  BY <1>1, FS_RemoveElement
<1>3. Cardinality(S \cup {r}) =
        IF r \in S THEN Cardinality(S) ELSE Cardinality(S) + 1
  BY <1>1, FS_AddElement
<1>4. QED
  BY <1>2, <1>3

\* A larger set of rounds has no fewer.
LEMMA RoundsMonotone ==
  ASSUME NEW S \in SUBSET Rounds, NEW T \in SUBSET S
  PROVE  Cardinality(T) <= Cardinality(S)
<1>1. IsFiniteSet(S)
  BY RoundsFinite
<1>2. QED
  BY <1>1, FS_Subset

\* Two disjoint sets of rounds fit into Rounds together.
LEMMA RoundsDisjoint ==
  ASSUME NEW S \in SUBSET Rounds, NEW T \in SUBSET Rounds, S \cap T = {}
  PROVE  Cardinality(S) + Cardinality(T) <= Cardinality(Rounds)
<1>1. IsFiniteSet(S) /\ IsFiniteSet(T)
  BY RoundsFinite
<1>2. Cardinality(S \cup T) = Cardinality(S) + Cardinality(T)
                                - Cardinality(S \cap T)
  BY <1>1, FS_Union
<1>3. Cardinality(S \cap T) = 0
  BY FS_EmptySet
<1>4. Cardinality(S \cup T) <= Cardinality(Rounds)
  BY RoundsFinite
<1>5. QED
  BY <1>2, <1>3, <1>4, RoundsFinite

-----------------------------------------------------------------------------
(* Types                                                                   *)

\* Stamps of the queue are natural numbers.
LEMMA StampType ==
  Cardinality({n \in Msgs : stamp[n] # 0}) \in Nat
<1>1. IsFiniteSet({n \in Msgs : stamp[n] # 0})
  BY ConstantsAssumption, FS_Subset
<1>2. QED
  BY <1>1, FS_CardinalityType

\* What send writes when it gives a message to the queue has its type.
LEMMA QueueForLaterType ==
  ASSUME TypeOK, NEW m \in Msgs, QueueForLater(m)
  PROVE  /\ phase' \in [Msgs -> Phases]
         /\ row' \in [Msgs -> {"none", "pending", "delivered", "deleted"}]
         /\ stamp' \in [Msgs -> Nat]
         /\ expiry' \in [Msgs -> Nat]
         /\ expiring' \in SUBSET Msgs
<1>1. 1 + Cardinality({n \in Msgs : stamp[n] # 0}) \in Nat
  BY StampType
<1>2. clock + 1 \in Nat
  BY ConstantsAssumption DEF TypeOK
<1>3. QED
  BY <1>1, <1>2 DEF QueueForLater, Insert, TypeOK, Phases

\* Every step keeps the types.
LEMMA TypeStep ==
  ASSUME TypeOK, [Next]_vars
  PROVE  TypeOK'
<1> USE DEF TypeOK, database, history, counters
<1>1. CASE SetDeliveryCallback
  BY <1>1 DEF SetDeliveryCallback
<1>2. CASE StartRetryProcessor
  BY <1>2 DEF StartRetryProcessor
<1>3. CASE StopRetryProcessor
  BY <1>3 DEF StopRetryProcessor
<1>4. ASSUME NEW m \in Msgs, Send(m) PROVE TypeOK'
  <2>1. CASE callback
    BY <1>4, <2>1 DEF Send, Phases
  <2>2. CASE ~callback
    <3>1. QueueForLater(m)
      BY <1>4, <2>2 DEF Send
    <3>2. hist' \in [Msgs -> {"none", "undelivered", "delivered", "deleted"}]
      BY <1>4 DEF Send
    <3>3. sentAt' \in [Msgs -> 0..MaxClock]
      BY <1>4 DEF Send
    <3>4. QED
      BY <1>4, <3>1, <3>2, <3>3, QueueForLaterType DEF Send
  <2>3. QED
    BY <2>1, <2>2
<1>5. ASSUME NEW m \in Msgs, SendArrives(m) PROVE TypeOK'
  BY <1>5 DEF SendArrives, Phases
<1>6. ASSUME NEW m \in Msgs, SendConfirmed(m) PROVE TypeOK'
  BY <1>6 DEF SendConfirmed, Phases
<1>7. ASSUME NEW m \in Msgs, SendFailed(m) PROVE TypeOK'
  <2>1. QueueForLater(m)
    BY <1>7 DEF SendFailed
  <2>2. denied' \in [Msgs -> Nat]
    BY <1>7 DEF SendFailed
  <2>3. QED
    BY <1>7, <2>1, <2>2, QueueForLaterType DEF SendFailed
<1>8. ASSUME NEW m \in Msgs, Enqueue(m) PROVE TypeOK'
  <2>1. Insert(m, clock + 1, TRUE)
    BY <1>8 DEF Enqueue
  <2>2. clock + 1 \in Nat
    BY ConstantsAssumption
  <2>3. 1 + Cardinality({n \in Msgs : stamp[n] # 0}) \in Nat
    BY StampType
  <2>4. QED
    BY <1>8, <2>1, <2>2, <2>3 DEF Enqueue, Insert, Phases
<1>9. ASSUME NEW r \in Rounds, NEW a \in Agents, DeliverPending(r, a)
      PROVE  TypeOK'
  <2>1. {m \in Pending : To[m] = a} \in SUBSET Msgs
    BY DEF Pending
  <2>2. started + 1 \in 0..MaxPendingRounds
    BY <1>9, ConstantsAssumption DEF DeliverPending
  <2>3. QED
    BY <1>9, <2>1, <2>2 DEF DeliverPending
<1>10. ASSUME NEW r \in Rounds, ProcessRetries(r) PROVE TypeOK'
  <2>1. ReadyForRetry \in SUBSET Msgs
    BY DEF ReadyForRetry, Pending
  <2>2. QED
    BY <1>10, <2>1 DEF ProcessRetries
<1>11. ASSUME NEW r \in Rounds, NEW m \in Msgs, RoundArrives(r, m)
       PROVE  TypeOK'
  BY <1>11 DEF RoundArrives
<1>12. ASSUME NEW r \in Rounds, NEW m \in Msgs, RoundConfirmed(r, m)
       PROVE  TypeOK'
  BY <1>12 DEF RoundConfirmed
<1>13. ASSUME NEW r \in Rounds, NEW m \in Msgs, RoundFailed(r, m)
       PROVE  TypeOK'
  BY <1>13 DEF RoundFailed, MarkAttempted
<1>14. CASE Maintenance
  BY <1>14 DEF Maintenance
<1>15. ASSUME NEW m \in Msgs, Cool(m) PROVE TypeOK'
  BY <1>15 DEF Cool
<1>16. CASE Tick
  BY <1>16, ConstantsAssumption DEF Tick
<1>17. CASE Crash
  <2>1. \A m \in Msgs : Cardinality({r \in Rounds : busy[r] = m}) \in Nat
    BY RoundsFinite
  <2>2. denied' \in [Msgs -> Nat]
    BY <1>17, <2>1 DEF Crash
  <2>3. crashes' \in 0..MaxCrashes
    BY <1>17, ConstantsAssumption DEF Crash
  <2>4. phase' \in [Msgs -> Phases]
    BY <1>17 DEF Crash, Phases
  <2>5. QED
    BY <1>17, <2>2, <2>3, <2>4 DEF Crash
<1>18. CASE UNCHANGED vars
  BY <1>18 DEF vars
<1>19. QED
  BY <1>1, <1>2, <1>3, <1>4, <1>5, <1>6, <1>7, <1>8, <1>9, <1>10, <1>11,
     <1>12, <1>13, <1>14, <1>15, <1>16, <1>17, <1>18 DEF Next

-----------------------------------------------------------------------------
(* Steps that leave the rounds and the queue alone                         *)

\* Time and configuration disturb nothing.
LEMMA FrameStep ==
  ASSUME StoreInv, TypeOK', clock' \in Nat, clock <= clock',
         UNCHANGED <<phase, row, attempts, expiry, expiring, todo, busy,
                     handed, denied, started>>
  PROVE  StoreInv'
<1>1. RoundsHoldRows'
  BY DEF StoreInv, RoundsHoldRows
<1>2. BeforeTheQueue'
  BY DEF StoreInv, BeforeTheQueue
<1>3. HandedInTheQueue'
  BY DEF StoreInv, HandedInTheQueue, Answering, Holding
<1>4. AttemptsToCome'
  BY DEF StoreInv, AttemptsToCome, Held
<1>5. \A m \in Msgs : Expired(m) => Expired(m)'
  BY DEF Expired, StoreInv, TypeOK
<1>6. QueuedIsKept'
  BY <1>5 DEF StoreInv, QueuedIsKept
<1>7. QueueBounded'
  BY DEF StoreInv, QueueBounded, Pending
<1>8. QED
  BY <1>1, <1>2, <1>3, <1>4, <1>6, <1>7 DEF StoreInv

\* A message without a row is in no snapshot.
LEMMA NoRowNoRound ==
  ASSUME StoreInv, NEW m \in Msgs, row[m] = "none"
  PROVE  Answering(m) = {} /\ Held(m) = {}
<1>1. \A r \in Rounds : m \notin todo[r]
  BY DEF StoreInv, RoundsHoldRows
<1>2. \A r \in Rounds : busy[r] # m
  BY <1>1, ConstantsAssumption DEF StoreInv, RoundsHoldRows
<1>3. QED
  BY <1>1, <1>2 DEF Answering, Held

\* What send does to a message that does not reach the queue.
LEMMA OutsideStep ==
  ASSUME StoreInv, TypeOK', NEW m \in Msgs, row[m] = "none",
         \A n \in Msgs \ {m} : /\ phase'[n] = phase[n]
                               /\ handed'[n] = handed[n]
                               /\ denied'[n] = denied[n],
         phase'[m] # "queued",
         phase'[m] \in {"new", "calling"} => handed'[m] = 0 /\ denied'[m] = 0,
         phase'[m] = "arrived" => handed'[m] = 1 /\ denied'[m] = 0,
         handed'[m] <= denied'[m] + 1,
         UNCHANGED <<row, attempts, expiry, expiring, todo, busy, clock,
                     started>>
  PROVE  StoreInv'
<1>1. RoundsHoldRows'
  BY DEF StoreInv, RoundsHoldRows
<1>2. BeforeTheQueue'
  BY DEF StoreInv, BeforeTheQueue
<1>3. \A n \in Msgs : row[n] # "none" => n # m
  OBVIOUS
<1>4. HandedInTheQueue'
  BY <1>3 DEF StoreInv, HandedInTheQueue, Answering, Holding
<1>5. AttemptsToCome'
  BY DEF StoreInv, AttemptsToCome, Held
<1>6. QueuedIsKept'
  BY DEF StoreInv, QueuedIsKept, Expired
<1>7. QueueBounded'
  BY DEF StoreInv, QueueBounded, Pending
<1>8. QED
  BY <1>1, <1>2, <1>4, <1>5, <1>6, <1>7 DEF StoreInv

\* enqueue, whoever calls it: the row starts with no attempts, and with every
\* time the message was handed over already denied.
LEMMA InsertStep ==
  ASSUME StoreInv, TypeOK', NEW m \in Msgs, row[m] = "none", ~Full,
         row' = [row EXCEPT ![m] = "pending"],
         phase' = [phase EXCEPT ![m] = "queued"],
         \A n \in Msgs \ {m} : /\ handed'[n] = handed[n]
                               /\ denied'[n] = denied[n]
                               /\ expiry'[n] = expiry[n],
         expiring \subseteq expiring',
         handed'[m] = denied'[m],
         UNCHANGED <<attempts, todo, busy, clock, started>>
  PROVE  StoreInv'
<1> USE DEF StoreInv
<1>1. RoundsHoldRows'
  BY DEF RoundsHoldRows, TypeOK
<1>2. BeforeTheQueue'
  BY DEF BeforeTheQueue, TypeOK
<1>3. HandedInTheQueue'
  <2>1. row'[m] = "pending" /\ \A n \in Msgs \ {m} : row'[n] = row[n]
    BY DEF TypeOK
  <2>2. \A n \in Msgs : Answering(n)' = Answering(n) /\ Holding(n)' = Holding(n)
    BY DEF Answering, Holding
  <2>3. Cardinality(Answering(m)) = 0
    BY NoRowNoRound, FS_EmptySet
  <2>4. handed'[m] = denied'[m] + Cardinality(Answering(m))'
    BY <2>2, <2>3 DEF TypeOK
  <2>5. QED
    BY <2>1, <2>2, <2>4 DEF HandedInTheQueue
<1>4. AttemptsToCome'
  <2>1. \A n \in Msgs : Held(n)' = Held(n)
    BY DEF Held
  <2>2. Cardinality(Held(m)) = 0 /\ attempts[m] = 0
    BY NoRowNoRound, FS_EmptySet DEF BeforeTheQueue
  <2>3. attempts[m] + Cardinality(Held(m))
          <= MaxAttempts - 1 + Cardinality(Rounds) + started
    BY <2>2, RoundsFinite, ConstantsAssumption DEF TypeOK
  <2>4. \A n \in Msgs \ {m} : row'[n] = row[n]
    BY DEF TypeOK
  <2>5. QED
    BY <2>1, <2>3, <2>4 DEF AttemptsToCome
<1>5. QueuedIsKept'
  <2>1. row'[m] = "pending"
    BY DEF TypeOK
  <2>2. ASSUME NEW n \in Msgs \ {m}, phase'[n] = "queued"
        PROVE  \/ row'[n] = "pending"
               \/ handed'[n] > 0
               \/ attempts'[n] >= MaxAttempts
               \/ Expired(n)'
    <3>1. phase[n] = "queued" /\ row'[n] = row[n]
      BY <2>2 DEF TypeOK
    <3>2. Expired(n) => Expired(n)'
      BY DEF Expired
    <3>3. QED
      BY <3>1, <3>2 DEF QueuedIsKept
  <2>3. QED
    BY <2>1, <2>2 DEF QueuedIsKept
<1>6. QueueBounded'
  <2>1. Pending' = Pending \cup {m} /\ m \notin Pending
    BY DEF Pending, TypeOK
  <2>2. IsFiniteSet(Pending)
    BY ConstantsAssumption, FS_Subset DEF Pending
  <2>3. Cardinality(Pending)' = Cardinality(Pending) + 1
    BY <2>1, <2>2, FS_AddElement
  <2>4. Cardinality(Pending) < MaxQueueSize
    BY <2>2, FS_CardinalityType, ConstantsAssumption DEF Full
  <2>5. QED
    BY <2>2, <2>3, <2>4, FS_CardinalityType, ConstantsAssumption
       DEF QueueBounded
<1>7. QED
  BY <1>1, <1>2, <1>3, <1>4, <1>5, <1>6

\* The end of send, reached with as many denials as the message was handed
\* over.
LEMMA QueueForLaterStep ==
  ASSUME StoreInv, TypeOK', NEW m \in Msgs, row[m] = "none",
         QueueForLater(m), handed'[m] = denied'[m],
         \A n \in Msgs \ {m} : handed'[n] = handed[n] /\ denied'[n] = denied[n],
         UNCHANGED <<attempts, todo, busy, clock, started>>
  PROVE  StoreInv'
<1>1. CASE Full
  <2>1. phase' = [phase EXCEPT ![m] = "refused"]
    BY <1>1 DEF QueueForLater
  <2>2. phase'[m] = "refused" /\ \A n \in Msgs \ {m} : phase'[n] = phase[n]
    BY <2>1 DEF StoreInv, TypeOK
  <2>3. UNCHANGED <<row, expiry, expiring>>
    BY <1>1 DEF QueueForLater
  <2>4. handed'[m] <= denied'[m] + 1
    BY DEF TypeOK
  <2>5. QED
    BY <2>2, <2>3, <2>4, OutsideStep
<1>2. CASE ~Full
  <2>1. phase' = [phase EXCEPT ![m] = "queued"] /\ Insert(m, clock + 1, FALSE)
    BY <1>2 DEF QueueForLater
  <2>2. /\ row' = [row EXCEPT ![m] = "pending"]
        /\ \A n \in Msgs \ {m} : expiry'[n] = expiry[n]
        /\ expiring \subseteq expiring'
    BY <2>1 DEF Insert, StoreInv, TypeOK
  <2>3. QED
    BY <1>2, <2>1, <2>2, InsertStep
<1>3. QED
  BY <1>1, <1>2

-----------------------------------------------------------------------------
(* Sends                                                                   *)

LEMMA SendStep ==
  ASSUME StoreInv, TypeOK', NEW m \in Msgs, Send(m)
  PROVE  StoreInv'
<1>1. row[m] = "none" /\ handed[m] = 0 /\ denied[m] = 0
  BY DEF StoreInv, BeforeTheQueue, Send
<1>2. CASE callback
  <2>1. phase' = [phase EXCEPT ![m] = "calling"]
    BY <1>2 DEF Send
  <2>2. phase'[m] = "calling" /\ \A n \in Msgs \ {m} : phase'[n] = phase[n]
    BY <2>1 DEF StoreInv, TypeOK
  <2>3. UNCHANGED <<row, attempts, expiry, expiring, todo, busy, clock,
                    started, handed, denied>>
    BY <1>2 DEF Send, history, counters
  <2>4. QED
    BY <1>1, <2>2, <2>3, OutsideStep
<1>3. CASE ~callback
  <2>1. QueueForLater(m)
    BY <1>3 DEF Send
  <2>2. UNCHANGED <<attempts, todo, busy, clock, started, handed, denied>>
    BY DEF Send, history, counters
  <2>3. QED
    BY <1>1, <2>1, <2>2, QueueForLaterStep
<1>4. QED
  BY <1>2, <1>3

\* The callback of a send hands the message over.
LEMMA SendArrivesStep ==
  ASSUME StoreInv, TypeOK', NEW m \in Msgs, SendArrives(m)
  PROVE  StoreInv'
<1>1. row[m] = "none" /\ handed[m] = 0 /\ denied[m] = 0
  BY DEF StoreInv, BeforeTheQueue, SendArrives
<1>2. phase'[m] = "arrived" /\ \A n \in Msgs \ {m} : phase'[n] = phase[n]
  BY DEF SendArrives, StoreInv, TypeOK
<1>3. handed'[m] = 1 /\ \A n \in Msgs \ {m} : handed'[n] = handed[n]
  BY <1>1 DEF SendArrives, StoreInv, TypeOK
<1>4. UNCHANGED <<row, attempts, expiry, expiring, todo, busy, clock, started,
                  denied>>
  BY DEF SendArrives, database, counters
<1>5. QED
  BY <1>1, <1>2, <1>3, <1>4, OutsideStep

\* A confirmed send never reaches the queue.
LEMMA SendConfirmedStep ==
  ASSUME StoreInv, TypeOK', NEW m \in Msgs, SendConfirmed(m)
  PROVE  StoreInv'
<1>1. row[m] = "none" /\ handed[m] = 1 /\ denied[m] = 0
  BY DEF StoreInv, BeforeTheQueue, SendConfirmed
<1>2. phase'[m] = "delivered" /\ \A n \in Msgs \ {m} : phase'[n] = phase[n]
  BY DEF SendConfirmed, StoreInv, TypeOK
<1>3. UNCHANGED <<row, attempts, expiry, expiring, todo, busy, clock, started,
                  handed, denied>>
  BY DEF SendConfirmed, history, counters
<1>4. QED
  BY <1>1, <1>2, <1>3, OutsideStep

\* A send that failed queues the message or refuses it.
LEMMA SendFailedStep ==
  ASSUME StoreInv, TypeOK', NEW m \in Msgs, SendFailed(m)
  PROVE  StoreInv'
<1>1. row[m] = "none"
  BY DEF StoreInv, BeforeTheQueue, SendFailed
<1>2. handed'[m] = denied'[m]
  BY DEF StoreInv, BeforeTheQueue, SendFailed, TypeOK
<1>3. \A n \in Msgs \ {m} : handed'[n] = handed[n] /\ denied'[n] = denied[n]
  BY DEF SendFailed, StoreInv, TypeOK
<1>4. QueueForLater(m)
  BY DEF SendFailed
<1>5. UNCHANGED <<attempts, todo, busy, clock, started>>
  BY DEF SendFailed, counters
<1>6. QED
  BY <1>1, <1>2, <1>3, <1>4, <1>5, QueueForLaterStep

\* A message given to the queue directly was never handed over.
LEMMA EnqueueStep ==
  ASSUME StoreInv, TypeOK', NEW m \in Msgs, Enqueue(m)
  PROVE  StoreInv'
<1>1. row[m] = "none" /\ handed[m] = 0 /\ denied[m] = 0
  BY DEF StoreInv, BeforeTheQueue, Enqueue
<1>2. Insert(m, clock + 1, TRUE)
  BY DEF Enqueue
<1>3. /\ row' = [row EXCEPT ![m] = "pending"]
      /\ \A n \in Msgs \ {m} : expiry'[n] = expiry[n]
      /\ expiring \subseteq expiring'
  BY <1>2 DEF Insert, StoreInv, TypeOK
<1>4. ~Full /\ phase' = [phase EXCEPT ![m] = "queued"]
  BY DEF Enqueue
<1>5. UNCHANGED <<attempts, todo, busy, clock, started, handed, denied>>
  BY DEF Enqueue, history, counters
<1>6. QED
  BY <1>1, <1>3, <1>4, <1>5, InsertStep

-----------------------------------------------------------------------------
(* Rounds                                                                  *)

\* A snapshot taken of messages in the queue by an idle round.  The messages
\* in it fit the bound on attempts one more time.
LEMMA SnapshotStep ==
  ASSUME StoreInv, TypeOK', NEW r \in Rounds, todo[r] = {},
         NEW B \in SUBSET Pending,
         todo' = [todo EXCEPT ![r] = B],
         started <= started',
         \A m \in B : \/ started' = started + 1
                      \/ attempts[m] < MaxAttempts,
         UNCHANGED <<phase, row, attempts, expiry, expiring, busy, clock,
                     handed, denied>>
  PROVE  StoreInv'
<1> USE DEF StoreInv
<1>1. busy[r] = NoMsg
  BY DEF RoundsHoldRows
<1>2. /\ todo'[r] = B
      /\ \A q \in Rounds \ {r} : todo'[q] = todo[q]
  BY DEF TypeOK
<1>3. RoundsHoldRows'
  BY <1>1, <1>2 DEF RoundsHoldRows, Pending
<1>4. BeforeTheQueue'
  BY DEF BeforeTheQueue
<1>5. HandedInTheQueue'
  <2>1. \A m \in Msgs : Answering(m)' = Answering(m)
    BY DEF Answering
  <2>2. \A m \in Msgs : row[m] # "pending" => Holding(m)' = Holding(m)
    BY <1>1, <1>2 DEF Holding, Pending
  <2>3. QED
    BY <2>1, <2>2 DEF HandedInTheQueue
<1>6. AttemptsToCome'
  <2>1. ASSUME NEW m \in Msgs, row[m] # "none"
        PROVE  attempts[m] + Cardinality(Held(m)')
                 <= MaxAttempts - 1 + Cardinality(Rounds) + started'
    <3>1. Held(m) \in SUBSET Rounds /\ Held(m)' \in SUBSET Rounds
      BY DEF Held
    <3>2. /\ Cardinality(Held(m)) \in Nat
          /\ Cardinality(Held(m)') \in Nat
          /\ Cardinality(Held(m)') <= Cardinality(Rounds)
          /\ Cardinality(Rounds) \in Nat
      BY <3>1, RoundsFinite
    <3>3. /\ attempts[m] + Cardinality(Held(m))
               <= MaxAttempts - 1 + Cardinality(Rounds) + started
          /\ attempts[m] \in Nat /\ started \in Nat /\ started' \in Nat
          /\ MaxAttempts \in Nat
      BY <2>1, ConstantsAssumption DEF AttemptsToCome, TypeOK
    <3>4. CASE m \in B /\ started' = started + 1
      <4>1. Held(m)' = Held(m) \cup {r} /\ r \notin Held(m)
        BY <1>2, <3>4 DEF Held
      <4>2. Cardinality(Held(m)') = Cardinality(Held(m)) + 1
        BY <3>1, <4>1, RoundsAddRemove
      <4>3. QED
        BY <3>2, <3>3, <3>4, <4>2
    <3>5. CASE m \in B /\ attempts[m] < MaxAttempts
      BY <3>2, <3>3, <3>5
    <3>6. CASE m \notin B
      <4>1. Held(m)' = Held(m)
        BY <1>2, <3>6 DEF Held
      <4>2. QED
        BY <3>2, <3>3, <4>1
    <3>7. QED
      BY <3>4, <3>5, <3>6
  <2>2. QED
    BY <2>1 DEF AttemptsToCome
<1>7. QueuedIsKept'
  BY DEF QueuedIsKept, Expired
<1>8. QueueBounded'
  BY DEF QueueBounded, Pending
<1>9. QED
  BY <1>3, <1>4, <1>5, <1>6, <1>7, <1>8

\* deliverPending takes a snapshot and uses up one of its rounds.
LEMMA DeliverPendingStep ==
  ASSUME StoreInv, TypeOK', NEW r \in Rounds, NEW a \in Agents,
         DeliverPending(r, a)
  PROVE  StoreInv'
<1> DEFINE B == {m \in Pending : To[m] = a}
<1>1. B \in SUBSET Pending
  OBVIOUS
<1>2. todo[r] = {} /\ todo' = [todo EXCEPT ![r] = B]
  BY DEF DeliverPending
<1>3. started' = started + 1 /\ started <= started'
  BY DEF DeliverPending, StoreInv, TypeOK
<1>4. UNCHANGED <<phase, row, attempts, expiry, expiring, busy, clock, handed,
                  denied>>
  BY DEF DeliverPending, database, history
<1> HIDE DEF B
<1>5. QED
  BY <1>1, <1>2, <1>3, <1>4, SnapshotStep

\* processRetries takes only messages with attempts left.
LEMMA ProcessRetriesStep ==
  ASSUME StoreInv, TypeOK', NEW r \in Rounds, ProcessRetries(r)
  PROVE  StoreInv'
<1>1. PICK B \in SUBSET ReadyForRetry : todo' = [todo EXCEPT ![r] = B]
  BY DEF ProcessRetries
<1>2. B \in SUBSET Pending /\ \A m \in B : attempts[m] < MaxAttempts
  BY DEF ReadyForRetry
<1>3. started' = started /\ started <= started' /\ todo[r] = {}
  BY DEF ProcessRetries, StoreInv, TypeOK, counters
<1>4. UNCHANGED <<phase, row, attempts, expiry, expiring, busy, clock, handed,
                  denied>>
  BY DEF ProcessRetries, database, history
<1>5. QED
  BY <1>1, <1>2, <1>3, <1>4, SnapshotStep

\* A round hands over a message that it holds.
LEMMA RoundArrivesStep ==
  ASSUME StoreInv, TypeOK', NEW r \in Rounds, NEW m \in Msgs,
         RoundArrives(r, m)
  PROVE  StoreInv'
<1> USE DEF StoreInv
<1>1. /\ m \in todo[r] /\ busy[r] = NoMsg /\ busy'[r] = m
      /\ \A q \in Rounds \ {r} : busy'[q] = busy[q]
  BY DEF RoundArrives, Current, IsOldest, TypeOK
<1>2. /\ handed'[m] = handed[m] + 1
      /\ \A n \in Msgs \ {m} : handed'[n] = handed[n]
  BY DEF RoundArrives, TypeOK
<1>3. UNCHANGED <<phase, row, attempts, expiry, expiring, todo, clock, started,
                  denied>>
  BY DEF RoundArrives, database, counters
<1>4. row[m] # "none" /\ m # NoMsg
  BY <1>1, ConstantsAssumption DEF RoundsHoldRows
<1>5. RoundsHoldRows'
  BY <1>1, <1>3 DEF RoundsHoldRows
<1>6. BeforeTheQueue'
  BY <1>2, <1>3, <1>4 DEF BeforeTheQueue
<1>7. HandedInTheQueue'
  <2>1. \A n \in Msgs \ {m} : /\ Answering(n)' = Answering(n)
                              /\ Holding(n)' = Holding(n)
    BY <1>1, <1>3, ConstantsAssumption DEF Answering, Holding
  <2>2. /\ Answering(m)' = Answering(m) \cup {r} /\ r \notin Answering(m)
        /\ Holding(m)' = Holding(m) \ {r} /\ r \in Holding(m)
    BY <1>1, <1>3, <1>4 DEF Answering, Holding
  <2>3. Answering(m) \in SUBSET Rounds /\ Holding(m) \in SUBSET Rounds
    BY DEF Answering, Holding
  <2>4. /\ Cardinality(Answering(m)') = Cardinality(Answering(m)) + 1
        /\ Cardinality(Holding(m)') = Cardinality(Holding(m)) - 1
    BY <2>2, <2>3, RoundsAddRemove
  <2>5. /\ Cardinality(Answering(m)) \in Nat /\ Cardinality(Holding(m)) \in Nat
        /\ Cardinality(Rounds) \in Nat
    BY <2>3, RoundsFinite
  <2>6. /\ row[m] = "pending" =>
             handed'[m] = denied[m] + Cardinality(Answering(m)')
        /\ row[m] \in {"delivered", "deleted"} =>
             handed'[m] + Cardinality(Holding(m)')
               <= denied[m] + Cardinality(Rounds)
    BY <1>2, <2>4, <2>5 DEF HandedInTheQueue, TypeOK
  <2>7. QED
    BY <1>2, <1>3, <2>1, <2>6 DEF HandedInTheQueue
<1>8. AttemptsToCome'
  BY <1>3 DEF AttemptsToCome, Held
<1>9. QueuedIsKept'
  BY <1>2, <1>3 DEF QueuedIsKept, Expired, TypeOK
<1>10. QueueBounded'
  BY <1>3 DEF QueueBounded, Pending
<1>11. QED
  BY <1>5, <1>6, <1>7, <1>8, <1>9, <1>10

\* A round that settles m holds it no longer, which leaves room for one more
\* attempt.
LEMMA SettledIsReleased ==
  ASSUME StoreInv, NEW r \in Rounds, NEW m \in Msgs, m \in todo[r],
         busy[r] \in {NoMsg, m},
         todo' = [todo EXCEPT ![r] = @ \ {m}],
         busy' = [busy EXCEPT ![r] = NoMsg]
  PROVE  /\ \A q \in Rounds, n \in Msgs :
              /\ n \in todo'[q] <=> n \in todo[q] /\ (q # r \/ n # m)
              /\ busy'[q] = n <=> busy[q] = n /\ q # r
         /\ \A n \in Msgs \ {m} : /\ Answering(n)' = Answering(n)
                                 /\ Holding(n)' = Holding(n)
                                 /\ Held(n)' = Held(n)
         /\ Answering(m)' = Answering(m) \ {r}
         /\ Holding(m)' = Holding(m) \ {r}
         /\ Cardinality(Held(m)') = Cardinality(Held(m)) - 1
         /\ Cardinality(Held(m)) \in Nat
<1>1. /\ todo'[r] = todo[r] \ {m} /\ busy'[r] = NoMsg
      /\ \A q \in Rounds \ {r} : todo'[q] = todo[q] /\ busy'[q] = busy[q]
      /\ \A n \in Msgs : n # NoMsg
  BY ConstantsAssumption DEF StoreInv, TypeOK
<1>2. \A q \in Rounds, n \in Msgs :
        /\ n \in todo'[q] <=> n \in todo[q] /\ (q # r \/ n # m)
        /\ busy'[q] = n <=> busy[q] = n /\ q # r
  BY <1>1
<1>3. \A n \in Msgs \ {m} : Answering(n)' = Answering(n)
  BY <1>2, <1>1 DEF Answering
<1>4. \A n \in Msgs \ {m} : Holding(n)' = Holding(n)
  BY <1>2, <1>1 DEF Holding
<1>5. \A n \in Msgs \ {m} : Held(n)' = Held(n)
  BY <1>2 DEF Held
<1>6. Answering(m)' = Answering(m) \ {r}
  BY <1>2 DEF Answering
<1>7. Holding(m)' = Holding(m) \ {r}
  BY <1>2 DEF Holding
<1>8. Held(m)' = Held(m) \ {r} /\ r \in Held(m) /\ Held(m) \in SUBSET Rounds
  BY <1>2 DEF Held
<1>9. Cardinality(Held(m)') = Cardinality(Held(m)) - 1
  BY <1>8, RoundsAddRemove
<1>10. QED
  BY <1>2, <1>3, <1>4, <1>5, <1>6, <1>7, <1>8, <1>9, RoundsFinite

\* A confirmed message leaves the queue and the snapshot.
LEMMA RoundConfirmedStep ==
  ASSUME StoreInv, TypeOK', NEW r \in Rounds, NEW m \in Msgs,
         RoundConfirmed(r, m)
  PROVE  StoreInv'
<1> USE DEF StoreInv
<1>1. /\ m \in todo[r] /\ busy[r] = m
      /\ todo' = [todo EXCEPT ![r] = @ \ {m}]
      /\ busy' = [busy EXCEPT ![r] = NoMsg]
  BY DEF RoundConfirmed, Current, IsOldest
<1>2. /\ row'[m] = IF row[m] = "pending" THEN "delivered" ELSE row[m]
      /\ \A n \in Msgs \ {m} : row'[n] = row[n]
  BY DEF RoundConfirmed, TypeOK
<1>3. UNCHANGED <<phase, attempts, expiry, expiring, clock, started, handed,
                  denied>>
  BY DEF RoundConfirmed, history, counters
<1>4. row[m] # "none"
  BY <1>1 DEF RoundsHoldRows
<1>5. RoundsHoldRows'
  BY <1>1, <1>2, <1>4, SettledIsReleased DEF RoundsHoldRows, TypeOK
<1>6. BeforeTheQueue'
  BY <1>2, <1>3, <1>4 DEF BeforeTheQueue
<1>7. /\ Answering(m) \in SUBSET Rounds /\ Holding(m) \in SUBSET Rounds
      /\ r \in Answering(m) /\ Answering(m) \cap Holding(m) = {}
  BY <1>1 DEF Answering, Holding
<1>8. /\ Cardinality(Answering(m)) \in Nat /\ Cardinality(Holding(m)) \in Nat
      /\ Cardinality(Rounds) \in Nat /\ Cardinality(Answering(m)) # 0
      /\ Cardinality(Answering(m)) + Cardinality(Holding(m))
           <= Cardinality(Rounds)
  BY <1>7, RoundsFinite, RoundsDisjoint, FS_EmptySet
<1>9. HandedInTheQueue'
  <2>1. Holding(m)' = Holding(m)
    <3>1. Holding(m)' = Holding(m) \ {r}
      BY <1>1, SettledIsReleased
    <3>2. QED
      BY <1>7, <3>1
  <2>2. handed[m] + Cardinality(Holding(m)) <= denied[m] + Cardinality(Rounds)
    <3>1. CASE row[m] = "pending"
      BY <1>8, <3>1 DEF HandedInTheQueue, TypeOK
    <3>2. CASE row[m] # "pending"
      BY <1>4, <3>2 DEF HandedInTheQueue, TypeOK
    <3>3. QED
      BY <3>1, <3>2
  <2>3. row'[m] # "pending"
    BY <1>2
  <2>4. \A n \in Msgs \ {m} : Answering(n)' = Answering(n) /\ Holding(n)' = Holding(n)
    BY <1>1, SettledIsReleased
  <2>5. QED
    BY <1>2, <1>3, <2>1, <2>2, <2>3, <2>4 DEF HandedInTheQueue
<1>10. AttemptsToCome'
  <2>1. /\ \A n \in Msgs \ {m} : Held(n)' = Held(n)
        /\ Cardinality(Held(m)') = Cardinality(Held(m)) - 1
        /\ Cardinality(Held(m)) \in Nat
    BY <1>1, SettledIsReleased
  <2>2. attempts[m] + Cardinality(Held(m)')
          <= MaxAttempts - 1 + Cardinality(Rounds) + started
    BY <1>4, <1>8, <2>1, ConstantsAssumption DEF AttemptsToCome, TypeOK
  <2>3. QED
    BY <1>2, <1>3, <2>1, <2>2 DEF AttemptsToCome
<1>11. QueuedIsKept'
  <2>1. row[m] = "pending" => handed[m] > 0
    BY <1>8 DEF HandedInTheQueue, TypeOK
  <2>2. QED
    BY <1>2, <1>3, <2>1 DEF QueuedIsKept, Expired
<1>12. QueueBounded'
  <2>1. Pending' \subseteq Pending /\ IsFiniteSet(Pending)
    BY <1>2, ConstantsAssumption, FS_Subset DEF Pending
  <2>2. Cardinality(Pending') <= Cardinality(Pending)
    BY <2>1, FS_Subset
  <2>3. QED
    BY <2>1, <2>2, FS_Subset, FS_CardinalityType, ConstantsAssumption
       DEF QueueBounded
<1>13. QED
  BY <1>5, <1>6, <1>9, <1>10, <1>11, <1>12

\* An unconfirmed message is denied, attempted and let go.
LEMMA RoundFailedStep ==
  ASSUME StoreInv, TypeOK', NEW r \in Rounds, NEW m \in Msgs,
         RoundFailed(r, m)
  PROVE  StoreInv'
<1> USE DEF StoreInv
<1>1. /\ m \in todo[r] /\ busy[r] \in {NoMsg, m} /\ m # NoMsg
      /\ todo' = [todo EXCEPT ![r] = @ \ {m}]
      /\ busy' = [busy EXCEPT ![r] = NoMsg]
  BY ConstantsAssumption DEF RoundFailed, Current, IsOldest
<1>2. /\ denied'[m] = IF busy[r] = m THEN denied[m] + 1 ELSE denied[m]
      /\ \A n \in Msgs \ {m} : denied'[n] = denied[n]
  BY DEF RoundFailed, TypeOK
<1>3. /\ attempts'[m] \in {attempts[m], attempts[m] + 1}
      /\ \A n \in Msgs \ {m} : attempts'[n] = attempts[n]
  BY DEF RoundFailed, MarkAttempted, TypeOK
<1>4. UNCHANGED <<phase, row, expiry, expiring, clock, started, handed>>
  BY DEF RoundFailed, counters
<1>5. row[m] # "none"
  BY <1>1 DEF RoundsHoldRows
<1>6. RoundsHoldRows'
  BY <1>1, <1>4, SettledIsReleased DEF RoundsHoldRows, TypeOK
<1>7. BeforeTheQueue'
  BY <1>2, <1>3, <1>4, <1>5 DEF BeforeTheQueue
<1>8. Answering(m) \in SUBSET Rounds /\ Holding(m) \in SUBSET Rounds
  BY DEF Answering, Holding
<1>9. /\ Cardinality(Answering(m)) \in Nat /\ Cardinality(Holding(m)) \in Nat
      /\ Cardinality(Rounds) \in Nat
  BY <1>8, RoundsFinite
<1>10. HandedInTheQueue'
  <2>1. /\ Answering(m)' = Answering(m) \ {r}
        /\ Holding(m)' = Holding(m) \ {r}
        /\ \A n \in Msgs \ {m} : /\ Answering(n)' = Answering(n)
                                /\ Holding(n)' = Holding(n)
    BY <1>1, SettledIsReleased
  <2>2. CASE busy[r] = m
    <3>1. r \in Answering(m) /\ r \notin Holding(m)
      BY <2>2 DEF Answering, Holding
    <3>2. /\ Cardinality(Answering(m)') = Cardinality(Answering(m)) - 1
          /\ Holding(m)' = Holding(m)
      BY <1>8, <2>1, <3>1, RoundsAddRemove
    <3>3. /\ row[m] = "pending" =>
               handed[m] = denied'[m] + Cardinality(Answering(m)')
          /\ row[m] \in {"delivered", "deleted"} =>
               handed[m] + Cardinality(Holding(m)')
                 <= denied'[m] + Cardinality(Rounds)
      BY <1>2, <1>9, <2>2, <3>2 DEF HandedInTheQueue, TypeOK
    <3>4. QED
      BY <1>2, <1>4, <2>1, <3>3 DEF HandedInTheQueue
  <2>3. CASE busy[r] = NoMsg
    <3>1. r \notin Answering(m) /\ r \in Holding(m)
      BY <1>1, <2>3 DEF Answering, Holding
    <3>2. /\ Answering(m)' = Answering(m)
          /\ Cardinality(Holding(m)') = Cardinality(Holding(m)) - 1
      BY <1>8, <2>1, <3>1, RoundsAddRemove
    <3>3. /\ row[m] = "pending" =>
               handed[m] = denied'[m] + Cardinality(Answering(m)')
          /\ row[m] \in {"delivered", "deleted"} =>
               handed[m] + Cardinality(Holding(m)')
                 <= denied'[m] + Cardinality(Rounds)
      BY <1>1, <1>2, <1>9, <2>3, <3>2 DEF HandedInTheQueue, TypeOK
    <3>4. QED
      BY <1>2, <1>4, <2>1, <3>3 DEF HandedInTheQueue
  <2>4. QED
    BY <1>1, <2>2, <2>3
<1>11. AttemptsToCome'
  <2>1. /\ \A n \in Msgs \ {m} : Held(n)' = Held(n)
        /\ Cardinality(Held(m)') = Cardinality(Held(m)) - 1
        /\ Cardinality(Held(m)) \in Nat
    BY <1>1, SettledIsReleased
  <2>2. attempts'[m] + Cardinality(Held(m)')
          <= MaxAttempts - 1 + Cardinality(Rounds) + started
    BY <1>3, <1>5, <1>9, <2>1, ConstantsAssumption DEF AttemptsToCome, TypeOK
  <2>3. QED
    BY <1>3, <1>4, <2>1, <2>2 DEF AttemptsToCome
<1>12. QueuedIsKept'
  <2>1. \A n \in Msgs : attempts'[n] >= attempts[n]
    BY <1>3 DEF TypeOK
  <2>2. \A n \in Msgs : attempts[n] >= MaxAttempts => attempts'[n] >= MaxAttempts
    BY <2>1, ConstantsAssumption DEF TypeOK
  <2>3. QED
    BY <1>4, <2>2 DEF QueuedIsKept, Expired
<1>13. QueueBounded'
  BY <1>4 DEF QueueBounded, Pending
<1>14. QED
  BY <1>6, <1>7, <1>10, <1>11, <1>12, <1>13

-----------------------------------------------------------------------------
(* Maintenance and crashes                                                 *)

LEMMA MaintenanceStep ==
  ASSUME StoreInv, TypeOK', Maintenance
  PROVE  StoreInv'
<1> USE DEF StoreInv
<1>1. \A m \in Msgs :
        /\ row'[m] \in {row[m], "deleted"}
        /\ row'[m] = "none" <=> row[m] = "none"
        /\ row'[m] # row[m] =>
             \/ row[m] = "delivered"
             \/ row[m] = "pending" /\ (Expired(m) \/ Failed(m))
  BY DEF Maintenance, TypeOK
<1>2. UNCHANGED <<phase, attempts, expiry, expiring, todo, busy, clock, started,
                  handed, denied>>
  BY DEF Maintenance, history, counters
<1>3. RoundsHoldRows'
  BY <1>1, <1>2 DEF RoundsHoldRows, TypeOK
<1>4. BeforeTheQueue'
  BY <1>1, <1>2 DEF BeforeTheQueue
<1>5. HandedInTheQueue'
  <2>1. \A m \in Msgs : Answering(m)' = Answering(m) /\ Holding(m)' = Holding(m)
    BY <1>2 DEF Answering, Holding
  <2>2. ASSUME NEW m \in Msgs, row[m] # "none"
        PROVE  handed[m] + Cardinality(Holding(m))
                 <= denied[m] + Cardinality(Rounds)
    <3>1. CASE row[m] = "pending"
      <4>1. /\ Answering(m) \in SUBSET Rounds /\ Holding(m) \in SUBSET Rounds
            /\ Answering(m) \cap Holding(m) = {}
        BY DEF Answering, Holding
      <4>2. /\ Cardinality(Answering(m)) + Cardinality(Holding(m))
                 <= Cardinality(Rounds)
            /\ Cardinality(Answering(m)) \in Nat
            /\ Cardinality(Holding(m)) \in Nat
            /\ Cardinality(Rounds) \in Nat
        BY <4>1, RoundsDisjoint, RoundsFinite
      <4>3. QED
        BY <3>1, <4>2 DEF HandedInTheQueue, TypeOK
    <3>2. CASE row[m] # "pending"
      BY <2>2, <3>2 DEF HandedInTheQueue, TypeOK
    <3>3. QED
      BY <3>1, <3>2
  <2>3. QED
    BY <1>1, <1>2, <2>1, <2>2 DEF HandedInTheQueue
<1>6. AttemptsToCome'
  BY <1>1, <1>2 DEF AttemptsToCome, Held
<1>7. QueuedIsKept'
  BY <1>1, <1>2 DEF QueuedIsKept, Expired, Failed
<1>8. QueueBounded'
  <2>1. Pending' \subseteq Pending /\ IsFiniteSet(Pending)
    BY <1>1, ConstantsAssumption, FS_Subset DEF Pending
  <2>2. Cardinality(Pending') <= Cardinality(Pending)
    BY <2>1, FS_Subset
  <2>3. QED
    BY <2>1, <2>2, FS_Subset, FS_CardinalityType, ConstantsAssumption
       DEF QueueBounded
<1>9. QED
  BY <1>3, <1>4, <1>5, <1>6, <1>7, <1>8

\* A crash ends all rounds, and what they had handed over is denied.
LEMMA CrashStep ==
  ASSUME StoreInv, TypeOK', Crash
  PROVE  StoreInv'
<1> USE DEF StoreInv
<1>1. \A r \in Rounds : todo'[r] = {} /\ busy'[r] = NoMsg
  BY DEF Crash
<1>2. \A m \in Msgs :
        /\ phase'[m] = "queued" <=> phase[m] = "queued"
        /\ phase'[m] \notin {"calling", "arrived"}
        /\ phase'[m] = "new" => phase[m] = "new"
  BY DEF Crash
<1>3. \A m \in Msgs :
        denied'[m] = denied[m] + Cardinality(Answering(m))
                               + (IF phase[m] = "arrived" THEN 1 ELSE 0)
  BY DEF Crash, Answering
<1>4. UNCHANGED <<row, attempts, expiry, expiring, clock, started, handed>>
  BY DEF Crash, database
<1>5. \A m \in Msgs :
        /\ Answering(m)' = {} /\ Holding(m)' = {} /\ Held(m)' = {}
        /\ Cardinality(Answering(m)') = 0
        /\ Cardinality(Holding(m)') = 0
        /\ Cardinality(Held(m)') = 0
  BY <1>1, ConstantsAssumption, FS_EmptySet DEF Answering, Holding, Held
<1>6. \A m \in Msgs : /\ Cardinality(Answering(m)) \in Nat
                       /\ Cardinality(Holding(m)) \in Nat
                       /\ Cardinality(Held(m)) \in Nat
                       /\ Cardinality(Rounds) \in Nat
  BY RoundsFinite DEF Answering, Holding, Held
<1>7. RoundsHoldRows'
  BY <1>1 DEF RoundsHoldRows
<1>8. BeforeTheQueue'
  <2>1. \A m \in Msgs : row[m] = "none" => Cardinality(Answering(m)) = 0
    BY NoRowNoRound, FS_EmptySet
  <2>2. QED
    BY <1>2, <1>3, <1>4, <2>1 DEF BeforeTheQueue, TypeOK
<1>9. HandedInTheQueue'
  <2>1. ASSUME NEW m \in Msgs
        PROVE  /\ row[m] = "pending" => handed[m] = denied'[m]
               /\ row[m] \in {"delivered", "deleted"} =>
                    handed[m] <= denied'[m] + Cardinality(Rounds)
    <3>1. row[m] # "none" => denied'[m] = denied[m] + Cardinality(Answering(m))
      BY <1>3, <1>6 DEF BeforeTheQueue, TypeOK
    <3>2. QED
      BY <1>6, <3>1 DEF HandedInTheQueue, TypeOK
  <2>2. QED
    BY <1>4, <1>5, <2>1 DEF HandedInTheQueue, TypeOK
<1>10. AttemptsToCome'
  BY <1>4, <1>5, <1>6, ConstantsAssumption DEF AttemptsToCome, TypeOK
<1>11. QueuedIsKept'
  BY <1>2, <1>4 DEF QueuedIsKept, Expired
<1>12. QueueBounded'
  BY <1>4 DEF QueueBounded, Pending
<1>13. QED
  BY <1>7, <1>8, <1>9, <1>10, <1>11, <1>12

-----------------------------------------------------------------------------
(* The theorems                                                            *)

\* The database is empty and no round runs.
LEMMA StoreInitially ==
  ASSUME Init
  PROVE  StoreInv
<1> USE DEF Init
<1>1. TypeOK
  <2>1. 0 \in 0..MaxClock /\ 0 \in 0..MaxPendingRounds /\ 0 \in 0..MaxCrashes
    BY ConstantsAssumption
  <2>2. /\ phase \in [Msgs -> Phases]
        /\ hist \in [Msgs -> {"none", "undelivered", "delivered", "deleted"}]
        /\ row \in [Msgs -> {"none", "pending", "delivered", "deleted"}]
    BY DEF Phases
  <2>3. /\ attempts \in [Msgs -> Nat] /\ stamp \in [Msgs -> Nat]
        /\ expiry \in [Msgs -> Nat] /\ handed \in [Msgs -> Nat]
        /\ denied \in [Msgs -> Nat] /\ sentAt \in [Msgs -> 0..MaxClock]
    BY <2>1
  <2>4. /\ todo \in [Rounds -> SUBSET Msgs]
        /\ busy \in [Rounds -> Msgs \cup {NoMsg}]
        /\ resting \in SUBSET Msgs /\ expiring \in SUBSET Msgs
    OBVIOUS
  <2>5. QED
    BY <2>1, <2>2, <2>3, <2>4 DEF TypeOK
<1>2. RoundsHoldRows /\ BeforeTheQueue /\ HandedInTheQueue /\ AttemptsToCome
  BY DEF RoundsHoldRows, BeforeTheQueue, HandedInTheQueue, AttemptsToCome
<1>3. QueuedIsKept
  BY DEF QueuedIsKept
<1>4. Pending = {}
  BY DEF Pending
<1>5. QueueBounded
  BY <1>4, FS_EmptySet, ConstantsAssumption DEF QueueBounded
<1>6. QED
  BY <1>1, <1>2, <1>3, <1>5 DEF StoreInv

\* Every step keeps the inductive invariant.
LEMMA StoreStep ==
  ASSUME StoreInv, [Next]_vars
  PROVE  StoreInv'
<1>1. TypeOK'
  BY TypeStep DEF StoreInv
<1>2. CASE UNCHANGED <<phase, row, attempts, expiry, expiring, todo, busy,
                       handed, denied, started, clock>>
  <2>1. clock' \in Nat /\ clock <= clock'
    BY <1>2, ConstantsAssumption DEF StoreInv, TypeOK
  <2>2. QED
    BY <1>1, <1>2, <2>1, FrameStep
<1>3. CASE SetDeliveryCallback
  BY <1>2, <1>3 DEF SetDeliveryCallback, database, history, counters
<1>4. CASE StartRetryProcessor
  BY <1>2, <1>4 DEF StartRetryProcessor, database, history, counters
<1>5. CASE StopRetryProcessor
  BY <1>2, <1>5 DEF StopRetryProcessor, database, history, counters
<1>6. ASSUME NEW m \in Msgs, Cool(m) PROVE StoreInv'
  BY <1>2, <1>6 DEF Cool, history, counters
<1>7. CASE Tick
  <2>1. clock' \in Nat /\ clock <= clock'
    BY <1>7, ConstantsAssumption DEF Tick, StoreInv, TypeOK
  <2>2. UNCHANGED <<phase, row, attempts, expiry, expiring, todo, busy,
                    handed, denied, started>>
    BY <1>7 DEF Tick, history, counters
  <2>3. QED
    BY <1>1, <2>1, <2>2, FrameStep
<1>8. CASE UNCHANGED vars
  BY <1>2, <1>8 DEF vars, database, history, counters
<1>9. QED
  BY <1>1, <1>3, <1>4, <1>5, <1>6, <1>7, <1>8, SendStep, SendArrivesStep,
     SendConfirmedStep, SendFailedStep, EnqueueStep, DeliverPendingStep,
     ProcessRetriesStep, RoundArrivesStep, RoundConfirmedStep, RoundFailedStep,
     MaintenanceStep, CrashStep DEF Next

\* The inductive invariant holds of every run of the store, whatever the
\* number of messages, rounds, crashes and limits.
THEOREM StoreInvariance == Spec => []StoreInv
<1>1. Init => StoreInv
  BY StoreInitially
<1>2. StoreInv /\ [Next]_vars => StoreInv'
  BY StoreStep
<1>3. QED
  BY <1>1, <1>2, PTL DEF Spec

\* Every variable of the store keeps its type.
THEOREM StoreTypeCorrect == Spec => []TypeOK
<1>1. StoreInv => TypeOK
  BY DEF StoreInv
<1>2. QED
  BY <1>1, StoreInvariance, PTL

\* Overlapping rounds and crashes never hand a message over more often than
\* once per denial and once per concurrent round.
THEOREM FewDuplicates == Spec => []DuplicatesBounded
<1>1. StoreInv => DuplicatesBounded
  <2>1. ASSUME StoreInv, NEW m \in Msgs
        PROVE  handed[m] <= denied[m] + Cardinality(Rounds)
    <3>1. Answering(m) \in SUBSET Rounds /\ Holding(m) \in SUBSET Rounds
      BY DEF Answering, Holding
    <3>2. /\ Cardinality(Answering(m)) \in Nat
          /\ Cardinality(Answering(m)) <= Cardinality(Rounds)
          /\ Cardinality(Holding(m)) \in Nat
          /\ Cardinality(Rounds) \in Nat \ {0}
      BY <3>1, RoundsFinite
    <3>3. CASE row[m] = "none"
      BY <2>1, <3>2, <3>3 DEF StoreInv, BeforeTheQueue, TypeOK
    <3>4. CASE row[m] = "pending"
      BY <2>1, <3>2, <3>4 DEF StoreInv, HandedInTheQueue, TypeOK
    <3>5. CASE row[m] \in {"delivered", "deleted"}
      BY <2>1, <3>2, <3>5 DEF StoreInv, HandedInTheQueue, TypeOK
    <3>6. QED
      BY <2>1, <3>3, <3>4, <3>5 DEF StoreInv, TypeOK
  <2>2. QED
    BY <2>1 DEF DuplicatesBounded
<1>2. QED
  BY <1>1, StoreInvariance, PTL

\* Overlapping rounds exceed maxAttempts by no more than their number allows.
THEOREM FewAttempts == Spec => []AttemptsBounded
<1>1. StoreInv => AttemptsBounded
  <2>1. ASSUME StoreInv, NEW m \in Msgs
        PROVE  attempts[m] <= MaxAttempts - 1 + Cardinality(Rounds) + started
    <3>1. /\ Cardinality(Held(m)) \in Nat
          /\ Cardinality(Rounds) \in Nat \ {0}
      BY RoundsFinite DEF Held
    <3>2. CASE row[m] = "none"
      BY <2>1, <3>1, <3>2, ConstantsAssumption
         DEF StoreInv, BeforeTheQueue, TypeOK
    <3>3. CASE row[m] # "none"
      BY <2>1, <3>1, <3>3, ConstantsAssumption
         DEF StoreInv, AttemptsToCome, TypeOK
    <3>4. QED
      BY <3>2, <3>3
  <2>2. QED
    BY <2>1 DEF AttemptsBounded
<1>2. QED
  BY <1>1, StoreInvariance, PTL

\* What send reported as queued is delivered, exhausted, expired or still
\* there.
THEOREM QueuedMessagesKept == Spec => []QueuedIsKept
<1>1. StoreInv => QueuedIsKept
  BY DEF StoreInv
<1>2. QED
  BY <1>1, StoreInvariance, PTL

-----------------------------------------------------------------------------
(* Pages of the history.  A page is told by how many rows come before, so    *)
(* what is ahead of a reader is what has at least so many rows before it:    *)
(* its number is known, and a change of the table moves that border by no    *)
(* more rows than it touches.                                                *)

Beyond(P, R, o) == {i \in P : Cardinality(Below(P, R, i)) >= o}

\* Of an order of n, n - o have o or more before them.
LEMMA BeyondCount ==
  ASSUME NEW P, IsFiniteSet(P), NEW R, IsOrder(P, R), NEW o \in Nat
  PROVE  /\ IsFiniteSet(Beyond(P, R, o))
         /\ Cardinality(P) \in Nat
         /\ Cardinality(Beyond(P, R, o)) =
              IF o <= Cardinality(P) THEN Cardinality(P) - o ELSE 0
<1> DEFINE n == Cardinality(P)
           rank == [i \in P |-> Cardinality(Below(P, R, i))]
           B == Beyond(P, R, o)
           g == [i \in B |-> rank[i]]
<1>1. /\ n \in Nat
      /\ rank \in Injection(P, 0..(n - 1))
      /\ rank \in Surjection(P, 0..(n - 1))
  BY RanksAreAll
<1>2. B \in SUBSET P /\ \A i \in P : i \in B <=> rank[i] >= o
  BY DEF Beyond
<1>3. IsFiniteSet(B)
  BY <1>2, FS_Subset
<1> HIDE DEF rank, B, n
<1>4. g \in [B -> o..(n - 1)]
  <2>1. \A i \in B : rank[i] \in 0..(n - 1) /\ rank[i] >= o
    BY <1>1, <1>2 DEF Injection
  <2> QED
    BY <1>1, <2>1
<1>5. g \in Injection(B, o..(n - 1))
  BY <1>1, <1>2, <1>4 DEF Injection, IsInjective
<1>6. g \in Surjection(B, o..(n - 1))
  <2>1. ASSUME NEW k \in o..(n - 1)
        PROVE  \E i \in B : g[i] = k
    <3>1. k \in 0..(n - 1) /\ k >= o
      BY <1>1
    <3>2. PICK i \in P : rank[i] = k
      BY <1>1, <3>1 DEF Surjection
    <3> QED
      BY <1>2, <3>1, <3>2
  <2> QED
    BY <1>4, <2>1 DEF Surjection
<1> HIDE DEF g
<1>7. Cardinality(o..(n - 1)) = Cardinality(B)
  BY <1>3, <1>5, <1>6, FS_Surjection
<1>8. Cardinality(o..(n - 1)) = IF o <= n THEN n - o ELSE 0
  <2>1. n - 1 \in Int /\ o \in Int
    BY <1>1
  <2>2. Cardinality(o..(n - 1)) = IF o > n - 1 THEN 0 ELSE (n - 1) - o + 1
    BY <2>1, FS_Interval
  <2> QED
    BY <1>1, <2>2
<1> QED
  BY <1>1, <1>3, <1>7, <1>8 DEF n, B

\* What is beyond a border among some of the rows is beyond it among all, and
\* the others are no more than the rows that some lack.
LEMMA BeyondMoves ==
  ASSUME NEW P, IsFiniteSet(P), NEW R, IsOrder(P, R), NEW Q \in SUBSET P, NEW o \in Nat
  PROVE  /\ Beyond(Q, R, o) \subseteq Beyond(P, R, o)
         /\ IsFiniteSet(P \ Q) /\ Cardinality(P \ Q) \in Nat
         /\ IsFiniteSet(Beyond(P, R, o) \ Beyond(Q, R, o))
         /\ Cardinality(Beyond(P, R, o) \ Beyond(Q, R, o)) <= Cardinality(P \ Q)
<1>1. IsFiniteSet(Q) /\ IsOrder(Q, R)
  BY FS_Subset DEF IsOrder
<1>2. ASSUME NEW i \in Q
      PROVE  Cardinality(Below(Q, R, i)) >= o => Cardinality(Below(P, R, i)) >= o
  <2>1. Below(Q, R, i) \in SUBSET Below(P, R, i) /\ Below(P, R, i) \in SUBSET P
    BY DEF Below
  <2>2. IsFiniteSet(Below(P, R, i)) /\ IsFiniteSet(Below(Q, R, i))
    BY <2>1, FS_Subset
  <2>3. /\ Cardinality(Below(Q, R, i)) <= Cardinality(Below(P, R, i))
        /\ Cardinality(Below(Q, R, i)) \in Nat /\ Cardinality(Below(P, R, i)) \in Nat
    BY <2>1, <2>2, FS_Subset, FS_CardinalityType
  <2> QED
    BY <2>3
<1>3. Beyond(Q, R, o) \subseteq Beyond(P, R, o)
  BY <1>2 DEF Beyond
<1> DEFINE BP == Beyond(P, R, o)
           BQ == Beyond(Q, R, o)
<1>4. /\ IsFiniteSet(BP) /\ IsFiniteSet(BQ)
      /\ Cardinality(P) \in Nat /\ Cardinality(Q) \in Nat
      /\ Cardinality(BP) = IF o <= Cardinality(P) THEN Cardinality(P) - o ELSE 0
      /\ Cardinality(BQ) = IF o <= Cardinality(Q) THEN Cardinality(Q) - o ELSE 0
  BY <1>1, BeyondCount
<1> HIDE DEF BP, BQ
<1>5. /\ IsFiniteSet(BP \ BQ)
      /\ Cardinality(BP \ BQ) = Cardinality(BP) - Cardinality(BP \cap BQ)
      /\ BP \cap BQ = BQ
  BY <1>3, <1>4, FS_Difference DEF BP, BQ
<1>6. /\ IsFiniteSet(P \ Q)
      /\ Cardinality(P \ Q) = Cardinality(P) - Cardinality(P \cap Q)
      /\ P \cap Q = Q
  BY FS_Difference
<1>7. Cardinality(Q) <= Cardinality(P)
  BY FS_Subset
<1>8. Cardinality(P \ Q) = Cardinality(P) - Cardinality(Q)
      /\ Cardinality(BP \ BQ) = Cardinality(BP) - Cardinality(BQ)
  BY <1>5, <1>6
<1> QED
  BY <1>3, <1>4, <1>5, <1>6, <1>7, <1>8 DEF BP, BQ

\* Only the order among the rows themselves matters.
LEMMA BeyondAgrees ==
  ASSUME NEW P, NEW R, NEW S, NEW o \in Nat,
         \A i, j \in P : <<i, j>> \in R <=> <<i, j>> \in S
  PROVE  Beyond(P, R, o) = Beyond(P, S, o)
<1>1. \A i \in P : Below(P, R, i) = Below(P, S, i)
  BY DEF Below
<1> QED
  BY <1>1 DEF Beyond

OrderOf(query) ==
  {p \in (DOMAIN rows) \X (DOMAIN rows) : Sooner(query, p[1], p[2])}

LEMMA OrderOfIsOrder ==
  ASSUME HistoryTypeOK, NEW query \in Queries
  PROVE  \A P \in SUBSET DOMAIN rows : IsOrder(P, OrderOf(query))
<1>1. \A i \in DOMAIN rows : i \in Int /\ rows[i].timestamp \in Int
  BY HistoryAssumption DEF HistoryTypeOK
<1>2. \A i, j \in DOMAIN rows : <<i, j>> \in OrderOf(query) <=> Sooner(query, i, j)
  BY DEF OrderOf
<1>3. \A i, j, k \in DOMAIN rows :
        /\ ~Sooner(query, i, i)
        /\ Sooner(query, i, j) /\ Sooner(query, j, k) => Sooner(query, i, k)
        /\ i # j => Sooner(query, i, j) \/ Sooner(query, j, i)
  BY <1>1 DEF Sooner
<1> QED
  BY <1>2, <1>3 DEF IsOrder

LEMMA RowsAreFinite == HistoryTypeOK => IsFiniteSet(DOMAIN rows)
<1> SUFFICES ASSUME HistoryTypeOK
             PROVE  IsFiniteSet(DOMAIN rows)
  OBVIOUS
<1>1. 1 \in Int /\ lastId \in Int /\ DOMAIN rows \in SUBSET (1..lastId)
  BY HistoryAssumption DEF HistoryTypeOK
<1> QED
  BY <1>1, FS_Interval, FS_Subset

\* What would be ahead if the next page began at another offset
LEMMA AheadIsBeyond ==
  /\ Selected(reading.select) \in SUBSET DOMAIN rows
  /\ \A o \in Nat :
       {i \in Selected(reading.select) : Place(reading, i) >= o}
         = Beyond(Selected(reading.select), OrderOf(reading), o)
  /\ offset \in Nat =>
       Ahead = Beyond(Selected(reading.select), OrderOf(reading), offset)
<1>1. Selected(reading.select) \in SUBSET DOMAIN rows
  BY DEF Selected
<1>2. \A i \in Selected(reading.select) :
        Place(reading, i)
          = Cardinality(Below(Selected(reading.select), OrderOf(reading), i))
  <2> SUFFICES ASSUME NEW i \in Selected(reading.select)
               PROVE  Below(Selected(reading.select), OrderOf(reading), i)
                        = {j \in Selected(reading.select) : Sooner(reading, j, i)}
    BY DEF Place
  <2> QED
    BY <1>1 DEF Below, OrderOf
<1>3. \A o \in Nat :
        {i \in Selected(reading.select) : Place(reading, i) >= o}
          = Beyond(Selected(reading.select), OrderOf(reading), o)
  BY <1>2 DEF Beyond
<1> QED
  BY <1>1, <1>3 DEF Ahead

HistoryParts ==
  /\ offset \in Nat
  /\ Ahead = Beyond(Selected(reading.select), OrderOf(reading), offset)
  /\ Selected(reading.select) \in SUBSET DOMAIN rows
  /\ IsFiniteSet(Selected(reading.select))
  /\ reading # NotReading =>
       IsOrder(Selected(reading.select), OrderOf(reading))

LEMMA HistoryTypeParts == HistoryTypeOK => HistoryParts
<1> SUFFICES ASSUME HistoryTypeOK
             PROVE  HistoryParts
  OBVIOUS
<1>1. offset \in Nat /\ (reading # NotReading => reading \in Queries)
  BY DEF HistoryTypeOK
<1>2. /\ Ahead = Beyond(Selected(reading.select), OrderOf(reading), offset)
      /\ Selected(reading.select) \in SUBSET DOMAIN rows
  BY <1>1, AheadIsBeyond
<1>3. IsFiniteSet(Selected(reading.select))
  BY <1>2, RowsAreFinite, FS_Subset
<1>4. reading # NotReading => IsOrder(Selected(reading.select), OrderOf(reading))
  BY <1>1, <1>2, OrderOfIsOrder
<1> QED
  BY <1>1, <1>2, <1>3, <1>4 DEF HistoryParts

\* Rows that go take no more from what is ahead than their number.
LEMMA AheadAfterRemoval ==
  ASSUME HistoryParts, HistoryParts', reading # NotReading,
         reading' = reading, offset' = offset,
         DOMAIN rows' \subseteq DOMAIN rows,
         \A i \in DOMAIN rows' : rows'[i].timestamp = rows[i].timestamp,
         Selected(reading.select)' \subseteq Selected(reading.select)
  PROVE  LET lost == Selected(reading.select) \ Selected(reading.select)'
         IN  /\ Ahead' \subseteq Ahead
             /\ IsFiniteSet(Ahead \ Ahead')
             /\ Cardinality(lost) \in Nat
             /\ Cardinality(Ahead \ Ahead') <= Cardinality(lost)
<1> DEFINE P == Selected(reading.select)
           Q == Selected(reading.select)'
           R == OrderOf(reading)
           S == OrderOf(reading)'
<1>1. /\ Ahead = Beyond(P, R, offset) /\ Ahead' = Beyond(Q, S, offset)
      /\ IsFiniteSet(P) /\ IsOrder(P, R) /\ Q \in SUBSET P
      /\ Q \in SUBSET DOMAIN rows' /\ offset \in Nat
  BY DEF HistoryParts
<1>2. \A i, j \in Q : <<i, j>> \in S <=> <<i, j>> \in R
  BY <1>1 DEF OrderOf, Sooner
<1> HIDE DEF P, Q, R, S
<1>3. Beyond(Q, S, offset) = Beyond(Q, R, offset)
  BY <1>1, <1>2, BeyondAgrees
<1>4. /\ Beyond(Q, R, offset) \subseteq Beyond(P, R, offset)
      /\ IsFiniteSet(P \ Q) /\ Cardinality(P \ Q) \in Nat
      /\ IsFiniteSet(Beyond(P, R, offset) \ Beyond(Q, R, offset))
      /\ Cardinality(Beyond(P, R, offset) \ Beyond(Q, R, offset)) <= Cardinality(P \ Q)
  BY <1>1, BeyondMoves
<1> QED
  BY <1>1, <1>3, <1>4 DEF P, Q

\* Rows that come put no more ahead than their number, and take nothing away.
LEMMA AheadAfterInsertion ==
  ASSUME HistoryParts, HistoryParts', reading # NotReading,
         reading' = reading, offset' = offset,
         DOMAIN rows \subseteq DOMAIN rows',
         \A i \in DOMAIN rows : rows'[i].timestamp = rows[i].timestamp,
         Selected(reading.select) \subseteq Selected(reading.select)'
  PROVE  LET new == Selected(reading.select)' \ Selected(reading.select)
         IN  /\ Ahead \subseteq Ahead'
             /\ IsFiniteSet(Ahead' \ Ahead)
             /\ Cardinality(new) \in Nat
             /\ Cardinality(Ahead' \ Ahead) <= Cardinality(new)
<1> DEFINE Q == Selected(reading.select)
           P == Selected(reading.select)'
           S == OrderOf(reading)
           R == OrderOf(reading)'
<1>1. /\ Ahead' = Beyond(P, R, offset) /\ Ahead = Beyond(Q, S, offset)
      /\ IsFiniteSet(P) /\ IsOrder(P, R) /\ Q \in SUBSET P
      /\ Q \in SUBSET DOMAIN rows /\ offset \in Nat
  BY DEF HistoryParts
<1>2. \A i, j \in Q : <<i, j>> \in S <=> <<i, j>> \in R
  BY <1>1 DEF OrderOf, Sooner
<1> HIDE DEF P, Q, R, S
<1>3. Beyond(Q, S, offset) = Beyond(Q, R, offset)
  BY <1>1, <1>2, BeyondAgrees
<1>4. /\ Beyond(Q, R, offset) \subseteq Beyond(P, R, offset)
      /\ IsFiniteSet(P \ Q) /\ Cardinality(P \ Q) \in Nat
      /\ IsFiniteSet(Beyond(P, R, offset) \ Beyond(Q, R, offset))
      /\ Cardinality(Beyond(P, R, offset) \ Beyond(Q, R, offset)) <= Cardinality(P \ Q)
  BY <1>1, BeyondMoves
<1> QED
  BY <1>1, <1>3, <1>4 DEF P, Q

LEMMA HistoryInitInv == HistoryInit => HistoryInv
<1> SUFFICES ASSUME HistoryInit
             PROVE  HistoryInv
  OBVIOUS
<1> USE HistoryAssumption DEF HistoryInit
<1>1. HistoryTypeOK
  BY DEF HistoryTypeOK
<1>2. wanted \ seen = {} /\ Cardinality({}) = 0
  BY FS_EmptySet
<1>3. MissedWereRemoved /\ SkippedWereRemoved
  BY <1>2 DEF MissedWereRemoved, SkippedWereRemoved
<1>4. RepeatedWereAdded
  BY <1>2 DEF RepeatedWereAdded
<1> QED
  BY <1>1, <1>3, <1>4 DEF HistoryInv

\* The sets that are counted are finite.
LEMMA HistoryIsFinite ==
  ASSUME HistoryTypeOK
  PROVE  \A A \in SUBSET Nat : A \subseteq wanted \/ A \subseteq seen =>
           IsFiniteSet(A) /\ Cardinality(A) \in Nat
<1>1. 1 \in Int /\ lastId \in Int /\ seen \subseteq 1..lastId /\ wanted \subseteq 1..lastId
  BY HistoryAssumption DEF HistoryTypeOK
<1>2. IsFiniteSet(1..lastId)
  BY <1>1, FS_Interval
<1> QED
  BY <1>1, <1>2, FS_Subset, FS_CardinalityType

\* A number that grows by what a set gains
LEMMA NoMoreThanAdded ==
  ASSUME NEW A, NEW B, NEW C, IsFiniteSet(A), IsFiniteSet(B), C \subseteq A \cup B
  PROVE  /\ IsFiniteSet(C) /\ Cardinality(A) \in Nat /\ Cardinality(B) \in Nat
         /\ Cardinality(C) \in Nat /\ Cardinality(C) <= Cardinality(A) + Cardinality(B)
<1>1. /\ IsFiniteSet(A \cup B) /\ Cardinality(A \cap B) \in Nat
      /\ Cardinality(A \cup B) = Cardinality(A) + Cardinality(B) - Cardinality(A \cap B)
  BY FS_Union, FS_Intersection, FS_CardinalityType
<1>2. IsFiniteSet(C) /\ Cardinality(C) <= Cardinality(A \cup B)
  BY <1>1, FS_Subset
<1> QED
  BY <1>1, <1>2, FS_CardinalityType

\* What rows that go may make a reader skip
LEMMA RemovalKeeps ==
  ASSUME HistoryInv, HistoryTypeOK',
         UNCHANGED <<reading, offset, rowsShown, seen, wanted, added>>,
         removed' >= removed,
         reading # NotReading =>
           /\ DOMAIN rows' \subseteq DOMAIN rows
           /\ \A i \in DOMAIN rows' : rows'[i].timestamp = rows[i].timestamp
           /\ Selected(reading.select)' \subseteq Selected(reading.select)
           /\ removed' =
                removed + Cardinality(Selected(reading.select) \ Selected(reading.select)')
  PROVE  HistoryInv'
<1>1. HistoryTypeOK /\ SkippedWereRemoved /\ MissedWereRemoved /\ RepeatedWereAdded
  BY DEF HistoryInv
<1>2. removed \in Nat /\ removed' \in Nat /\ added \in Nat /\ rowsShown \in Nat
  BY <1>1 DEF HistoryTypeOK
<1>3. /\ wanted \subseteq Nat /\ seen \subseteq Nat
      /\ Cardinality(wanted \ seen) \in Nat /\ Cardinality(seen) \in Nat
  <2>1. wanted \subseteq Nat /\ seen \subseteq Nat
    BY <1>1, HistoryAssumption DEF HistoryTypeOK
  <2> QED
    BY <1>1, <2>1, HistoryIsFinite
<1>4. MissedWereRemoved'
  BY <1>1, <1>2, <1>3 DEF MissedWereRemoved
<1>5. CASE reading = NotReading
  BY <1>1, <1>4, <1>5 DEF SkippedWereRemoved, RepeatedWereAdded, HistoryInv
<1>6. CASE reading # NotReading
  <2> DEFINE lost == Selected(reading.select) \ Selected(reading.select)'
             gone == Ahead \ Ahead'
             skipped == wanted \ (seen \cup Ahead)
             again == seen \cap Ahead
  <2>1. HistoryParts /\ HistoryParts'
    BY <1>1, HistoryTypeParts, PTL
  <2>2. /\ Ahead' \subseteq Ahead /\ IsFiniteSet(gone)
        /\ Cardinality(lost) \in Nat /\ Cardinality(gone) <= Cardinality(lost)
    BY <1>6, <2>1, AheadAfterRemoval
  <2>3. removed' = removed + Cardinality(lost)
    BY <1>6
  <2>4. IsFiniteSet(skipped) /\ IsFiniteSet(again) /\ Cardinality(again) \in Nat
    BY <1>1, <1>3, HistoryIsFinite
  <2>5. wanted' \ (seen' \cup Ahead') \subseteq skipped \cup gone
    OBVIOUS
  <2>6. seen' \cap Ahead' \subseteq again
    BY <2>2
  <2>7. Cardinality(skipped) <= removed
    BY <1>1, <1>6 DEF SkippedWereRemoved
  <2> HIDE DEF skipped, gone, lost
  <2>8. SkippedWereRemoved'
    <3>1. /\ Cardinality(skipped) \in Nat /\ Cardinality(gone) \in Nat
          /\ Cardinality(wanted' \ (seen' \cup Ahead')) \in Nat
          /\ Cardinality(wanted' \ (seen' \cup Ahead')) <= Cardinality(skipped) + Cardinality(gone)
      BY <2>2, <2>4, <2>5, NoMoreThanAdded
    <3> QED
      BY <1>2, <2>2, <2>3, <2>7, <3>1 DEF SkippedWereRemoved
  <2>9. RepeatedWereAdded'
    <3>1. rowsShown - Cardinality(seen) + Cardinality(again) <= added
      BY <1>1, <1>6 DEF RepeatedWereAdded
    <3>2. rowsShown - Cardinality(seen) <= added
      BY <1>1 DEF RepeatedWereAdded
    <3>3. /\ Cardinality(seen' \cap Ahead') <= Cardinality(again)
          /\ Cardinality(seen' \cap Ahead') \in Nat
      BY <2>4, <2>6, FS_Subset, FS_CardinalityType
    <3> HIDE DEF again
    <3> QED
      BY <1>2, <1>3, <2>4, <3>1, <3>2, <3>3 DEF RepeatedWereAdded
  <2> QED
    BY <1>4, <2>8, <2>9 DEF HistoryInv
<1> QED
  BY <1>5, <1>6

LEMMA HistoryTypeNext ==
  HistoryTypeOK /\ [HistoryNext]_historyVars => HistoryTypeOK'
<1> SUFFICES ASSUME HistoryTypeOK, [HistoryNext]_historyVars
             PROVE  HistoryTypeOK'
  OBVIOUS
<1> USE HistoryAssumption DEF HistoryTypeOK
<1>1. HistoryParts
  BY HistoryTypeParts
<1>2. CASE ReadPage
  <2>1. PageOf(reading, offset, PageLimit) \in SUBSET Selected(reading.select)
    BY DEF PageOf
  <2>2. Cardinality(PageOf(reading, offset, PageLimit)) \in Nat
    BY <1>1, <2>1, FS_Subset, FS_CardinalityType DEF HistoryParts
  <2>3. PageOf(reading, offset, PageLimit) \subseteq 1..lastId
    BY <1>1, <2>1 DEF HistoryParts
  <2> QED
    BY <1>2, <2>2, <2>3 DEF ReadPage
<1>3. ASSUME NEW select \in Selections, NEW desc \in BOOLEAN,
             NEW backwards \in {FALSE, desc}, BeginReading(select, desc, backwards)
      PROVE  HistoryTypeOK'
  <2>1. reading' \in Queries
    BY <1>3 DEF BeginReading, Queries
  <2>2. wanted' \subseteq 1..lastId' /\ seen' \subseteq 1..lastId'
    BY <1>3 DEF BeginReading, Selected
  <2> QED
    BY <1>3, <2>1, <2>2 DEF BeginReading
<1>4. ASSUME NEW context \in HistoryContexts, NEW timestamp \in Timestamps,
             StoreMessage(context, timestamp)
      PROVE  HistoryTypeOK'
  <2>1. lastId' = lastId + 1 /\ lastId' \in 0..MaxRows
    BY <1>4 DEF StoreMessage
  <2>2. /\ DOMAIN rows' \subseteq 1..lastId'
        /\ rows' \in [DOMAIN rows' ->
                        [context : HistoryContexts, timestamp : Timestamps, delivered : BOOLEAN]]
    BY <1>4, <2>1 DEF StoreMessage, StoredAs
  <2> QED
    <3>1. seen' \subseteq 1..lastId' /\ wanted' \subseteq 1..lastId'
      BY <1>4, <2>1 DEF StoreMessage
    <3>2. added' \in Nat /\ UNCHANGED <<reading, offset, rowsShown, removed>>
      BY <1>4 DEF StoreMessage
    <3> QED
      BY <2>1, <2>2, <3>1, <3>2
<1>5. ASSUME NEW i \in DOMAIN rows, MarkDelivered(i)
      PROVE  HistoryTypeOK'
  <2>1. rows' \in [DOMAIN rows' ->
                     [context : HistoryContexts, timestamp : Timestamps, delivered : BOOLEAN]]
        /\ DOMAIN rows' = DOMAIN rows
    BY <1>5 DEF MarkDelivered
  <2>2. removed' \in Nat /\ UNCHANGED <<lastId, reading, offset, rowsShown, seen, wanted, added>>
    BY <1>5 DEF MarkDelivered
  <2> QED
    BY <2>1, <2>2
<1>6. ASSUME NEW timestamp \in Timestamps, DeleteOlderThan(timestamp)
      PROVE  HistoryTypeOK'
  <2> DEFINE older == {i \in DOMAIN rows : rows[i].timestamp < timestamp}
             lost == {i \in older : IsSelected(rows[i])}
  <2>1. IsFiniteSet(DOMAIN rows) /\ lost \in SUBSET DOMAIN rows
    BY RowsAreFinite
  <2>2. Cardinality(lost) \in Nat
    BY <2>1, FS_Subset, FS_CardinalityType
  <2> HIDE DEF lost
  <2>3. removed' = removed + Cardinality(lost)
    BY <1>6 DEF DeleteOlderThan, lost
  <2> QED
    BY <1>6, <2>2, <2>3 DEF DeleteOlderThan
<1>7. CASE UNCHANGED historyVars
  BY <1>7 DEF historyVars
<1> QED
  BY <1>2, <1>3, <1>4, <1>5, <1>6, <1>7 DEF HistoryNext

\* The page that is read is what was ahead and now is not.
LEMMA PageIsRead ==
  ASSUME HistoryInv, HistoryTypeOK', ReadPage
  PROVE  HistoryInv'
<1> DEFINE P == Selected(reading.select)
           R == OrderOf(reading)
           page == PageOf(reading, offset, PageLimit)
           rest == {i \in P : Place(reading, i) >= offset + PageLimit}
<1>1. HistoryTypeOK /\ SkippedWereRemoved /\ RepeatedWereAdded /\ reading # NotReading
  BY DEF HistoryInv, ReadPage
<1>2. HistoryParts /\ HistoryParts'
  BY <1>1, HistoryTypeParts, PTL
<1>3. /\ offset \in Nat /\ PageLimit \in Nat /\ IsFiniteSet(P) /\ IsOrder(P, R)
      /\ P \in SUBSET DOMAIN rows /\ offset + PageLimit \in Nat
  BY <1>1, <1>2, HistoryAssumption DEF HistoryParts
<1>4. \A i \in P : Place(reading, i) \in Nat
  <2> SUFFICES ASSUME NEW i \in P
               PROVE  Place(reading, i) \in Nat
    OBVIOUS
  <2>1. {j \in P : Sooner(reading, j, i)} \in SUBSET P
    OBVIOUS
  <2> QED
    BY <1>3, <2>1, FS_Subset, FS_CardinalityType DEF Place
<1>5. page = Ahead \ rest /\ rest \subseteq Ahead /\ page \subseteq P
  BY <1>3, <1>4 DEF PageOf, Ahead
<1>6. rest = Beyond(P, R, offset + PageLimit)
  BY <1>3, AheadIsBeyond
<1>7. /\ Cardinality(P) \in Nat
      /\ Cardinality(rest) = IF offset + PageLimit <= Cardinality(P)
                             THEN Cardinality(P) - (offset + PageLimit) ELSE 0
      /\ IsFiniteSet(rest)
  BY <1>3, <1>6, BeyondCount
<1>8. /\ rowsShown' = rowsShown + Cardinality(page) /\ seen' = seen \cup page
      /\ UNCHANGED <<rows, wanted, added, removed>>
  BY DEF ReadPage
<1>9. /\ IsFiniteSet(seen) /\ IsFiniteSet(page) /\ IsFiniteSet(seen \cap page)
      /\ IsFiniteSet(seen \cap rest) /\ rowsShown \in Nat /\ added \in Nat /\ removed \in Nat
  <2>1. seen \subseteq Nat
    BY <1>1, HistoryAssumption DEF HistoryTypeOK
  <2>2. IsFiniteSet(seen)
    BY <1>1, <2>1, HistoryIsFinite
  <2> QED
    BY <1>1, <1>3, <1>5, <2>2, FS_Subset DEF HistoryTypeOK
<1> HIDE DEF page, rest, P, R
<1>10. rowsShown' - Cardinality(seen')
         = rowsShown - Cardinality(seen) + Cardinality(seen \cap page)
  <2>1. Cardinality(seen \cup page)
          = Cardinality(seen) + Cardinality(page) - Cardinality(seen \cap page)
    BY <1>9, FS_Union
  <2>2. Cardinality(seen) \in Nat /\ Cardinality(page) \in Nat
        /\ Cardinality(seen \cap page) \in Nat
    BY <1>9, FS_CardinalityType
  <2> QED
    BY <1>8, <1>9, <2>1, <2>2
<1>11. /\ Cardinality(seen \cap Ahead)
            = Cardinality(seen \cap page) + Cardinality(seen \cap rest)
       /\ Cardinality(seen \cap page) \in Nat /\ Cardinality(seen \cap rest) \in Nat
  <2>1. /\ seen \cap Ahead = (seen \cap page) \cup (seen \cap rest)
        /\ (seen \cap page) \cap (seen \cap rest) = {}
    BY <1>5
  <2>2. Cardinality((seen \cap page) \cup (seen \cap rest))
          = Cardinality(seen \cap page) + Cardinality(seen \cap rest)
              - Cardinality((seen \cap page) \cap (seen \cap rest))
    BY <1>9, FS_Union
  <2>3. Cardinality((seen \cap page) \cap (seen \cap rest)) = 0
    BY <2>1, FS_EmptySet
  <2>4. Cardinality(seen \cap page) \in Nat /\ Cardinality(seen \cap rest) \in Nat
    BY <1>9, FS_CardinalityType
  <2> QED
    BY <2>1, <2>2, <2>3, <2>4
<1>12. /\ seen' \cap rest = seen \cap rest
       /\ wanted \ (seen' \cup rest) = wanted \ (seen \cup Ahead)
  BY <1>5, <1>8
<1>13. /\ rowsShown - Cardinality(seen) + Cardinality(seen \cap Ahead) <= added
       /\ Cardinality(wanted \ (seen \cup Ahead)) <= removed
       /\ Cardinality(seen) \in Nat
  BY <1>1, <1>9, FS_CardinalityType DEF RepeatedWereAdded, SkippedWereRemoved
<1>14. rowsShown' - Cardinality(seen') <= added'
  BY <1>8, <1>9, <1>10, <1>11, <1>13
<1>15. CASE HasMore(Cardinality(P), offset, PageLimit)
  <2>1. reading' = reading /\ offset' = offset + PageLimit
    BY <1>15 DEF ReadPage, P
  <2>2. Ahead' = rest
    BY <1>8, <2>1 DEF Ahead, Selected, Place, Sooner, rest, P
  <2>3. SkippedWereRemoved'
    BY <1>8, <1>12, <1>13, <2>2 DEF SkippedWereRemoved
  <2>4. rowsShown' - Cardinality(seen') + Cardinality(seen' \cap Ahead') <= added'
    <3>1. Cardinality(seen' \cap Ahead') = Cardinality(seen \cap rest)
      BY <1>12, <2>2
    <3> QED
      BY <1>8, <1>9, <1>10, <1>11, <1>13, <3>1
  <2> QED
    BY <1>1, <1>14, <2>1, <2>3, <2>4 DEF HistoryInv, RepeatedWereAdded, MissedWereRemoved
<1>16. CASE ~HasMore(Cardinality(P), offset, PageLimit)
  <2>1. reading' = NotReading
    BY <1>16 DEF ReadPage, P
  <2>2. rest = {}
    <3>1. Cardinality(rest) = 0
      BY <1>3, <1>7, <1>16 DEF HasMore
    <3> QED
      BY <1>7, <3>1, FS_EmptySet
  <2>3. MissedWereRemoved'
    BY <1>8, <1>12, <1>13, <2>2 DEF MissedWereRemoved
  <2> QED
    BY <1>14, <2>1, <2>3 DEF HistoryInv, RepeatedWereAdded, SkippedWereRemoved
<1> QED
  BY <1>15, <1>16

\* At the start everything is ahead.
LEMMA ReadingBegins ==
  ASSUME HistoryInv, HistoryTypeOK',
         NEW select \in Selections, NEW desc \in BOOLEAN,
         NEW backwards \in {FALSE, desc}, BeginReading(select, desc, backwards)
  PROVE  HistoryInv'
<1>1. /\ reading' = [select |-> select, desc |-> desc, backwards |-> backwards]
      /\ offset' = 0 /\ seen' = {}
      /\ wanted' = Selected(select) /\ rowsShown' = 0 /\ added' = 0 /\ removed' = 0
      /\ rows' = rows
  BY DEF BeginReading
<1>2. reading' # NotReading
  <2>1. select # "none"
    BY HistoryAssumption DEF Selections
  <2> QED
    BY <1>1, <2>1 DEF NotReading
<1>3. wanted' \subseteq Ahead'
  <2>1. HistoryParts'
    BY HistoryTypeParts, PTL
  <2>2. wanted' = Selected(reading.select)'
    BY <1>1 DEF Selected
  <2>3. \A i \in Selected(reading.select)' :
          Cardinality(Below(Selected(reading.select)', OrderOf(reading)', i)) \in Nat
    <3>1. \A i \in Selected(reading.select)' :
            Below(Selected(reading.select)', OrderOf(reading)', i)
              \in SUBSET Selected(reading.select)'
      BY DEF Below
    <3> QED
      BY <2>1, <3>1, FS_Subset, FS_CardinalityType DEF HistoryParts
  <2>4. Selected(reading.select)'
          \subseteq Beyond(Selected(reading.select)', OrderOf(reading)', offset')
    BY <1>1, <2>3 DEF Beyond
  <2> QED
    BY <2>1, <2>2, <2>4 DEF HistoryParts
<1>4. wanted' \ (seen' \cup Ahead') = {} /\ seen' \cap Ahead' = {} /\ Cardinality({}) = 0
  BY <1>1, <1>3, FS_EmptySet
<1>5. SkippedWereRemoved' /\ MissedWereRemoved' /\ RepeatedWereAdded'
  BY <1>1, <1>2, <1>4 DEF SkippedWereRemoved, MissedWereRemoved, RepeatedWereAdded
<1> QED
  BY <1>5 DEF HistoryInv

\* A row that comes may put one ahead that was seen.
LEMMA RowIsStored ==
  ASSUME HistoryInv, HistoryTypeOK',
         NEW context \in HistoryContexts, NEW timestamp \in Timestamps,
         StoreMessage(context, timestamp)
  PROVE  HistoryInv'
<1> DEFINE newRow == [context |-> context, timestamp |-> timestamp, delivered |-> FALSE]
           new == Selected(reading.select)' \ Selected(reading.select)
           came == Ahead' \ Ahead
           again == seen \cap Ahead
<1>1. HistoryTypeOK /\ SkippedWereRemoved /\ MissedWereRemoved /\ RepeatedWereAdded
  BY DEF HistoryInv
<1>2. /\ UNCHANGED <<reading, offset, rowsShown, seen, wanted, removed>>
      /\ rows' = StoredAs(lastId + 1, newRow)
      /\ added' = IF IsSelected(newRow) THEN added + 1 ELSE added
  BY DEF StoreMessage
<1>3. added \in Nat /\ removed \in Nat /\ rowsShown \in Nat /\ added' >= added
  BY <1>1, <1>2 DEF HistoryTypeOK
<1>4. /\ wanted \subseteq Nat /\ seen \subseteq Nat
      /\ Cardinality(seen) \in Nat
  <2>1. wanted \subseteq Nat /\ seen \subseteq Nat
    BY <1>1, HistoryAssumption DEF HistoryTypeOK
  <2> QED
    BY <1>1, <2>1, HistoryIsFinite
<1>5. MissedWereRemoved'
  BY <1>1, <1>2 DEF MissedWereRemoved
<1>6. rowsShown' - Cardinality(seen') <= added'
  BY <1>1, <1>2, <1>3, <1>4 DEF RepeatedWereAdded
<1>7. CASE reading = NotReading
  BY <1>2, <1>5, <1>6, <1>7 DEF HistoryInv, SkippedWereRemoved, RepeatedWereAdded
<1>8. CASE reading # NotReading
  <2>1. lastId \in Nat /\ DOMAIN rows \subseteq 1..lastId
    BY <1>1, HistoryAssumption DEF HistoryTypeOK
  <2>2. /\ DOMAIN rows' = DOMAIN rows \cup {lastId + 1} /\ lastId + 1 \notin DOMAIN rows
        /\ \A i \in DOMAIN rows : rows'[i] = rows[i]
        /\ rows'[lastId + 1] = newRow
    BY <1>2, <2>1 DEF StoredAs
  <2>3. Selected(reading.select)'
          = IF Selects(reading.select, newRow)
            THEN Selected(reading.select) \cup {lastId + 1}
            ELSE Selected(reading.select)
    BY <1>2, <2>2 DEF Selected, Selects
  <2>4. IsSelected(newRow) <=> Selects(reading.select, newRow)
    BY <1>8 DEF IsSelected
  <2>5. lastId + 1 \notin Selected(reading.select)
    BY <2>2 DEF Selected
  <2> HIDE DEF newRow
  <2>6. added' = added + Cardinality(new)
    <3>1. CASE Selects(reading.select, newRow)
      <4>1. new = {lastId + 1}
        BY <2>3, <2>5, <3>1
      <4> HIDE DEF new
      <4>2. Cardinality(new) = 1
        BY <4>1, FS_Singleton
      <4> QED
        BY <1>2, <2>4, <3>1, <4>2
    <3>2. CASE ~Selects(reading.select, newRow)
      <4>1. new = {}
        BY <2>3, <3>2
      <4> HIDE DEF new
      <4>2. Cardinality(new) = 0
        BY <4>1, FS_EmptySet
      <4> QED
        BY <1>2, <1>3, <2>4, <3>2, <4>2
    <3> QED
      BY <3>1, <3>2
  <2>7. HistoryParts /\ HistoryParts'
    BY <1>1, HistoryTypeParts, PTL
  <2>8. /\ Ahead \subseteq Ahead' /\ IsFiniteSet(came)
        /\ Cardinality(new) \in Nat /\ Cardinality(came) <= Cardinality(new)
    <3>1. Selected(reading.select) \subseteq Selected(reading.select)'
      BY <2>3
    <3> QED
      BY <1>2, <1>8, <2>2, <2>7, <3>1, AheadAfterInsertion
  <2>9. IsFiniteSet(again) /\ IsFiniteSet(wanted \ (seen \cup Ahead))
    BY <1>1, <1>4, HistoryIsFinite
  <2>10. SkippedWereRemoved'
    <3>1. wanted' \ (seen' \cup Ahead') \in SUBSET (wanted \ (seen \cup Ahead))
      BY <1>2, <2>8
    <3>2. /\ Cardinality(wanted' \ (seen' \cup Ahead')) <= Cardinality(wanted \ (seen \cup Ahead))
          /\ Cardinality(wanted' \ (seen' \cup Ahead')) \in Nat
          /\ Cardinality(wanted \ (seen \cup Ahead)) \in Nat
      BY <2>9, <3>1, FS_Subset, FS_CardinalityType
    <3>3. Cardinality(wanted \ (seen \cup Ahead)) <= removed
      BY <1>1, <1>8 DEF SkippedWereRemoved
    <3>4. Cardinality(wanted' \ (seen' \cup Ahead')) <= removed'
      BY <1>2, <1>3, <3>2, <3>3
    <3> QED
      BY <3>4 DEF SkippedWereRemoved
  <2>11. seen' \cap Ahead' \subseteq again \cup came
    BY <1>2
  <2> HIDE DEF again, came, new
  <2>12. /\ Cardinality(again) \in Nat /\ Cardinality(came) \in Nat
         /\ Cardinality(seen' \cap Ahead') \in Nat
         /\ Cardinality(seen' \cap Ahead') <= Cardinality(again) + Cardinality(came)
    BY <2>8, <2>9, <2>11, NoMoreThanAdded
  <2>13. rowsShown - Cardinality(seen) + Cardinality(again) <= added
    BY <1>1, <1>8 DEF RepeatedWereAdded, again
  <2>14. rowsShown' - Cardinality(seen') + Cardinality(seen' \cap Ahead') <= added'
    BY <1>2, <1>3, <1>4, <2>6, <2>8, <2>12, <2>13
  <2> QED
    BY <1>5, <1>6, <2>10, <2>14 DEF HistoryInv, RepeatedWereAdded
<1> QED
  BY <1>7, <1>8

LEMMA RowIsDelivered ==
  ASSUME HistoryInv, HistoryTypeOK', NEW i \in DOMAIN rows, MarkDelivered(i)
  PROVE  HistoryInv'
<1> DEFINE lost == Selected(reading.select) \ Selected(reading.select)'
<1>1. HistoryTypeOK /\ removed \in Nat
  BY DEF HistoryInv, HistoryTypeOK
<1>2. /\ UNCHANGED <<reading, offset, rowsShown, seen, wanted, added>>
      /\ rows' = [rows EXCEPT ![i].delivered = TRUE]
      /\ removed' = IF IsSelected(rows[i]) /\ reading.select = "undelivered"
                    THEN removed + 1 ELSE removed
  BY DEF MarkDelivered
<1>3. /\ DOMAIN rows' = DOMAIN rows
      /\ \A j \in DOMAIN rows :
           /\ rows'[j].timestamp = rows[j].timestamp /\ rows'[j].context = rows[j].context
           /\ rows'[j].delivered = IF j = i THEN TRUE ELSE rows[j].delivered
  BY <1>1, <1>2 DEF HistoryTypeOK
<1>4. ASSUME reading # NotReading
      PROVE  /\ Selected(reading.select)' \subseteq Selected(reading.select)
             /\ removed' = removed + Cardinality(lost)
  <2>1. reading.select \in Selections /\ reading.select \in HistoryContexts \cup {"undelivered"}
    BY <1>1, <1>4 DEF HistoryTypeOK, Queries, Selections
  <2>2. Selected(reading.select)' \subseteq Selected(reading.select)
    BY <1>2, <1>3 DEF Selected, Selects
  <2>3. CASE IsSelected(rows[i]) /\ reading.select = "undelivered"
    <3>1. lost = {i}
      BY <1>2, <1>3, <2>3 DEF Selected, Selects, IsSelected
    <3> HIDE DEF lost
    <3>2. Cardinality(lost) = 1
      BY <3>1, FS_Singleton
    <3> QED
      BY <1>2, <2>2, <2>3, <3>2
  <2>4. CASE ~(IsSelected(rows[i]) /\ reading.select = "undelivered")
    <3>1. lost = {}
      BY <1>2, <1>3, <1>4, <2>4 DEF Selected, Selects, IsSelected
    <3> HIDE DEF lost
    <3>2. Cardinality(lost) = 0
      BY <3>1, FS_EmptySet
    <3> QED
      BY <1>1, <1>2, <2>2, <2>4, <3>2
  <2> QED
    BY <2>3, <2>4
<1>5. removed' >= removed
  BY <1>1, <1>2
<1> QED
  BY <1>2, <1>3, <1>4, <1>5, RemovalKeeps

LEMMA RowsAreDeleted ==
  ASSUME HistoryInv, HistoryTypeOK', NEW timestamp \in Timestamps, DeleteOlderThan(timestamp)
  PROVE  HistoryInv'
<1> DEFINE older == {i \in DOMAIN rows : rows[i].timestamp < timestamp}
           lost == {i \in older : IsSelected(rows[i])}
<1>1. HistoryTypeOK /\ removed \in Nat
  BY DEF HistoryInv, HistoryTypeOK
<1>2. /\ UNCHANGED <<reading, offset, rowsShown, seen, wanted, added>>
      /\ rows' = [i \in DOMAIN rows \ older |-> rows[i]]
      /\ removed' = removed + Cardinality(lost)
  BY DEF DeleteOlderThan
<1>3. /\ DOMAIN rows' = DOMAIN rows \ older
      /\ \A j \in DOMAIN rows' : rows'[j] = rows[j]
  BY <1>2
<1>4. reading # NotReading =>
        /\ Selected(reading.select)' \subseteq Selected(reading.select)
        /\ Selected(reading.select) \ Selected(reading.select)' = lost
  <2> SUFFICES ASSUME reading # NotReading
               PROVE  /\ Selected(reading.select)' \subseteq Selected(reading.select)
                      /\ Selected(reading.select) \ Selected(reading.select)' = lost
    OBVIOUS
  <2>1. Selected(reading.select)' = Selected(reading.select) \ older
    BY <1>2, <1>3 DEF Selected
  <2> QED
    BY <2>1 DEF Selected, IsSelected
<1>5. Cardinality(lost) \in Nat
  <2>1. IsFiniteSet(DOMAIN rows) /\ lost \in SUBSET DOMAIN rows
    BY <1>1, RowsAreFinite
  <2> QED
    BY <2>1, FS_Subset, FS_CardinalityType
<1> HIDE DEF lost
<1>6. removed' >= removed
  BY <1>1, <1>2, <1>5
<1> QED
  BY <1>2, <1>3, <1>4, <1>6, RemovalKeeps

\* HistoryInv is inductive: whoever reads a history page by page while it
\* changes (history.ts, queryHistory over getMessages and countMessages) misses
\* no more messages than were deleted or delivered meanwhile, and sees none
\* twice but for those that came, for any contexts, times and page length.
THEOREM HistoryInvariance == HistorySpec => []HistoryInv
<1>1. HistoryInv /\ [HistoryNext]_historyVars => HistoryInv'
  <2> SUFFICES ASSUME HistoryInv, [HistoryNext]_historyVars
               PROVE  HistoryInv'
    OBVIOUS
  <2>1. HistoryTypeOK /\ HistoryTypeOK'
    BY HistoryTypeNext DEF HistoryInv
  <2>2. CASE ReadPage
    BY <2>1, <2>2, PageIsRead
  <2>3. ASSUME NEW select \in Selections, NEW desc \in BOOLEAN,
             NEW backwards \in {FALSE, desc}, BeginReading(select, desc, backwards)
        PROVE  HistoryInv'
    BY <2>1, <2>3, ReadingBegins
  <2>4. ASSUME NEW context \in HistoryContexts, NEW timestamp \in Timestamps,
               StoreMessage(context, timestamp)
        PROVE  HistoryInv'
    BY <2>1, <2>4, RowIsStored
  <2>5. ASSUME NEW i \in DOMAIN rows, MarkDelivered(i)
        PROVE  HistoryInv'
    BY <2>1, <2>5, RowIsDelivered
  <2>6. ASSUME NEW timestamp \in Timestamps, DeleteOlderThan(timestamp)
        PROVE  HistoryInv'
    BY <2>1, <2>6, RowsAreDeleted
  <2>7. CASE UNCHANGED historyVars
    BY <2>1, <2>7 DEF historyVars, HistoryInv, SkippedWereRemoved, MissedWereRemoved,
                      RepeatedWereAdded, Ahead, Selected, Place, Sooner
  <2> QED
    BY <2>2, <2>3, <2>4, <2>5, <2>6, <2>7 DEF HistoryNext
<1> QED
  BY HistoryInitInv, <1>1, PTL DEF HistorySpec
===============================================================================
