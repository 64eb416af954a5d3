-------------------------- MODULE StoreAndForward --------------------------
(***************************************************************************)
(* Store-and-forward, packages/storage/src/forward.ts, on top of the       *)
(* offline queue (queue.ts) and the message history (history.ts), two      *)
(* tables of one SQLite database (adapter.ts) that survives a crash.       *)
(*                                                                         *)
(* Every SQL statement is synchronous, so what interleaves are the awaits  *)
(* of the delivery callback.  A send awaits it once; a round, which is one *)
(* execution of deliverPending or processRetries, takes a snapshot of the  *)
(* queue and awaits it once for each message of the snapshot, oldest       *)
(* first.  The retry timer starts a round at every tick whether or not the *)
(* one before has ended.                                                   *)
(*                                                                         *)
(* The callback is external: while it is awaited the message may be handed *)
(* to the recipient, once, and it answers true only if it was.  It may     *)
(* also answer false, or throw, after handing the message over.            *)
(*                                                                         *)
(* The clock counts expiration periods (config.expirationMs).              *)
(***************************************************************************)
EXTENDS Integers, FiniteSets

CONSTANTS
  Msgs,           (* messages, each sent once                              *)
  Agents,         (* recipients                                            *)
  To,             (* To[m]: the recipient of m                             *)
  Rounds,         (* bound: rounds that can be in progress at a time       *)
  NoMsg,          (* no message                                            *)
  MaxAttempts,    (* config.maxAttempts                                    *)
  MaxQueueSize,   (* config.maxQueueSize                                   *)
  BatchLimit,     (* the LIMIT of getReadyForRetry                         *)
  EnableQueue,    (* config.enableQueue                                    *)
  HistoryPeriods, (* the 30 days of history, in whole expiration periods   *)
  MaxClock,       (* bound on the clock                                    *)
  MaxPendingRounds, (* bound: calls of deliverPending                      *)
  MaxCrashes      (* bound: crashes                                        *)

ASSUME ConstantsAssumption ==
  /\ IsFiniteSet(Msgs)
  /\ IsFiniteSet(Rounds) /\ Rounds # {}
  /\ NoMsg \notin Msgs
  /\ To \in [Msgs -> Agents]
  /\ MaxAttempts \in Nat \ {0}
  /\ MaxQueueSize \in Nat
  /\ BatchLimit \in Nat \ {0}
  /\ EnableQueue \in BOOLEAN
  /\ HistoryPeriods \in Nat
  /\ MaxClock \in Nat /\ MaxPendingRounds \in Nat /\ MaxCrashes \in Nat

VARIABLES
  phase,     (* phase[m]: how far m came in send, see Phases               *)
  hist,      (* hist[m]: the row of m in the messages table                *)
  sentAt,    (* sentAt[m]: the timestamp of that row                       *)
  row,       (* row[m]: the row of m in the offline_queue table            *)
  attempts,  (* attempts[m]: its attempts column, kept when it is deleted  *)
  resting,   (* rows whose lastAttempt is within retryDelayMs              *)
  stamp,     (* stamp[m]: place of m's row in the order of the timestamps  *)
  expiry,    (* expiry[m]: the expiresAt column, when it is not null       *)
  expiring,  (* messages whose row has an expiresAt                        *)
  todo,      (* todo[r]: messages the round r has not settled yet          *)
  busy,      (* busy[r]: the message its current call handed over          *)
  callback,  (* deliveryCallback is set                                    *)
  timer,     (* retryTimer is set                                          *)
  clock,     (* expiration periods that have passed                        *)
  handed,    (* history: handed[m], times m was handed over                *)
  denied,    (* history: denied[m], those the callback did not confirm     *)
  started,   (* calls of deliverPending that found something               *)
  crashes    (* crashes so far                                             *)

database == <<hist, sentAt, row, attempts, resting, stamp, expiry, expiring>>
history == <<handed, denied>>
counters == <<started, crashes>>
vars == <<phase, database, todo, busy, callback, timer, clock, history,
          counters>>

\* Before send; in its await; in its await with the message handed over; its
\* three results (delivered, queued, neither); and a send cut short by a crash.
\* A message given to the queue directly is "queued".
Phases == {"new", "calling", "arrived", "delivered", "queued", "refused",
           "aborted"}

TypeOK ==
  /\ phase \in [Msgs -> Phases]
  /\ hist \in [Msgs -> {"none", "undelivered", "delivered", "deleted"}]
  /\ sentAt \in [Msgs -> 0..MaxClock]
  /\ row \in [Msgs -> {"none", "pending", "delivered", "deleted"}]
  /\ attempts \in [Msgs -> Nat]
  /\ resting \in SUBSET Msgs
  /\ stamp \in [Msgs -> Nat]
  /\ expiry \in [Msgs -> Nat]
  /\ expiring \in SUBSET Msgs
  /\ todo \in [Rounds -> SUBSET Msgs]
  /\ busy \in [Rounds -> Msgs \cup {NoMsg}]
  /\ callback \in BOOLEAN
  /\ timer \in BOOLEAN
  /\ clock \in 0..MaxClock
  /\ handed \in [Msgs -> Nat]
  /\ denied \in [Msgs -> Nat]
  /\ started \in 0..MaxPendingRounds
  /\ crashes \in 0..MaxCrashes

-----------------------------------------------------------------------------
(* Reading the queue                                                       *)

Pending == {m \in Msgs : row[m] = "pending"}   \* delivered = 0

\* What cleanup looks for in the rows still to deliver
Expired(m) == m \in expiring /\ expiry[m] <= clock

FailedOffByOne(m) == attempts[m] + 1 >= MaxAttempts

Failed(m) == attempts[m] >= MaxAttempts

IsOldest(m, S) == m \in S /\ \A n \in S : stamp[m] <= stamp[n]

\* The oldest messages of S, BatchLimit of them if there are that many
IsBatch(B, S) ==
  /\ B \subseteq S
  /\ \A m \in B, n \in S \ B : stamp[m] < stamp[n]
  /\ Cardinality(B) <= BatchLimit
  /\ B # S => Cardinality(B) = BatchLimit

ReadyOfTheOldest ==
  {m \in Pending : /\ IsOldest(m, Pending)
                   /\ attempts[m] < MaxAttempts
                   /\ m \notin resting}

\* The WHERE of getReadyForRetry: neither expiry nor a call in progress counts
ReadyForRetry ==
  {m \in Pending : attempts[m] < MaxAttempts /\ m \notin resting}

\* deliverPending and processRetries go through their snapshot in order
Current(r, m) == IsOldest(m, todo[r])

-----------------------------------------------------------------------------
(* Writing the queue                                                       *)

\* enqueue refuses, or send does not call it
Full == ~EnableQueue \/ Cardinality(Pending) >= MaxQueueSize

\* The row enqueue inserts; withExpiry says whether an expiresAt was passed
Insert(m, expiresAt, withExpiry) ==
  /\ row' = [row EXCEPT ![m] = "pending"]
  /\ stamp' = [stamp EXCEPT ![m] = 1 + Cardinality({n \in Msgs : stamp[n] # 0})]
  /\ expiry' = IF withExpiry THEN [expiry EXCEPT ![m] = expiresAt] ELSE expiry
  /\ expiring' = IF withExpiry THEN expiring \cup {m} ELSE expiring

\* The end of send: `${...queuedMessage, priority, expiresAt}` stores the
\* expiresAt that was passed, so here none, over the one that was computed.
QueueForLater(m) ==
  IF Full
  THEN /\ phase' = [phase EXCEPT ![m] = "refused"]
       /\ UNCHANGED <<row, stamp, expiry, expiring>>
  ELSE /\ phase' = [phase EXCEPT ![m] = "queued"]
       /\ Insert(m, clock + 1, FALSE)

-----------------------------------------------------------------------------
(* Configuration                                                           *)

SetDeliveryCallback ==
  /\ ~callback
  /\ callback' = TRUE
  /\ UNCHANGED <<phase, database, todo, busy, timer, clock, history, counters>>

StartRetryProcessor ==
  /\ ~timer
  /\ timer' = TRUE
  /\ UNCHANGED <<phase, database, todo, busy, callback, clock, history,
                 counters>>

\* A round in progress goes on
StopRetryProcessor ==
  /\ timer
  /\ timer' = FALSE
  /\ UNCHANGED <<phase, database, todo, busy, callback, clock, history,
                 counters>>

-----------------------------------------------------------------------------
(* Sending                                                                 *)

\* Up to the await, or to the end when there is no callback
Send(m) ==
  /\ phase[m] = "new"
  /\ hist' = [hist EXCEPT ![m] = "undelivered"]
  /\ sentAt' = [sentAt EXCEPT ![m] = clock]
  /\ IF callback
     THEN /\ phase' = [phase EXCEPT ![m] = "calling"]
          /\ UNCHANGED <<row, stamp, expiry, expiring>>
     ELSE QueueForLater(m)
  /\ UNCHANGED <<attempts, resting, todo, busy, callback, timer, clock,
                 history, counters>>

\* The callback hands the message over
SendArrives(m) ==
  /\ phase[m] = "calling"
  /\ phase' = [phase EXCEPT ![m] = "arrived"]
  /\ handed' = [handed EXCEPT ![m] = @ + 1]
  /\ UNCHANGED <<database, todo, busy, callback, timer, clock, denied,
                 counters>>

\* It answers true
SendConfirmed(m) ==
  /\ phase[m] = "arrived"
  /\ phase' = [phase EXCEPT ![m] = "delivered"]
  /\ hist' = [hist EXCEPT ![m] = IF @ = "deleted" THEN @ ELSE "delivered"]
  /\ UNCHANGED <<sentAt, row, attempts, resting, stamp, expiry, expiring, todo,
                 busy, callback, timer, clock, history, counters>>

\* It answers false or throws
SendFailed(m) ==
  /\ phase[m] \in {"calling", "arrived"}
  /\ denied' = [denied EXCEPT ![m] = IF phase[m] = "arrived" THEN @ + 1 ELSE @]
  /\ QueueForLater(m)
  /\ UNCHANGED <<hist, sentAt, attempts, resting, todo, busy, callback, timer,
                 clock, handed, counters>>

\* getQueue().enqueue with an expiresAt of its own
Enqueue(m) ==
  /\ phase[m] = "new"
  /\ ~Full
  /\ phase' = [phase EXCEPT ![m] = "queued"]
  /\ Insert(m, clock + 1, TRUE)
  /\ UNCHANGED <<hist, sentAt, attempts, resting, todo, busy, callback, timer,
                 clock, history, counters>>

-----------------------------------------------------------------------------
(* Rounds                                                                  *)

\* deliverPending(a): neither attempts nor the retry delay matter
DeliverPending(r, a) ==
  /\ callback
  /\ todo[r] = {}
  /\ started < MaxPendingRounds
  /\ \E m \in Pending : To[m] = a
  /\ todo' = [todo EXCEPT ![r] = {m \in Pending : To[m] = a}]
  /\ started' = started + 1
  /\ UNCHANGED <<phase, database, busy, callback, timer, clock, history,
                 crashes>>

\* The timer calls processRetries.  (With nothing ready it changes nothing.)
ProcessRetries(r) ==
  /\ timer
  /\ callback
  /\ todo[r] = {}
  /\ ReadyForRetry # {}
  /\ \E B \in SUBSET ReadyForRetry :
       /\ IsBatch(B, ReadyForRetry)
       /\ todo' = [todo EXCEPT ![r] = B]
  /\ UNCHANGED <<phase, database, busy, callback, timer, clock, history,
                 counters>>

\* The callback hands the current message over
RoundArrives(r, m) ==
  /\ Current(r, m)
  /\ busy[r] = NoMsg
  /\ busy' = [busy EXCEPT ![r] = m]
  /\ handed' = [handed EXCEPT ![m] = @ + 1]
  /\ UNCHANGED <<phase, database, todo, callback, timer, clock, denied,
                 counters>>

\* It answers true: markDelivered, which finds no row if it was deleted
RoundConfirmed(r, m) ==
  /\ Current(r, m)
  /\ busy[r] = m
  /\ row' = [row EXCEPT ![m] = IF @ = "pending" THEN "delivered" ELSE @]
  /\ todo' = [todo EXCEPT ![r] = @ \ {m}]
  /\ busy' = [busy EXCEPT ![r] = NoMsg]
  /\ UNCHANGED <<phase, hist, sentAt, attempts, resting, stamp, expiry,
                 expiring, callback, timer, clock, history, counters>>

\* markAttempted; a row that is marked delivered is updated as well
MarkAttempted(m) ==
  IF row[m] = "deleted" THEN UNCHANGED <<attempts, resting>>
  ELSE /\ attempts' = [attempts EXCEPT ![m] = @ + 1]
       /\ resting' = resting \cup {m}

\* It answers false or throws
RoundFailed(r, m) ==
  /\ Current(r, m)
  /\ busy[r] \in {NoMsg, m}
  /\ denied' = [denied EXCEPT ![m] = IF busy[r] = m THEN @ + 1 ELSE @]
  /\ MarkAttempted(m)
  /\ todo' = [todo EXCEPT ![r] = @ \ {m}]
  /\ busy' = [busy EXCEPT ![r] = NoMsg]
  /\ UNCHANGED <<phase, hist, sentAt, row, stamp, expiry, expiring, callback,
                 timer, clock, handed, counters>>

-----------------------------------------------------------------------------
(* Maintenance, time and crashes                                           *)

\* history.deleteOlderThan, queue.cleanup, queue.clearDelivered.  Neither
\* looks at the calls in progress.
Maintenance ==
  /\ hist' = [m \in Msgs |->
                IF hist[m] # "none" /\ sentAt[m] + HistoryPeriods < clock
                THEN "deleted" ELSE hist[m]]
  /\ row' = [m \in Msgs |->
               IF \/ row[m] = "delivered"
                  \/ row[m] = "pending" /\ (Expired(m) \/ Failed(m))
               THEN "deleted" ELSE row[m]]
  /\ UNCHANGED <<phase, sentAt, attempts, resting, stamp, expiry, expiring,
                 todo, busy, callback, timer, clock, history, counters>>

\* retryDelayMs have passed since the last attempt of m
Cool(m) ==
  /\ m \in resting
  /\ resting' = resting \ {m}
  /\ UNCHANGED <<phase, hist, sentAt, row, attempts, stamp, expiry, expiring,
                 todo, busy, callback, timer, clock, history, counters>>

\* An expiration period passes, which is longer than retryDelayMs
Tick ==
  /\ clock < MaxClock
  /\ clock' = clock + 1
  /\ resting' = {}
  /\ UNCHANGED <<phase, hist, sentAt, row, attempts, stamp, expiry, expiring,
                 todo, busy, callback, timer, history, counters>>

\* The process dies, or closes its database, and a new one opens the same
\* file.  Answers in progress reach nobody.
Crash ==
  /\ crashes < MaxCrashes
  /\ crashes' = crashes + 1
  /\ phase' = [m \in Msgs |-> IF phase[m] \in {"calling", "arrived"}
                              THEN "aborted" ELSE phase[m]]
  /\ denied' = [m \in Msgs |->
                  denied[m] + Cardinality({r \in Rounds : busy[r] = m})
                            + (IF phase[m] = "arrived" THEN 1 ELSE 0)]
  /\ todo' = [r \in Rounds |-> {}]
  /\ busy' = [r \in Rounds |-> NoMsg]
  /\ callback' = FALSE
  /\ timer' = FALSE
  /\ UNCHANGED <<database, clock, handed, started>>

-----------------------------------------------------------------------------
Init ==
  /\ phase = [m \in Msgs |-> "new"]
  /\ hist = [m \in Msgs |-> "none"]
  /\ sentAt = [m \in Msgs |-> 0]
  /\ row = [m \in Msgs |-> "none"]
  /\ attempts = [m \in Msgs |-> 0]
  /\ resting = {}
  /\ stamp = [m \in Msgs |-> 0]
  /\ expiry = [m \in Msgs |-> 0]
  /\ expiring = {}
  /\ todo = [r \in Rounds |-> {}]
  /\ busy = [r \in Rounds |-> NoMsg]
  /\ callback = FALSE
  /\ timer = FALSE
  /\ clock = 0
  /\ handed = [m \in Msgs |-> 0]
  /\ denied = [m \in Msgs |-> 0]
  /\ started = 0
  /\ crashes = 0

Next ==
  \/ SetDeliveryCallback
  \/ StartRetryProcessor
  \/ StopRetryProcessor
  \/ \E m \in Msgs : Send(m)
  \/ \E m \in Msgs : SendArrives(m)
  \/ \E m \in Msgs : SendConfirmed(m)
  \/ \E m \in Msgs : SendFailed(m)
  \/ \E m \in Msgs : Enqueue(m)
  \/ \E r \in Rounds, a \in Agents : DeliverPending(r, a)
  \/ \E r \in Rounds : ProcessRetries(r)
  \/ \E r \in Rounds, m \in Msgs : RoundArrives(r, m)
  \/ \E r \in Rounds, m \in Msgs : RoundConfirmed(r, m)
  \/ \E r \in Rounds, m \in Msgs : RoundFailed(r, m)
  \/ Maintenance
  \/ \E m \in Msgs : Cool(m)
  \/ Tick
  \/ Crash

Spec == Init /\ [][Next]_vars

-----------------------------------------------------------------------------
(* Safety                                                                  *)

\* The rounds that still have to hand over m
Holding(m) == {r \in Rounds : m \in todo[r] /\ busy[r] # m}

\* Answers that are outstanding for messages handed over
Answering(m) == {r \in Rounds : busy[r] = m}

\* Rounds overlap, may hold the same message, and mark it behind each other's
\* back, and the database survives a crash while the answers do not: still, a
\* message is handed over at most once for every time the callback did not
\* confirm it, plus once for every round that can run at a time.
DuplicatesBounded ==
  \A m \in Msgs : handed[m] <= denied[m] + Cardinality(Rounds)

\* A send that answered "queued" is kept to: the message waits in the queue
\* until it was handed over, ran out of attempts or expired, through crashes,
\* maintenance and rounds that mark it at the same time.
QueuedIsKept ==
  \A m \in Msgs : phase[m] = "queued" =>
    \/ row[m] = "pending"
    \/ handed[m] > 0
    \/ attempts[m] >= MaxAttempts
    \/ Expired(m)

\* Overlapping retry rounds can take a message over maxAttempts, each at most
\* once since they all selected it before; a deliverPending, which does not
\* look at the attempts, once more.
AttemptsBounded ==
  \A m \in Msgs :
    attempts[m] <= MaxAttempts - 1 + Cardinality(Rounds) + started

\* enqueue counts the rows still to deliver, the exhausted ones included
QueueBounded == Cardinality(Pending) <= MaxQueueSize

-----------------------------------------------------------------------------
(* The inductive invariant                                                 *)

Held(m) == {r \in Rounds : m \in todo[r]}

\* The call in progress is for a message of the snapshot, and what is in a
\* snapshot was in the queue.
RoundsHoldRows ==
  \A r \in Rounds :
    /\ busy[r] # NoMsg => busy[r] \in todo[r]
    /\ \A m \in todo[r] : row[m] # "none"

\* A message is in the queue only after send gave it up, and before that was
\* handed over as far as its own await went.
BeforeTheQueue ==
  \A m \in Msgs :
    /\ row[m] = "none" <=> phase[m] # "queued"
    /\ phase[m] \in {"new", "calling"} => handed[m] = 0 /\ denied[m] = 0
    /\ phase[m] = "arrived" => handed[m] = 1 /\ denied[m] = 0
    /\ row[m] = "none" => attempts[m] = 0 /\ handed[m] <= denied[m] + 1

\* A message still in the queue was never confirmed: it was handed over as
\* often as that was denied or is still to be answered.  Once it is out of the
\* queue, only the rounds that hold it already can hand it over again.
HandedInTheQueue ==
  \A m \in Msgs :
    /\ row[m] = "pending" => handed[m] = denied[m] + Cardinality(Answering(m))
    /\ row[m] \in {"delivered", "deleted"} =>
         handed[m] + Cardinality(Holding(m)) <= denied[m] + Cardinality(Rounds)

\* What is left of the bound on attempts covers the rounds that hold m.
AttemptsToCome ==
  \A m \in Msgs : row[m] # "none" =>
    attempts[m] + Cardinality(Held(m))
      <= MaxAttempts - 1 + Cardinality(Rounds) + started

\* The inductive invariant from which the properties above follow.
StoreInv ==
  /\ TypeOK
  /\ RoundsHoldRows
  /\ BeforeTheQueue
  /\ HandedInTheQueue
  /\ AttemptsToCome
  /\ QueuedIsKept
  /\ QueueBounded

-----------------------------------------------------------------------------
(* Liveness                                                                *)

\* The timer fires and time passes, and a callback settles whether or not it
\* hands the message over.
Fairness ==
  /\ \A r \in Rounds : WF_vars(ProcessRetries(r))
  /\ \A r \in Rounds, m \in Msgs :
       WF_vars(RoundConfirmed(r, m) \/ RoundFailed(r, m))
  /\ \A m \in Msgs : WF_vars(Cool(m))

FairSpec == Spec /\ Fairness

\* Once the retry processor stays on, no message waits in the queue for ever:
\* it is delivered or used up its attempts, whatever else is older, is in the
\* batch before it or is being retried.
RetriedToTheEnd ==
  <>[](timer /\ callback) =>
    \A m \in Msgs : row[m] = "pending" /\ attempts[m] < MaxAttempts ~>
                    row[m] # "pending" \/ attempts[m] >= MaxAttempts

-----------------------------------------------------------------------------
(* What the source says and the code does not do                           *)

\* forward.ts: "Ensures reliable message delivery with persistence".  So a
\* message in the history whose send is not running was delivered, is queued,
\* or its sender was told that it is neither.
StoredIsForwarded ==
  \A m \in Msgs :
    hist[m] = "undelivered" /\ row[m] = "none" =>
      phase[m] \in {"calling", "arrived", "refused"}
=============================================================================
