----------------------------- MODULE PeerProofs ------------------------------
(* Proofs about what a peer asks of others: the requests of the DHT, its     *)
(* routing table, its lookups, the index of a capability, and the connection *)
(* to a relay, for any nodes, ids, limits and number of calls.               *)
EXTENDS RoutingTable, KademliaRpc, Kademlia, PeerDiscovery, A2AClient, SequenceLemmas,
        FiniteSetTheorems, SequenceTheorems, TLAPS

-----------------------------------------------------------------------------
(***************************************************************************)
(* The requests of a Kademlia node, for any number of them and of retries: *)
(* the table agrees with what the callers were told, repetitions are       *)
(* bounded, and the table with its timers and datagrams keeps the promise  *)
(* of RemoteCall.  And the index of a capability: well formed over any     *)
(* races of registrations, which are what drops a peer.                    *)
(***************************************************************************)

-----------------------------------------------------------------------------
(* RpcInv is inductive. *)

LEMMA RpcInvInit == RpcInit => RpcInv
  BY RpcAssumption DEF RpcInit, RpcInv, RpcTypes, WaitingIsPending, Counts

(* Retrying: the counter that both timers share stays within its limit. *)
LEMMA RetryCounted ==
  ASSUME RpcTypes, NEW r \in Requests, CanRetry(r)
  PROVE  Inc(retries, r) \in [Requests -> 0..MaxRetries]
  <1>1. retries[r] + 1 \in 0..MaxRetries
    BY RpcAssumption DEF RpcTypes, CanRetry
  <1> QED BY <1>1 DEF RpcTypes, Inc

LEMMA SendKeepsInv ==
  ASSUME RpcInv, NEW r \in Requests, Request(r)
  PROVE  RpcInv'
  <1> USE RpcAssumption DEF RpcInv
  <1>1. RpcTypes' BY DEF RpcTypes, Request, Send, Inc
  <1>2. WaitingIsPending' BY DEF RpcTypes, WaitingIsPending, Request
  <1>3. ASSUME NEW q \in Requests PROVE Counts(q)'
    BY <1>3 DEF RpcTypes, Counts, Request, Send, Inc
  <1> QED BY <1>1, <1>2, <1>3

(* The network: a datagram is sent, handled or lost. *)
LEMMA NetworkKeepsInv ==
  ASSUME RpcInv, NEW r \in Requests,
         SendDone(r) \/ Handle(r) \/ LoseDatagram(r) \/ LoseAnswer(r)
  PROVE  RpcInv'
  <1> USE DEF RpcInv
  <1>1. CASE SendDone(r)
    <2>1. RpcTypes' BY <1>1 DEF RpcTypes, SendDone, Inc, Dec
    <2>2. WaitingIsPending' BY <1>1 DEF WaitingIsPending, SendDone
    <2>3. ASSUME NEW q \in Requests PROVE Counts(q)'
      BY <1>1, <2>3 DEF RpcTypes, Counts, SendDone, Inc, Dec
    <2> QED BY <2>1, <2>2, <2>3
  <1>2. CASE Handle(r)
    <2>1. RpcTypes' BY <1>2 DEF RpcTypes, Handle, Inc, Dec
    <2>2. WaitingIsPending' BY <1>2 DEF WaitingIsPending, Handle
    <2>3. ASSUME NEW q \in Requests PROVE Counts(q)'
      BY <1>2, <2>3 DEF RpcTypes, Counts, Handle, Inc, Dec
    <2> QED BY <2>1, <2>2, <2>3
  <1>3. CASE LoseDatagram(r)
    <2>1. RpcTypes' BY <1>3 DEF RpcTypes, LoseDatagram, Dec
    <2>2. WaitingIsPending' BY <1>3 DEF WaitingIsPending, LoseDatagram
    <2>3. ASSUME NEW q \in Requests PROVE Counts(q)'
      BY <1>3, <2>3 DEF RpcTypes, Counts, LoseDatagram, Dec
    <2> QED BY <2>1, <2>2, <2>3
  <1>4. CASE LoseAnswer(r)
    <2>1. RpcTypes' BY <1>4 DEF RpcTypes, LoseAnswer, Dec
    <2>2. WaitingIsPending' BY <1>4 DEF WaitingIsPending, LoseAnswer
    <2>3. ASSUME NEW q \in Requests PROVE Counts(q)'
      BY <1>4, <2>3 DEF RpcTypes, Counts, LoseAnswer, Dec
    <2> QED BY <2>1, <2>2, <2>3
  <1> QED BY <1>1, <1>2, <1>3, <1>4

(* The two ways to try again, by the timer of a failed send and by the       *)
(* timeout, and giving up.                                                   *)
LEMMA SendFailsKeepsInv ==
  ASSUME RpcInv, NEW r \in Requests, SendFails(r)
  PROVE  RpcInv'
  <1> USE DEF RpcInv
  <1>1. CASE CanRetry(r)
    <2>1. RpcTypes'
      BY <1>1, RetryCounted DEF RpcTypes, SendFails, Inc, Dec
    <2>2. WaitingIsPending' BY <1>1 DEF WaitingIsPending, SendFails
    <2>3. ASSUME NEW q \in Requests PROVE Counts(q)'
      BY <1>1, <2>3 DEF RpcTypes, Counts, SendFails, Inc, Dec
    <2> QED BY <2>1, <2>2, <2>3
  <1>2. CASE ~CanRetry(r)
    <2>1. RpcTypes' BY <1>2 DEF RpcTypes, SendFails, Dec, Forget, Settle
    <2>2. WaitingIsPending'
      BY <1>2 DEF RpcTypes, WaitingIsPending, SendFails, Forget, Settle
    <2>3. ASSUME NEW q \in Requests PROVE Counts(q)'
      BY <1>2, <2>3 DEF RpcTypes, Counts, SendFails, Dec, Settle
    <2> QED BY <2>1, <2>2, <2>3
  <1> QED BY <1>1, <1>2

LEMMA ResendKeepsInv ==
  ASSUME RpcInv, NEW r \in Requests, Resend(r)
  PROVE  RpcInv'
  <1> USE DEF RpcInv
  <1>1. RpcTypes' BY DEF RpcTypes, Resend, Send, Inc, Dec
  <1>2. WaitingIsPending' BY DEF WaitingIsPending, Resend
  <1>3. ASSUME NEW q \in Requests PROVE Counts(q)'
    BY <1>3 DEF RpcTypes, Counts, Resend, Send, Inc, Dec
  <1> QED BY <1>1, <1>2, <1>3

LEMMA TimeoutKeepsInv ==
  ASSUME RpcInv, NEW r \in Requests, HandleTimeout(r)
  PROVE  RpcInv'
  <1> USE DEF RpcInv
  <1>1. CASE CanRetry(r)
    <2>1. RpcTypes'
      BY <1>1, RetryCounted DEF RpcTypes, HandleTimeout, Send, Inc
    <2>2. WaitingIsPending' BY <1>1 DEF WaitingIsPending, HandleTimeout
    <2>3. told[r] = "waiting" BY DEF WaitingIsPending, HandleTimeout
    <2>4. ASSUME NEW q \in Requests PROVE Counts(q)'
      BY <1>1, <2>3, <2>4 DEF RpcTypes, Counts, HandleTimeout, Send, Inc
    <2> QED BY <2>1, <2>2, <2>4
  <1>2. CASE ~CanRetry(r)
    <2>1. RpcTypes' BY <1>2 DEF RpcTypes, HandleTimeout, Forget, Settle
    <2>2. WaitingIsPending'
      BY <1>2 DEF RpcTypes, WaitingIsPending, HandleTimeout, Forget, Settle
    <2>3. ASSUME NEW q \in Requests PROVE Counts(q)'
      BY <1>2, <2>3 DEF RpcTypes, Counts, HandleTimeout, Settle
    <2> QED BY <2>1, <2>2, <2>3
  <1> QED BY <1>1, <1>2

LEMMA AnswerKeepsInv ==
  ASSUME RpcInv, NEW r \in Requests, Answer(r)
  PROVE  RpcInv'
  <1> USE DEF RpcInv
  <1>1. CASE r \in pending
    <2>1. RpcTypes' BY <1>1 DEF RpcTypes, Answer, Dec, Forget, Settle
    <2>2. WaitingIsPending'
      BY <1>1 DEF RpcTypes, WaitingIsPending, Answer, Forget, Settle
    <2>3. ASSUME NEW q \in Requests PROVE Counts(q)'
      BY <1>1, <2>3 DEF RpcTypes, Counts, Answer, Dec, Settle
    <2> QED BY <2>1, <2>2, <2>3
  <1>2. CASE r \notin pending
    <2>1. RpcTypes' BY <1>2 DEF RpcTypes, Answer, Dec
    <2>2. WaitingIsPending' BY <1>2 DEF WaitingIsPending, Answer
    <2>3. ASSUME NEW q \in Requests PROVE Counts(q)'
      BY <1>2, <2>3 DEF RpcTypes, Counts, Answer, Dec
    <2> QED BY <2>1, <2>2, <2>3
  <1> QED BY <1>1, <1>2

(* The service starts, stops and has stopped. *)
LEMMA ServiceKeepsInv ==
  ASSUME RpcInv, StartRpc \/ StopRpc \/ Closed
  PROVE  RpcInv'
  <1> USE DEF RpcInv
  <1>1. CASE StartRpc \/ Closed
    <2>1. RpcTypes' BY <1>1 DEF RpcTypes, StartRpc, Closed
    <2>2. WaitingIsPending' BY <1>1 DEF WaitingIsPending, StartRpc, Closed
    <2>3. ASSUME NEW q \in Requests PROVE Counts(q)'
      BY <1>1, <2>3 DEF Counts, StartRpc, Closed
    <2> QED BY <2>1, <2>2, <2>3
  <1>2. CASE StopRpc
    <2>1. \A q \in Requests :
             told'[q] = IF told[q] = "waiting" THEN "failed" ELSE told[q]
      BY <1>2 DEF RpcTypes, WaitingIsPending, StopRpc, Settle
    <2>2. told' \in [Requests -> {"new", "waiting", "answered", "failed"}]
      <3>1. told' = [q \in Requests |-> IF q \in pending THEN Settle(q, "failed")[q] ELSE told[q]]
        BY <1>2 DEF StopRpc
      <3>2. \A q \in Requests : told'[q] \in {"new", "waiting", "answered", "failed"}
        BY <2>1 DEF RpcTypes
      <3> QED BY <3>1, <3>2
    <2>3. RpcTypes' BY <1>2, <2>2 DEF RpcTypes, StopRpc
    <2>4. WaitingIsPending' BY <1>2, <2>1 DEF WaitingIsPending, StopRpc
    <2>5. ASSUME NEW q \in Requests PROVE Counts(q)'
      BY <1>2, <2>1, <2>5 DEF RpcTypes, Counts, StopRpc
    <2> QED BY <2>3, <2>4, <2>5
  <1> QED BY <1>1, <1>2

LEMMA RpcInvStep == RpcInv /\ [RpcNext]_rpcVars => RpcInv'
  <1> SUFFICES ASSUME RpcInv, [RpcNext]_rpcVars PROVE RpcInv'
    OBVIOUS
  <1>1. CASE StartRpc \/ StopRpc \/ Closed BY <1>1, ServiceKeepsInv
  <1>2. ASSUME NEW r \in Requests,
               \/ Request(r) \/ SendDone(r) \/ SendFails(r) \/ Resend(r)
               \/ HandleTimeout(r) \/ Handle(r) \/ Answer(r)
               \/ LoseDatagram(r) \/ LoseAnswer(r)
        PROVE  RpcInv'
    BY <1>2, SendKeepsInv, NetworkKeepsInv, SendFailsKeepsInv, ResendKeepsInv,
       TimeoutKeepsInv, AnswerKeepsInv
  <1>3. CASE UNCHANGED rpcVars
    BY <1>3 DEF rpcVars, RpcInv, RpcTypes, WaitingIsPending, Counts
  <1> QED BY <1>1, <1>2, <1>3 DEF RpcNext

(* RpcInv, which the bounds, the agreement of table and timers and the       *)
(* refinement follow from, holds for any requests and number of retries.     *)
THEOREM RpcInvariance == RpcSpec => []RpcInv
  BY RpcInvInit, RpcInvStep, PTL DEF RpcSpec

(* The counters stay within the attempts a request has: what is on the way,  *)
(* what was handled and what was sent is at most the request and its         *)
(* MaxRetries repetitions.                                                   *)
LEMMA CountsBound ==
  ASSUME RpcInv
  PROVE  RpcTypeOK /\ RepetitionsBounded
  <1>1. ASSUME NEW q \in Requests
        PROVE  /\ sending[q] \in Attempts /\ resends[q] \in Attempts
               /\ datagrams[q] \in Attempts /\ answers[q] \in Attempts
               /\ handled[q] \in Attempts /\ sent[q] \in Attempts
               /\ sending[q] + datagrams[q] + answers[q] <= sent[q]
               /\ handled[q] <= MaxRetries + 1
    BY <1>1, RpcAssumption DEF RpcInv, RpcTypes, Counts, Attempts
  <1>2. /\ sending \in [Requests -> Attempts] /\ resends \in [Requests -> Attempts]
        /\ datagrams \in [Requests -> Attempts] /\ answers \in [Requests -> Attempts]
        /\ handled \in [Requests -> Attempts] /\ sent \in [Requests -> Attempts]
    BY <1>1 DEF RpcInv, RpcTypes
  <1>3. RpcTypeOK BY <1>2 DEF RpcInv, RpcTypes, RpcTypeOK
  <1>4. RepetitionsBounded BY <1>1 DEF RpcInv, Counts, RepetitionsBounded
  <1> QED BY <1>3, <1>4

LEMMA AnswersWereHandled ==
  ASSUME RpcInv
  PROVE  AnsweredWasHandled
  BY DEF RpcInv, RpcTypes, Counts, AnsweredWasHandled

(* The table of requests keeps its types and its counters their range.       *)
THEOREM RpcTypeCorrect == RpcSpec => []RpcTypeOK
  <1>1. RpcInv => RpcTypeOK BY CountsBound
  <1> QED BY <1>1, RpcInvariance, PTL

(* A request is in the table, with its timeout, exactly while its caller     *)
(* waits.                                                                    *)
THEOREM TableAgrees == RpcSpec => []WaitingIsPending
  <1>1. RpcInv => WaitingIsPending BY DEF RpcInv
  <1> QED BY <1>1, RpcInvariance, PTL

(* The two timers that send again never exceed the retries together.         *)
THEOREM FewRepetitions == RpcSpec => []RepetitionsBounded
  <1>1. RpcInv => RepetitionsBounded BY CountsBound
  <1> QED BY <1>1, RpcInvariance, PTL

(* Nobody is told of an answer to a request that was not handled.            *)
THEOREM AnswersAreReal == RpcSpec => []AnsweredWasHandled
  <1>1. RpcInv => AnsweredWasHandled BY AnswersWereHandled
  <1> QED BY <1>1, RpcInvariance, PTL

----------------------------------------------------------------------------
(* The table, its timers and its datagrams implement RemoteCall.             *)

LEMMA InitIsPromised == RpcInit => Promise!CallInit
  BY DEF RpcInit, Promise!CallInit

(* A request that is settled was waiting: it fails, or it was handled.       *)
LEMMA FailureIsPromised ==
  ASSUME RpcInv, NEW r \in Requests, told' = Settle(r, "failed"), handled' = handled
  PROVE  [Promise!CallNext]_(Promise!callVars)
  <1>1. CASE told[r] = "waiting"
    <2>1. told' = [q \in Requests |-> IF q \in {r} THEN "failed" ELSE told[q]]
      BY <1>1 DEF RpcInv, RpcTypes, Settle
    <2>2. {r} \in SUBSET Requests OBVIOUS
    <2>3. Promise!TellFailed({r})
      BY <1>1, <2>1 DEF Promise!TellFailed
    <2> QED BY <2>2, <2>3 DEF Promise!CallNext
  <1>2. CASE told[r] # "waiting"
    BY <1>2 DEF RpcInv, RpcTypes, Settle, Promise!callVars
  <1> QED BY <1>1, <1>2

LEMMA StepIsPromised ==
  ASSUME RpcInv, [RpcNext]_rpcVars
  PROVE  [Promise!CallNext]_(Promise!callVars)
  <1>1. CASE StopRpc
    <2>1. told' = [q \in Requests |-> IF q \in pending THEN "failed" ELSE told[q]]
      BY <1>1 DEF RpcInv, RpcTypes, WaitingIsPending, StopRpc, Settle
    <2>2. CASE pending = {}
      <3>1. told' = told BY <2>1, <2>2 DEF RpcInv, RpcTypes
      <3> QED BY <1>1, <3>1 DEF StopRpc, Promise!callVars
    <2>3. CASE pending # {}
      <3>1. Promise!TellFailed(pending)
        BY <1>1, <2>1, <2>3 DEF RpcInv, WaitingIsPending, StopRpc, Promise!TellFailed
      <3>2. pending \in SUBSET Requests BY DEF RpcInv, RpcTypes
      <3> QED BY <3>1, <3>2 DEF Promise!CallNext
    <2> QED BY <2>2, <2>3
  <1>2. CASE StartRpc \/ Closed
    BY <1>2 DEF StartRpc, Closed, Promise!callVars
  <1>3. ASSUME NEW r \in Requests, Request(r)
        PROVE  Promise!CallNext
    BY <1>3 DEF Request, Promise!CallNext, Promise!Ask
  <1>4. ASSUME NEW r \in Requests, Handle(r)
        PROVE  Promise!CallNext
    <2>1. Counts(r) BY DEF RpcInv
    <2>2. told[r] # "new" /\ handled[r] < MaxRetries + 1
      BY <1>4, <2>1, RpcAssumption DEF RpcInv, RpcTypes, Counts, Handle
    <2>3. Promise!HandleOnce(r)
      BY <1>4, <2>2 DEF Handle, Inc, Promise!HandleOnce
    <2> QED BY <2>3 DEF Promise!CallNext
  <1>5. ASSUME NEW r \in Requests, Answer(r)
        PROVE  [Promise!CallNext]_(Promise!callVars)
    <2>1. CASE r \in pending
      <3>1. told[r] = "waiting" BY <2>1 DEF RpcInv, WaitingIsPending
      <3>2. handled[r] > 0 BY <1>5 DEF RpcInv, RpcTypes, Counts, Answer
      <3>3. Promise!TellAnswered(r)
        BY <1>5, <2>1, <3>1, <3>2 DEF Answer, Settle, RpcInv, RpcTypes, Promise!TellAnswered
      <3> QED BY <3>3 DEF Promise!CallNext
    <2>2. CASE r \notin pending
      BY <1>5, <2>2 DEF Answer, Promise!callVars
    <2> QED BY <2>1, <2>2
  <1>6. ASSUME NEW r \in Requests, SendFails(r) \/ HandleTimeout(r)
        PROVE  [Promise!CallNext]_(Promise!callVars)
    <2>1. handled' = handled BY <1>6 DEF SendFails, HandleTimeout
    <2>2. told' = told \/ told' = Settle(r, "failed")
      BY <1>6 DEF SendFails, HandleTimeout
    <2> QED BY <2>1, <2>2, FailureIsPromised DEF Promise!callVars
  <1>7. ASSUME NEW r \in Requests,
               SendDone(r) \/ Resend(r) \/ LoseDatagram(r) \/ LoseAnswer(r)
        PROVE  UNCHANGED Promise!callVars
    BY <1>7 DEF SendDone, Resend, LoseDatagram, LoseAnswer, Promise!callVars
  <1>8. CASE UNCHANGED rpcVars BY <1>8 DEF rpcVars, Promise!callVars
  <1> QED BY <1>1, <1>2, <1>3, <1>4, <1>5, <1>6, <1>7, <1>8 DEF RpcNext

(* Every step of the table, its timers and the network is a step of the      *)
(* promise or changes nothing of it: a caller is told once, of an answer     *)
(* only if the request was handled, and no more than MaxRetries + 1 times.   *)
THEOREM RpcKeepsPromise == RpcSpec => KeepsPromise
  BY InitIsPromised, StepIsPromised, RpcInvariance, PTL
     DEF RpcSpec, KeepsPromise, Promise!CallSpec

----------------------------------------------------------------------------
(* The index of a capability, which registrations read and write.            *)

(* The list a registration makes of one that is well formed and does not     *)
(* name the peer: the last MaxIndex of the old ones and the peer.            *)
LEMMA ListedIsSound ==
  ASSUME NEW p \in Peers, NEW ids \in Seq(Peers),
         IsInjective(ids), p \notin ToSet(ids)
  PROVE  /\ Listed(ids, p) \in Seq(Peers)
         /\ Len(Listed(ids, p)) <= MaxIndex
         /\ IsInjective(Listed(ids, p))
         /\ Len(ids) < MaxIndex => ToSet(ids) \subseteq ToSet(Listed(ids, p))
  <1> DEFINE longer == Append(ids, p)
             n == Len(longer)
             m == IF n > MaxIndex THEN n - MaxIndex + 1 ELSE 1
             short == SubSeq(longer, m, n)
  <1>1. Listed(ids, p) = short
    BY DEF Listed
  <1>2. /\ longer \in Seq(Peers) /\ n = Len(ids) + 1
        /\ \A i \in 1..Len(ids) : longer[i] = ids[i]
        /\ longer[Len(ids) + 1] = p
        /\ Len(ids) \in Nat
    <2>1. Len(ids) \in Nat BY LenProperties
    <2> QED BY <2>1, AppendProperties
  <1>3. m \in Int /\ n \in Int /\ 1 <= m /\ m <= n /\ n - m + 1 <= MaxIndex
    BY <1>2, PeersAssumption
  <1>4. \A i \in m..n : longer[i] \in Peers
    BY <1>2, <1>3 DEF n
  <1> HIDE DEF longer, n, m
  <1>5. /\ short \in Seq(Peers) /\ Len(short) = n - m + 1
        /\ \A i \in 1..(n - m + 1) : short[i] = longer[m + i - 1]
    BY <1>3, <1>4, SubSeqProperties
  <1>6. \A i, j \in 1..n : longer[i] = longer[j] => i = j
    <2>1. \A i \in 1..Len(ids) : ids[i] # p
      <3>1. DOMAIN ids = 1..Len(ids) BY LenProperties
      <3> QED BY <3>1 DEF ToSet
    <2>2. \A i, j \in 1..Len(ids) : ids[i] = ids[j] => i = j
      <3>1. DOMAIN ids = 1..Len(ids) BY LenProperties
      <3> QED BY <3>1 DEF IsInjective
    <2> QED BY <1>2, <2>1, <2>2
  <1> HIDE DEF short
  <1>7. DOMAIN short = 1..(n - m + 1)
    BY <1>5, LenProperties
  <1>8. IsInjective(short)
    <2> SUFFICES ASSUME NEW i \in 1..(n - m + 1), NEW j \in 1..(n - m + 1),
                        short[i] = short[j]
                 PROVE  i = j
      BY <1>7 DEF IsInjective
    <2>1. m + i - 1 \in 1..n /\ m + j - 1 \in 1..n
      BY <1>3
    <2>2. m + i - 1 = m + j - 1
      BY <1>5, <1>6, <2>1
    <2> QED BY <1>3, <2>2
  <1>9. ASSUME Len(ids) < MaxIndex, NEW q \in ToSet(ids)
        PROVE  q \in ToSet(short)
    <2>1. m = 1 /\ n = Len(ids) + 1
      BY <1>2, <1>9, PeersAssumption DEF m
    <2>2. PICK i \in 1..Len(ids) : ids[i] = q
      <3>1. DOMAIN ids = 1..Len(ids) BY LenProperties
      <3> QED BY <1>9, <3>1 DEF ToSet
    <2>3. i \in 1..(n - m + 1) /\ m + i - 1 = i
      BY <1>2, <2>1
    <2>4. short[i] = q
      BY <1>2, <1>5, <2>2, <2>3
    <2> QED BY <1>7, <2>3, <2>4 DEF ToSet
  <1> QED BY <1>1, <1>3, <1>5, <1>8, <1>9

LEMMA PeerInvInit == PeerInit => PeerInv
  <1> SUFFICES ASSUME PeerInit PROVE PeerInv
    OBVIOUS
  <1>1. <<>> \in Seq(Peers) /\ Len(<<>>) = 0 /\ IsInjective(<<>>)
    BY DEF IsInjective
  <1>2. PeerTypeOK
    BY <1>1, PeersAssumption DEF PeerInit, PeerTypeOK, NoJob
  <1>3. IndexHasNoDuplicates
    BY <1>1, PeersAssumption DEF PeerInit, IndexHasNoDuplicates
  <1>4. ReadsAreSound
    BY DEF PeerInit, ReadsAreSound, NoJob
  <1> QED BY <1>2, <1>3, <1>4 DEF PeerInv

(* What a registration reads: the index, or nothing.                         *)
LEMMA ReadKeepsInv ==
  ASSUME PeerInv, NEW p \in Peers, ReadIndex(p)
  PROVE  PeerInv'
  <1> USE DEF PeerInv
  <1>1. PICK missed \in BOOLEAN :
          job' = [job EXCEPT ![p] = [phase |-> "registering", ids |-> ListRead(missed),
                                     read |-> IF missed THEN 0 ELSE version]]
    BY DEF ReadIndex, NoJob
  <1>2. <<>> \in Seq(Peers) /\ Len(<<>>) = 0 /\ IsInjective(<<>>)
    BY DEF IsInjective
  <1>3. ListRead(missed) = IF missed THEN <<>> ELSE index
    BY DEF ListRead
  <1>4. job'[p] = [phase |-> "registering", ids |-> ListRead(missed),
                   read |-> IF missed THEN 0 ELSE version]
    BY <1>1 DEF PeerTypeOK
  <1>5. \A q \in Peers \ {p} : job'[q] = job[q]
    BY <1>1 DEF PeerTypeOK
  <1>6. version \in Nat /\ 0 \in 0..MaxWrites
    BY PeersAssumption DEF PeerTypeOK
  <1>7. PeerTypeOK'
    <2>1. [phase |-> "registering", ids |-> ListRead(missed),
           read |-> IF missed THEN 0 ELSE version]
            \in [phase : {"idle", "registering", "discovering"}, ids : Seq(Peers), read : 0..MaxWrites]
      BY <1>2, <1>3, <1>6 DEF PeerTypeOK
    <2> QED BY <1>1, <2>1 DEF PeerTypeOK, ReadIndex
  <1>8. IndexHasNoDuplicates'
    BY DEF ReadIndex, IndexHasNoDuplicates
  <1>9. ReadsAreSound'
    <2> SUFFICES ASSUME NEW q \in Peers, job'[q].phase = "registering"
                 PROVE  /\ Len(job'[q].ids) <= MaxIndex /\ IsInjective(job'[q].ids)
                        /\ job'[q].read <= version
                        /\ job'[q].read = version => job'[q].ids = index
      BY DEF ReadsAreSound, ReadIndex
    <2>1. CASE q = p
      BY <2>1, <1>2, <1>3, <1>4, <1>6, PeersAssumption DEF ReadsAreSound, IndexHasNoDuplicates
    <2>2. CASE q # p
      BY <2>2, <1>5 DEF ReadsAreSound
    <2> QED BY <2>1, <2>2
  <1> QED BY <1>7, <1>8, <1>9

(* What a registration writes: the index again with the peer, of a list that *)
(* others may have replaced by now, and so the others' lists are not it.     *)
LEMMA WriteKeepsInv ==
  ASSUME PeerInv, NEW p \in Peers, WriteIndex(p)
  PROVE  PeerInv'
  <1> USE DEF PeerInv
  <1>1. job' = [job EXCEPT ![p] = [phase |-> "idle", ids |-> <<>>, read |-> 0]]
    BY DEF WriteIndex, NoJob
  <1>2. job'[p] = [phase |-> "idle", ids |-> <<>>, read |-> 0]
    BY <1>1 DEF PeerTypeOK
  <1>3. \A q \in Peers \ {p} : job'[q] = job[q]
    BY <1>1 DEF PeerTypeOK
  <1>4. job' \in [Peers -> [phase : {"idle", "registering", "discovering"}, ids : Seq(Peers),
                            read : 0..MaxWrites]]
    BY <1>1, PeersAssumption DEF PeerTypeOK
  <1>5. CASE UNCHANGED <<index, version>>
    <2>1. PeerTypeOK' BY <1>4, <1>5 DEF PeerTypeOK, WriteIndex
    <2>2. IndexHasNoDuplicates' BY <1>5 DEF IndexHasNoDuplicates
    <2>3. ReadsAreSound'
      BY <1>2, <1>3, <1>5 DEF ReadsAreSound
    <2> QED BY <2>1, <2>2, <2>3
  <1>6. CASE /\ p \notin ToSet(job[p].ids) /\ version < MaxWrites
             /\ index' = Listed(job[p].ids, p)
             /\ version' = version + 1
    <2>1. job[p].ids \in Seq(Peers) /\ IsInjective(job[p].ids)
      BY DEF PeerTypeOK, ReadsAreSound, WriteIndex
    <2>2. index' \in Seq(Peers) /\ Len(index') <= MaxIndex /\ IsInjective(index')
      BY <1>6, <2>1, ListedIsSound
    <2>3. version \in Nat /\ version' = version + 1 /\ version' \in 0..MaxWrites
      BY <1>6, PeersAssumption DEF PeerTypeOK
    <2>4. PeerTypeOK' BY <1>4, <2>2, <2>3 DEF PeerTypeOK, WriteIndex
    <2>5. IndexHasNoDuplicates' BY <2>2 DEF IndexHasNoDuplicates
    <2>6. ReadsAreSound'
      <3> SUFFICES ASSUME NEW q \in Peers, job'[q].phase = "registering"
                   PROVE  /\ Len(job'[q].ids) <= MaxIndex /\ IsInjective(job'[q].ids)
                          /\ job'[q].read <= version'
                          /\ job'[q].read # version'
        BY <2>3 DEF ReadsAreSound
      <3>1. q # p BY <1>2
      <3>2. job'[q] = job[q] BY <1>3, <3>1
      <3>3. job[q].read \in Nat BY DEF PeerTypeOK
      <3> QED BY <2>3, <3>2, <3>3 DEF ReadsAreSound
    <2> QED BY <2>4, <2>5, <2>6
  <1> QED BY <1>5, <1>6 DEF WriteIndex

(* A lookup of peers touches nothing of the index.                           *)
LEMMA DiscoverKeepsInv ==
  ASSUME PeerInv, NEW p \in Peers, Discover(p) \/ FindPeer(p) \/ Discovered(p)
  PROVE  PeerInv'
  <1> USE DEF PeerInv
  <1>1. UNCHANGED <<localInfo, announced, index, version>>
    BY DEF Discover, FindPeer, Discovered
  <1> DEFINE Looking == [phase : {"idle", "discovering"}, ids : Seq(Peers), read : 0..MaxWrites]
  <1>2. PICK job2 \in Looking : job' = [job EXCEPT ![p] = job2]
    <2> <<>> \in Seq(Peers) /\ 0 \in 0..MaxWrites
      BY PeersAssumption
    <2>1. CASE Discover(p)
      <3> DEFINE n == IF Len(index) < Limit THEN Len(index) ELSE Limit
                 first == SubSeq(index, 1, n)
                 job3 == [NoJob EXCEPT !.phase = "discovering", !.ids = first]
      <3>1. n \in Int /\ n <= Len(index)
        <4>1. index \in Seq(Peers) BY DEF PeerTypeOK
        <4>2. Len(index) \in Nat BY <4>1, LenProperties
        <4> QED BY <4>2, PeersAssumption
      <3>2. \A i \in 1..n : index[i] \in Peers
        BY <3>1 DEF PeerTypeOK
      <3> HIDE DEF n
      <3>3. first \in Seq(Peers)
        BY <3>1, <3>2, SubSeqProperties
      <3> HIDE DEF first
      <3>4. job3 \in Looking
        BY <3>3 DEF NoJob
      <3>5. job' = [job EXCEPT ![p] = job3]
        BY <2>1 DEF Discover, first, n
      <3> HIDE DEF job3, Looking
      <3> QED BY <3>4, <3>5
    <2>2. CASE FindPeer(p)
      <3> DEFINE job3 == [job[p] EXCEPT !.ids = Tail(@)]
      <3>1. job[p].ids \in Seq(Peers) /\ job[p].ids # <<>>
        BY <2>2 DEF FindPeer, PeerTypeOK
      <3>2. Tail(job[p].ids) \in Seq(Peers)
        BY <3>1, HeadTailProperties
      <3>3. job[p] \in Looking
        BY <2>2 DEF FindPeer, PeerTypeOK
      <3>4. job3 \in Looking
        BY <3>2, <3>3
      <3>5. job' = [job EXCEPT ![p] = job3]
        BY <2>2 DEF FindPeer
      <3> HIDE DEF job3, Looking
      <3> QED BY <3>4, <3>5
    <2>3. CASE Discovered(p)
      <3>1. NoJob \in Looking BY DEF NoJob
      <3> HIDE DEF Looking
      <3> QED BY <2>3, <3>1 DEF Discovered
    <2> QED BY <2>1, <2>2, <2>3
  <1>3. job'[p].phase # "registering" /\ \A q \in Peers \ {p} : job'[q] = job[q]
    BY <1>2 DEF PeerTypeOK
  <1>4. PeerTypeOK' BY <1>1, <1>2 DEF PeerTypeOK
  <1>5. IndexHasNoDuplicates' BY <1>1 DEF IndexHasNoDuplicates
  <1>6. ReadsAreSound' BY <1>1, <1>3 DEF ReadsAreSound
  <1> QED BY <1>4, <1>5, <1>6

LEMMA PeerInvStep == PeerInv /\ [PeerNext]_peerVars => PeerInv'
  <1> SUFFICES ASSUME PeerInv, [PeerNext]_peerVars PROVE PeerInv'
    OBVIOUS
  <1>1. ASSUME NEW p \in Peers, Announce(p) \/ AnnouncementExpires(p)
        PROVE  PeerInv'
    <2>1. UNCHANGED <<index, version, job>> BY <1>1 DEF Announce, AnnouncementExpires
    <2>2. PeerTypeOK' BY <1>1, <2>1 DEF PeerInv, PeerTypeOK, Announce, AnnouncementExpires
    <2> QED BY <2>1, <2>2 DEF PeerInv, IndexHasNoDuplicates, ReadsAreSound
  <1>2. ASSUME NEW p \in Peers,
               ReadIndex(p) \/ WriteIndex(p) \/ Discover(p) \/ FindPeer(p) \/ Discovered(p)
        PROVE  PeerInv'
    BY <1>2, ReadKeepsInv, WriteKeepsInv, DiscoverKeepsInv
  <1>3. CASE IndexExpires
    <2>1. version \in Nat /\ version' = version + 1 /\ version' \in 0..MaxWrites
      BY <1>3, PeersAssumption DEF PeerInv, PeerTypeOK, IndexExpires
    <2>2. index' = <<>> /\ IsInjective(<<>>) /\ Len(<<>>) = 0 /\ <<>> \in Seq(Peers)
      BY <1>3 DEF IndexExpires, IsInjective
    <2>3. job' = job /\ \A q \in Peers : job[q].read \in Nat
      BY <1>3 DEF IndexExpires, PeerInv, PeerTypeOK
    <2>4. PeerTypeOK' BY <1>3, <2>1, <2>2, <2>3 DEF PeerInv, PeerTypeOK, IndexExpires
    <2>5. IndexHasNoDuplicates' BY <2>2, PeersAssumption DEF IndexHasNoDuplicates
    <2>6. ReadsAreSound' BY <2>1, <2>2, <2>3 DEF PeerInv, ReadsAreSound
    <2> QED BY <2>4, <2>5, <2>6 DEF PeerInv
  <1>4. CASE UNCHANGED peerVars
    BY <1>4 DEF peerVars, PeerInv, PeerTypeOK, IndexHasNoDuplicates, ReadsAreSound
  <1> QED BY <1>1, <1>2, <1>3, <1>4 DEF PeerNext

(* The index of a capability names no peer twice and keeps to its limit,     *)
(* whatever registrations read before and write after one another.           *)
THEOREM PeerInvariance == PeerSpec => []PeerInv
  BY PeerInvInit, PeerInvStep, PTL DEF PeerSpec

(* A peer is lost from the index only to a race, to a read that failed or to *)
(* the limit.                                                                *)
THEOREM OnlyStaleWritesLose == PeerSpec => OnlyStaleWritesDrop
  <1>1. ASSUME PeerInv, [PeerNext]_peerVars, NEW p \in Peers,
               WriteIndex(p), job[p].read = version, Len(index) < MaxIndex
        PROVE  ToSet(index) \subseteq ToSet(index')
    <2>1. /\ job[p].ids = index /\ index \in Seq(Peers) /\ IsInjective(index)
      BY <1>1 DEF PeerInv, PeerTypeOK, ReadsAreSound, IndexHasNoDuplicates, WriteIndex
    <2>2. CASE p \notin ToSet(index) /\ index' = Listed(index, p)
      BY <1>1, <2>1, <2>2, ListedIsSound
    <2>3. CASE index' = index
      BY <2>3
    <2> QED BY <1>1, <2>1, <2>2, <2>3 DEF WriteIndex
  <1>2. PeerInv /\ [PeerNext]_peerVars =>
          [\A p \in Peers :
              WriteIndex(p) /\ job[p].read = version /\ Len(index) < MaxIndex =>
                  ToSet(index) \subseteq ToSet(index')]_peerVars
    BY <1>1
  <1> QED BY <1>2, PeerInvariance, PTL DEF PeerSpec, OnlyStaleWritesDrop

-----------------------------------------------------------------------------
(***************************************************************************)
(* Distances, buckets and the search of the table, then the lookups and the *)
(* table as a component, for ids of any length and buckets of any size.    *)
(***************************************************************************)

-----------------------------------------------------------------------------
(* Distances.  Of two ids one is nearer to a target: the one that agrees     *)
(* with it where they first differ.                                          *)

LEMMA FirstDifferenceIsFirst ==
  ASSUME NEW a \in NodeIDs, NEW b \in NodeIDs, a # b
  PROVE  /\ FirstDifference(a, b) \in 1..IdBits
         /\ a[FirstDifference(a, b)] # b[FirstDifference(a, b)]
         /\ \A i \in 1..IdBits : i < FirstDifference(a, b) => a[i] = b[i]
<1> DEFINE D == {i \in 1..IdBits : a[i] # b[i]}
<1>1. D \in SUBSET Nat
  BY KBucketsAssumption
<1>2. D # {}
  <2> SUFFICES ASSUME D = {} PROVE FALSE
    OBVIOUS
  <2>1. \A i \in 1..IdBits : a[i] = b[i]
    OBVIOUS
  <2>2. a = [i \in 1..IdBits |-> a[i]] /\ b = [i \in 1..IdBits |-> b[i]]
    BY DEF NodeIDs
  <2>3. [i \in 1..IdBits |-> a[i]] = [i \in 1..IdBits |-> b[i]]
    BY <2>1
  <2> QED
    BY <2>2, <2>3
<1>3. Min(D) \in D /\ \A x \in D : Min(D) <= x
  BY <1>1, <1>2, MinOfNumbers
<1>4. FirstDifference(a, b) = Min(D)
  BY DEF FirstDifference
<1>5. \A i \in 1..IdBits : i < Min(D) => i \notin D
  BY <1>1, <1>3
<1> QED
  BY <1>3, <1>4, <1>5

LEMMA FirstDifferenceIs ==
  ASSUME NEW a \in NodeIDs, NEW b \in NodeIDs, NEW d \in 1..IdBits,
         a[d] # b[d], \A i \in 1..IdBits : i < d => a[i] = b[i]
  PROVE  FirstDifference(a, b) = d
<1>1. a # b
  OBVIOUS
<1>2. /\ FirstDifference(a, b) \in 1..IdBits
      /\ a[FirstDifference(a, b)] # b[FirstDifference(a, b)]
      /\ \A i \in 1..IdBits : i < FirstDifference(a, b) => a[i] = b[i]
  BY <1>1, FirstDifferenceIsFirst
<1>3. ~(FirstDifference(a, b) < d) /\ ~(d < FirstDifference(a, b))
  BY <1>2
<1> QED
  BY <1>2, <1>3, KBucketsAssumption

LEMMA FirstDifferenceSymmetric ==
  ASSUME NEW a \in NodeIDs, NEW b \in NodeIDs, a # b
  PROVE  FirstDifference(b, a) = FirstDifference(a, b)
<1>1. /\ FirstDifference(a, b) \in 1..IdBits
      /\ a[FirstDifference(a, b)] # b[FirstDifference(a, b)]
      /\ \A i \in 1..IdBits : i < FirstDifference(a, b) => a[i] = b[i]
  BY FirstDifferenceIsFirst
<1> HIDE DEF FirstDifference
<1> QED
  BY <1>1, FirstDifferenceIs

\* Nearer is a strict total order on ids.
LEMMA NearerIsOrder ==
  ASSUME NEW target \in NodeIDs
  PROVE  /\ \A a \in NodeIDs : ~Nearer(target, a, a)
         /\ \A a, b \in NodeIDs : a # b => Nearer(target, a, b) \/ Nearer(target, b, a)
         /\ \A a, b, c \in NodeIDs :
              Nearer(target, a, b) /\ Nearer(target, b, c) => Nearer(target, a, c)
<1>1. \A a \in NodeIDs : ~Nearer(target, a, a)
  BY DEF Nearer
<1>2. ASSUME NEW a \in NodeIDs, NEW b \in NodeIDs, a # b
      PROVE  Nearer(target, a, b) \/ Nearer(target, b, a)
  <2>1. /\ FirstDifference(a, b) \in 1..IdBits
        /\ a[FirstDifference(a, b)] # b[FirstDifference(a, b)]
        /\ FirstDifference(b, a) = FirstDifference(a, b)
    BY <1>2, FirstDifferenceIsFirst, FirstDifferenceSymmetric
  <2>2. \A d \in 1..IdBits : a[d] \in {0, 1} /\ b[d] \in {0, 1} /\ target[d] \in {0, 1}
    BY DEF NodeIDs
  <2> QED
    BY <1>2, <2>1, <2>2 DEF Nearer
<1>3. ASSUME NEW a \in NodeIDs, NEW b \in NodeIDs, NEW c \in NodeIDs,
             Nearer(target, a, b), Nearer(target, b, c)
      PROVE  Nearer(target, a, c)
  <2> DEFINE i == FirstDifference(a, b)
             j == FirstDifference(b, c)
  <2>1. /\ i \in 1..IdBits /\ j \in 1..IdBits
        /\ a[i] # b[i] /\ b[j] # c[j]
        /\ \A k \in 1..IdBits : k < i => a[k] = b[k]
        /\ \A k \in 1..IdBits : k < j => b[k] = c[k]
        /\ a[i] = target[i] /\ b[j] = target[j]
    BY <1>3, FirstDifferenceIsFirst DEF Nearer
  <2> HIDE DEF i, j
  <2>2. i # j
    BY <2>1
  <2>3. CASE i < j
    <3>1. a[i] # c[i] /\ \A k \in 1..IdBits : k < i => a[k] = c[k]
      BY <2>1, <2>3
    <3>2. FirstDifference(a, c) = i
      BY <2>1, <3>1, FirstDifferenceIs
    <3> QED
      BY <2>1, <3>1, <3>2 DEF Nearer
  <2>4. CASE j < i
    <3>1. a[j] # c[j] /\ a[j] = b[j] /\ \A k \in 1..IdBits : k < j => a[k] = c[k]
      BY <2>1, <2>4
    <3>2. FirstDifference(a, c) = j
      BY <2>1, <3>1, FirstDifferenceIs
    <3> QED
      BY <2>1, <3>1, <3>2 DEF Nearer
  <2> QED
    BY <2>1, <2>2, <2>3, <2>4
<1> QED
  BY <1>1, <1>2, <1>3

LEMMA BucketIndexType ==
  ASSUME NEW a \in NodeIDs, NEW b \in NodeIDs
  PROVE  BucketIndex(a, b) \in BucketIndexes
<1>1. CASE a = b
  BY <1>1, KBucketsAssumption DEF BucketIndex, BucketIndexes
<1>2. CASE a # b
  <2>1. FirstDifference(a, b) \in 1..IdBits
    BY <1>2, FirstDifferenceIsFirst
  <2> QED
    BY <1>2, <2>1, KBucketsAssumption DEF BucketIndex, BucketIndexes
<1> QED
  BY <1>1, <1>2

-----------------------------------------------------------------------------
(* Lists of ids                                                            *)

\* Some places of a list make a list no longer, of its members there.
LEMMA AtPlacesIsPart ==
  ASSUME NEW X, NEW s \in Seq(X), NEW P \in SUBSET (DOMAIN s)
  PROVE  /\ AtPlaces(s, P) \in Seq(X)
         /\ Len(AtPlaces(s, P)) <= Len(s)
         /\ Len(AtPlaces(s, P)) = Cardinality(P)
         /\ \E at : /\ CountsPlaces(at, P, Cardinality(P))
                    /\ \A k \in 1..Cardinality(P) : AtPlaces(s, P)[k] = s[at[k]]
<1> DEFINE n == Cardinality(P)
           r == AtPlaces(s, P)
<1>1. Len(s) \in Nat /\ DOMAIN s = 1..Len(s) /\ \A i \in DOMAIN s : s[i] \in X
  BY LenProperties, ElementOfSeq
<1>2. /\ n \in Nat /\ n <= Len(s)
      /\ \E at : CountsPlaces(at, P, n)
  <2> DEFINE m == Len(s)
  <2>1. m \in Nat /\ P \in SUBSET (1..m)
    BY <1>1
  <2> HIDE DEF m
  <2>2. Cardinality(P) \in Nat /\ Cardinality(P) <= m /\ \E at : CountsPlaces(at, P, Cardinality(P))
    BY <2>1, PlacesAreCounted
  <2> QED
    BY <2>2 DEF m
<1>1a. n = Cardinality(P)
  OBVIOUS
<1> HIDE DEF n
<1>3. PICK at : CountsPlaces(at, P, n)
  BY <1>2
<1>4. \A k \in 1..n : (CHOOSE i \in P : Cardinality({j \in P : j < i}) = k - 1) = at[k]
  BY <1>3 DEF CountsPlaces
<1>5. r = [k \in 1..n |-> s[CHOOSE i \in P : Cardinality({j \in P : j < i}) = k - 1]]
  BY <1>1a DEF AtPlaces
<1>6. DOMAIN r = 1..n /\ \A k \in 1..n : r[k] = s[at[k]]
  BY <1>4, <1>5
<1>7. r = [k \in 1..n |-> r[k]]
  BY <1>5
<1> HIDE DEF r
<1>8. \A k \in 1..n : r[k] \in X
  BY <1>1, <1>3, <1>6 DEF CountsPlaces
<1>9. r \in Seq(X) /\ Len(r) = n
  BY <1>2, <1>7, <1>8
<1>10. r \in Seq(X) /\ Len(r) <= Len(s)
  BY <1>2, <1>9
<1> QED
  BY <1>3, <1>6, <1>9, <1>10 DEF r, n

\* at tells where each member of the sorted list r was in s: the same ids, each
\* as often, none nearer than one that comes before it.
SortsNearest(at, target, s, r) ==
  /\ at \in [DOMAIN s -> DOMAIN s]
  /\ \A i \in DOMAIN s : \E k \in DOMAIN s : at[k] = i
  /\ \A k, l \in DOMAIN s : at[k] = at[l] => k = l
  /\ \A k \in DOMAIN s : r[k] = s[at[k]]
  /\ \A k, l \in DOMAIN s : k < l => ~Nearer(target, s[at[l]], s[at[k]])

LEMMA NearestFirstSorts ==
  ASSUME NEW target \in NodeIDs, NEW s \in Seq(NodeIDs)
  PROVE  /\ DOMAIN NearestFirst(target, s) = DOMAIN s
         /\ \E at : SortsNearest(at, target, s, NearestFirst(target, s))
<1> DEFINE P == DOMAIN s
           R == {p \in P \X P : \/ Nearer(target, s[p[1]], s[p[2]])
                                \/ s[p[1]] = s[p[2]] /\ p[1] < p[2]}
           n == Cardinality(P)
           earlier == [i \in P |-> Cardinality({j \in P : \/ Nearer(target, s[j], s[i])
                                                          \/ s[j] = s[i] /\ j < i})]
<1>1. P = 1..Len(s) /\ Len(s) \in Nat /\ \A i \in P : s[i] \in NodeIDs
  BY LenProperties, ElementOfSeq
<1>2. IsFiniteSet(P) /\ n = Len(s)
  <2>1. IsFiniteSet(1..Len(s)) /\ Cardinality(1..Len(s)) = Len(s)
    <3> DEFINE m == Len(s)
    <3>1. m \in Nat
      BY <1>1
    <3> HIDE DEF m
    <3>2. IsFiniteSet(1..m) /\ Cardinality(1..m) = m
      BY <3>1, FS_Interval
    <3> QED
      BY <3>2 DEF m
  <2> QED
    BY <1>1, <2>1
<1>3. \A i, j \in P : <<i, j>> \in R <=> \/ Nearer(target, s[i], s[j])
                                         \/ s[i] = s[j] /\ i < j
  OBVIOUS
<1>4. \A i, j \in P : i < j \/ j < i \/ i = j
  BY <1>1
<1>5. \A i, j, k \in P : ~(i < i) /\ (i < j /\ j < k => i < k)
  BY <1>1
<1> HIDE DEF P, R
<1>6. IsOrder(P, R)
  <2> SUFFICES ASSUME NEW i \in P, NEW j \in P, NEW k \in P
               PROVE  /\ <<i, i>> \notin R
                      /\ <<i, j>> \in R /\ <<j, k>> \in R => <<i, k>> \in R
                      /\ i # j => <<i, j>> \in R \/ <<j, i>> \in R
    BY DEF IsOrder
  <2>1. <<i, i>> \notin R
    BY <1>1, <1>3, <1>5, NearerIsOrder
  <2>2. ASSUME <<i, j>> \in R, <<j, k>> \in R PROVE <<i, k>> \in R
    <3>1. \/ Nearer(target, s[i], s[j])
          \/ s[i] = s[j] /\ i < j
      BY <1>3, <2>2
    <3>2. \/ Nearer(target, s[j], s[k])
          \/ s[j] = s[k] /\ j < k
      BY <1>3, <2>2
    <3>3. \/ Nearer(target, s[i], s[k])
          \/ s[i] = s[k] /\ i < k
      BY <1>1, <1>5, <3>1, <3>2, NearerIsOrder
    <3> QED
      BY <1>3, <3>3
  <2>3. ASSUME i # j PROVE <<i, j>> \in R \/ <<j, i>> \in R
    BY <1>1, <1>3, <1>4, <2>3, NearerIsOrder
  <2> QED
    BY <2>1, <2>2, <2>3
<1>7. \A i \in P : earlier[i] = Cardinality(Below(P, R, i))
  <2> TAKE i \in P
  <2>1. Below(P, R, i) = {j \in P : \/ Nearer(target, s[j], s[i])
                                    \/ s[j] = s[i] /\ j < i}
    BY <1>3 DEF Below
  <2> QED
    BY <2>1
<1>8. n \in Nat /\ n = Cardinality(P) /\ P = 1..n
  BY <1>1, <1>2
<1>9. NearestFirst(target, s) = [k \in P |-> s[CHOOSE i \in P : earlier[i] = k - 1]]
  BY DEF NearestFirst, P
<1> HIDE DEF earlier, n
<1>10. PICK at : CountsRanks(at, P, R, n)
  BY <1>2, <1>6, <1>8, OrderIsCounted
<1>11. \A k \in P : (CHOOSE i \in P : earlier[i] = k - 1) = at[k]
  BY <1>7, <1>8, <1>10 DEF CountsRanks
<1>12. DOMAIN NearestFirst(target, s) = P /\ \A k \in P : NearestFirst(target, s)[k] = s[at[k]]
  BY <1>9, <1>11
<1>13. \A k, l \in P : k < l => ~Nearer(target, s[at[l]], s[at[k]])
  <2> TAKE k, l \in P
  <2> HAVE k < l
  <2>1. at[k] \in P /\ at[l] \in P /\ <<at[k], at[l]>> \in R
    BY <1>8, <1>10 DEF CountsRanks
  <2>2. Nearer(target, s[at[k]], s[at[l]]) \/ s[at[k]] = s[at[l]]
    BY <1>3, <2>1
  <2> QED
    BY <1>1, <2>1, <2>2, NearerIsOrder
<1>14. SortsNearest(at, target, s, NearestFirst(target, s))
  <2>1. at \in [P -> P] /\ (\A i \in P : \E k \in P : at[k] = i)
        /\ \A k, l \in P : at[k] = at[l] => k = l
    BY <1>8, <1>10 DEF CountsRanks
  <2> QED
    BY <2>1, <1>12, <1>13 DEF P, SortsNearest
<1> QED
  BY <1>12, <1>14 DEF P

-----------------------------------------------------------------------------
(* Buckets                                                                 *)

Entries(X) == [id : X, fresh : BOOLEAN]

BucketsOf(X) == [BucketIndexes -> Seq(Entries(X))]

LEMMA MinPlace ==
  ASSUME NEW X, NEW bucket \in Seq(Entries(X)), NEW id, PlacesOf(bucket, id) # {}
  PROVE  Min(PlacesOf(bucket, id)) \in PlacesOf(bucket, id)
<1>1. PlacesOf(bucket, id) \in SUBSET Nat
  <2>1. DOMAIN bucket = 1..Len(bucket) /\ Len(bucket) \in Nat
    BY LenProperties
  <2> QED
    BY <2>1 DEF PlacesOf
<1> QED
  BY <1>1, MinOfNumbers

LEMMA WithNodeType ==
  ASSUME NEW X \in SUBSET NodeIDs, NEW b \in BucketsOf(X), NEW local \in NodeIDs, NEW id \in X
  PROVE  WithNode(b, local, id) \in BucketsOf(X)
<1> DEFINE k == BucketIndex(local, id)
           places == PlacesOf(b[k], id)
           old == [b[k] EXCEPT ![Min(places)] = Entry(id)]
<1>1. k \in BucketIndexes
  BY BucketIndexType
<1>2. b[k] \in Seq(Entries(X)) /\ Entry(id) \in Entries(X)
  BY <1>1 DEF BucketsOf, Entry, Entries
<1>3. CASE places # {}
  <2>1. Min(places) \in 1..Len(b[k])
    <3>1. Min(places) \in places
      BY <1>2, <1>3, MinPlace
    <3> QED
      BY <1>2, <3>1, LenProperties DEF PlacesOf
  <2>2. old \in Seq(Entries(X))
    BY <1>2, <2>1, ExceptSeq
  <2>3. WithNode(b, local, id) = [b EXCEPT ![k] = old]
    BY <1>3 DEF WithNode
  <2> HIDE DEF old, k
  <2> QED
    BY <1>1, <2>2, <2>3 DEF BucketsOf
<1>4. CASE places = {} /\ HasRoom(b[k])
  <2>1. WithNode(b, local, id) = [b EXCEPT ![k] = Append(b[k], Entry(id))]
    BY <1>4 DEF WithNode
  <2>2. Append(b[k], Entry(id)) \in Seq(Entries(X))
    BY <1>2
  <2> HIDE DEF k
  <2> QED
    BY <1>1, <2>1, <2>2 DEF BucketsOf
<1>5. CASE places = {} /\ ~HasRoom(b[k])
  BY <1>5 DEF WithNode
<1> QED
  BY <1>3, <1>4, <1>5

LEMMA WithoutStaleType ==
  ASSUME NEW X, NEW b \in BucketsOf(X)
  PROVE  WithoutStale(b) \in BucketsOf(X)
<1>1. ASSUME NEW k \in BucketIndexes
      PROVE  AtPlaces(b[k], {i \in DOMAIN b[k] : b[k][i].fresh}) \in Seq(Entries(X))
  <2>1. b[k] \in Seq(Entries(X))
    BY DEF BucketsOf
  <2> QED
    BY <2>1, AtPlacesIsPart
<1> QED
  BY <1>1 DEF WithoutStale, BucketsOf

LEMMA AllStaleType ==
  ASSUME NEW X, NEW b \in BucketsOf(X)
  PROVE  AllStale(b) \in BucketsOf(X)
<1>1. ASSUME NEW k \in BucketIndexes
      PROVE  [i \in DOMAIN b[k] |-> [b[k][i] EXCEPT !.fresh = FALSE]] \in Seq(Entries(X))
  <2>1. b[k] \in Seq(Entries(X))
    BY DEF BucketsOf
  <2>2. DOMAIN b[k] = 1..Len(b[k]) /\ Len(b[k]) \in Nat
    BY <2>1, LenProperties
  <2>3. \A i \in DOMAIN b[k] : [b[k][i] EXCEPT !.fresh = FALSE] \in Entries(X)
    <3>1. \A e \in Entries(X) : [e EXCEPT !.fresh = FALSE] \in Entries(X)
      BY DEF Entries
    <3>2. \A i \in DOMAIN b[k] : b[k][i] \in Entries(X)
      BY <2>1, <2>2, ElementOfSeq
    <3> QED
      BY <3>1, <3>2
  <2> QED
    BY <2>2, <2>3
<1> QED
  BY <1>1 DEF AllStale, BucketsOf

\* WithNodes is one WithNode after the other.
LEMMA WithNodesType ==
  ASSUME NEW X \in SUBSET NodeIDs, NEW b \in BucketsOf(X), NEW n \in NodeIDs, NEW ids \in Seq(X)
  PROVE  WithNodes(b, n, ids) \in BucketsOf(X)
<1> DEFINE len == Len(ids)
           V == BucketsOf(X)
           step(bs, id) == IF id = n THEN bs ELSE WithNode(bs, n, id)
           G == [p \in (1..len) \X V |-> step(p[2], ids[p[1]])]
           F(f) == [s \in SUBSET (1..len) |->
                      IF s = {} THEN b ELSE step(f[s \ {Max(s)}], ids[Max(s)])]
           iter == CHOOSE f : f = F(f)
<1>1. len \in Nat /\ DOMAIN ids = 1..len /\ \A i \in 1..len : ids[i] \in X
  BY LenProperties, ElementOfSeq
<1>2. WithNodes(b, n, ids) = iter[1..len]
  BY <1>1 DEF WithNodes, FoldLeft, MapThenFoldSet
<1>3. \A i \in 1..len : \A bs \in V : step(bs, ids[i]) \in V
  BY <1>1, WithNodeType
<1> HIDE DEF len, step, V
<1>4. G \in [(1..len) \X V -> V]
  BY <1>3
<1>5. b \in V
  BY DEF V
<1>6. PICK f : Folds(f, len, V, b, G)
  <2> HIDE DEF G
  <2> QED
    BY <1>1, <1>4, <1>5, FoldIsDefined
<1>7. \A s \in SUBSET (1..len) : s # {} => Max(s) \in 1..len
  <2> TAKE s \in SUBSET (1..len)
  <2> HAVE s # {}
  <2>1. s \in SUBSET Int /\ len \in Int /\ \A x \in s : x <= len
    BY <1>1
  <2> QED
    BY <2>1, MaxOfBounded
<1>8. f = F(f)
  <2>1. ASSUME NEW s \in SUBSET (1..len), s # {}
        PROVE  f[s] = step(f[s \ {Max(s)}], ids[Max(s)])
    <3>1. f[s] = G[<<Max(s), f[s \ {Max(s)}]>>] /\ f[s \ {Max(s)}] \in V
      <4> HIDE DEF G
      <4> QED
        BY <1>6, <2>1 DEF Folds
    <3> QED
      BY <1>7, <2>1, <3>1
  <2>2. \A s \in SUBSET (1..len) :
          f[s] = IF s = {} THEN b ELSE step(f[s \ {Max(s)}], ids[Max(s)])
    BY <1>6, <2>1 DEF Folds
  <2>3. f = [s \in SUBSET (1..len) |-> f[s]]
    BY <1>6 DEF Folds
  <2> QED
    BY <2>2, <2>3, Zenon
<1>9. iter = F(iter)
  BY <1>8
<1>10. iter[1..len] = f[1..len]
  <2> HIDE DEF iter
  <2>1. iter[{}] = f[{}]
    BY <1>8, <1>9
  <2>2. \A s \in SUBSET (1..len) :
          s # {} /\ iter[s \ {Max(s)}] = f[s \ {Max(s)}] => iter[s] = f[s]
    BY <1>8, <1>9
  <2> HIDE DEF F
  <2> QED
    BY <1>1, <2>1, <2>2, FoldIsUnique
<1>11. f[1..len] \in V
  BY <1>6 DEF Folds
<1> QED
  BY <1>2, <1>10, <1>11 DEF V

\* What a list becomes when nodes join it: the list, then each that is new.
LEMMA WithNewIs ==
  ASSUME NEW X, NEW list \in Seq(X), NEW nodes \in Seq(X), NEW n
  PROVE  /\ WithNew(list, n, nodes) \in Seq(X)
         /\ Len(list) <= Len(WithNew(list, n, nodes))
         /\ \A i \in 1..Len(list) : WithNew(list, n, nodes)[i] = list[i]
         /\ ToSet(WithNew(list, n, nodes)) = ToSet(list) \cup (ToSet(nodes) \ {n})
<1> DEFINE len == Len(nodes)
           Begins(l) == Len(list) <= Len(l) /\ \A i \in 1..Len(list) : l[i] = list[i]
           V == {l \in Seq(X) : Begins(l) /\ ToSet(l) \subseteq ToSet(list) \cup (ToSet(nodes) \ {n})}
           step(l, id) == IF id = n \/ id \in ToSet(l) THEN l ELSE Append(l, id)
           G == [p \in (1..len) \X V |-> step(p[2], nodes[p[1]])]
           F(f) == [s \in SUBSET (1..len) |->
                      IF s = {} THEN list ELSE step(f[s \ {Max(s)}], nodes[Max(s)])]
           iter == CHOOSE f : f = F(f)
<1>1. len \in Nat /\ DOMAIN nodes = 1..len /\ \A i \in 1..len : nodes[i] \in X
  BY LenProperties, ElementOfSeq
<1>2. WithNew(list, n, nodes) = iter[1..len]
  BY <1>1 DEF WithNew, FoldLeft, MapThenFoldSet
<1>3. ASSUME NEW i \in 1..len, NEW l \in V
      PROVE  /\ step(l, nodes[i]) \in V
             /\ ToSet(l) \subseteq ToSet(step(l, nodes[i]))
             /\ nodes[i] = n \/ nodes[i] \in ToSet(step(l, nodes[i]))
  <2>1. CASE nodes[i] = n \/ nodes[i] \in ToSet(l)
    BY <2>1
  <2>2. CASE nodes[i] # n /\ nodes[i] \notin ToSet(l)
    <3> DEFINE r == Append(l, nodes[i])
    <3>1. step(l, nodes[i]) = r
      BY <2>2
    <3>2. l \in Seq(X) /\ nodes[i] \in X /\ Len(l) \in Nat /\ Len(list) \in Nat
      BY <1>1, LenProperties
    <3>3. /\ r \in Seq(X) /\ Len(r) = Len(l) + 1
          /\ \A j \in 1..Len(l) : r[j] = l[j]
          /\ r[Len(l) + 1] = nodes[i]
      BY <3>2, AppendProperties
    <3>4. DOMAIN r = 1..(Len(l) + 1) /\ DOMAIN l = 1..Len(l)
      BY <3>2, <3>3, LenProperties
    <3> HIDE DEF r
    <3>5. ToSet(r) = ToSet(l) \cup {nodes[i]}
      <4>1. \A j \in 1..(Len(l) + 1) : j = Len(l) + 1 \/ j \in 1..Len(l)
        BY <3>2
      <4>2. Len(l) + 1 \in 1..(Len(l) + 1) /\ 1..Len(l) \subseteq 1..(Len(l) + 1)
        BY <3>2
      <4> QED
        <5>1. \A j \in DOMAIN r : r[j] \in ToSet(l) \cup {nodes[i]}
          BY <3>3, <3>4, <4>1 DEF ToSet
        <5>2. \A j \in DOMAIN l : l[j] \in ToSet(r)
          BY <3>3, <3>4, <4>2 DEF ToSet
        <5>3. nodes[i] \in ToSet(r)
          BY <3>3, <3>4, <4>2 DEF ToSet
        <5>4. ToSet(l) \subseteq ToSet(r)
          BY <5>2 DEF ToSet
        <5>5. ToSet(r) \subseteq ToSet(l) \cup {nodes[i]}
          BY <5>1 DEF ToSet
        <5> QED
          BY <5>3, <5>4, <5>5
    <3>6. nodes[i] \in ToSet(nodes)
      BY <1>1 DEF ToSet
    <3>7. Begins(r)
      <4>1. Len(list) <= Len(l) /\ \A j \in 1..Len(list) : l[j] = list[j]
        OBVIOUS
      <4>2. 1..Len(list) \subseteq 1..Len(l)
        BY <3>2, <4>1
      <4>3. Len(list) <= Len(r)
        BY <3>2, <3>3, <4>1
      <4>4. \A j \in 1..Len(list) : r[j] = list[j]
        BY <3>3, <4>1, <4>2
      <4> QED
        BY <4>3, <4>4
    <3> QED
      BY <2>2, <3>1, <3>3, <3>5, <3>6, <3>7
  <2> QED
    BY <2>1, <2>2
<1>3a. list \in V
  OBVIOUS
<1> HIDE DEF len, step, V
<1>4. G \in [(1..len) \X V -> V]
  BY <1>3
<1>6. PICK f : Folds(f, len, V, list, G)
  <2> HIDE DEF G
  <2> QED
    BY <1>1, <1>3a, <1>4, FoldIsDefined
<1>7. \A s \in SUBSET (1..len) : s # {} => Max(s) \in 1..len
  <2> TAKE s \in SUBSET (1..len)
  <2> HAVE s # {}
  <2>1. s \in SUBSET Int /\ len \in Int /\ \A x \in s : x <= len
    BY <1>1
  <2> QED
    BY <2>1, MaxOfBounded
<1>8. f = F(f)
  <2>1. ASSUME NEW s \in SUBSET (1..len), s # {}
        PROVE  f[s] = step(f[s \ {Max(s)}], nodes[Max(s)])
    <3>1. f[s] = G[<<Max(s), f[s \ {Max(s)}]>>] /\ f[s \ {Max(s)}] \in V
      <4> HIDE DEF G
      <4> QED
        BY <1>6, <2>1 DEF Folds
    <3> QED
      BY <1>7, <2>1, <3>1
  <2>2. \A s \in SUBSET (1..len) :
          f[s] = IF s = {} THEN list ELSE step(f[s \ {Max(s)}], nodes[Max(s)])
    BY <1>6, <2>1 DEF Folds
  <2>3. f = [s \in SUBSET (1..len) |-> f[s]]
    BY <1>6 DEF Folds
  <2> QED
    BY <2>2, <2>3, Zenon
<1>9. iter = F(iter)
  BY <1>8
<1>10. iter[1..len] = f[1..len]
  <2> HIDE DEF iter
  <2>1. iter[{}] = f[{}]
    BY <1>8, <1>9
  <2>2. \A s \in SUBSET (1..len) :
          s # {} /\ iter[s \ {Max(s)}] = f[s \ {Max(s)}] => iter[s] = f[s]
    BY <1>8, <1>9
  <2> HIDE DEF F
  <2> QED
    BY <1>1, <2>1, <2>2, FoldIsUnique
<1>11. PICK h : Steps(h, len, V, list, G, f[1..len])
  <2> HIDE DEF G
  <2> QED
    BY <1>1, <1>3a, <1>4, <1>6, FoldSteps
<1>12. WithNew(list, n, nodes) = h[len] /\ h[len] \in V
  BY <1>1, <1>2, <1>10, <1>11 DEF Steps
<1> DEFINE Has(k) == \A j \in 1..k : nodes[j] = n \/ nodes[j] \in ToSet(h[k])
           T == {k \in 0..len : Has(k)}
<1>13. 0 \in T
  BY <1>1
<1>14. ASSUME NEW k \in 1..len, k - 1 \in T PROVE k \in T
  <2>1. h[k] = step(h[k - 1], nodes[k]) /\ h[k - 1] \in V
    <3>1. k - 1 \in 0..len
      BY <1>1
    <3>2. h[k] = G[<<k, h[k - 1]>>] /\ h[k - 1] \in V
      <4> HIDE DEF G
      <4> QED
        BY <1>11, <3>1 DEF Steps
    <3> QED
      BY <3>2
  <2>2. /\ ToSet(h[k - 1]) \subseteq ToSet(h[k])
        /\ nodes[k] = n \/ nodes[k] \in ToSet(h[k])
    BY <1>3, <2>1
  <2>3. Has(k - 1)
    BY <1>14
  <2>4. Has(k)
    <3>1. \A j \in 1..k : j = k \/ j \in 1..(k - 1)
      BY <1>1
    <3> QED
      BY <2>2, <2>3, <3>1
  <2>5. k \in 0..len
    BY <1>1
  <2> HIDE DEF Has
  <2> QED
    BY <2>4, <2>5
<1>15. len \in T
  <2> HIDE DEF T
  <2>1. 0..len \subseteq T
    BY <1>1, <1>13, <1>14, InductionUpTo
  <2> QED
    BY <1>1, <2>1
<1>16. ToSet(nodes) \ {n} \subseteq ToSet(h[len])
  BY <1>1, <1>15 DEF ToSet
<1>17. ToSet(list) \subseteq ToSet(h[len])
  <2>1. Begins(h[len]) /\ h[len] \in Seq(X)
    BY <1>12 DEF V
  <2>2. DOMAIN list = 1..Len(list) /\ DOMAIN h[len] = 1..Len(h[len]) /\ Len(list) \in Nat /\ Len(h[len]) \in Nat
    BY <2>1, LenProperties
  <2>3. \A i \in DOMAIN list : i \in DOMAIN h[len] /\ h[len][i] = list[i]
    BY <2>1, <2>2
  <2> QED
    BY <2>3 DEF ToSet
<1> QED
  BY <1>12, <1>16, <1>17 DEF V

-----------------------------------------------------------------------------
(* A search                                                                *)

IdsIn(bucket) == [j \in DOMAIN bucket |-> bucket[j].id]

Turn(b, centre, count, i, found) ==
  IF SearchIndex(centre, i) \notin BucketIndexes \/ Len(found) >= 2 * count
  THEN found
  ELSE found \o IdsIn(b[SearchIndex(centre, i)])

\* h tells what a search has collected after each of its turns.
SearchTurns(h, b, centre, count, X) ==
  /\ h \in [0..IdBits -> Seq(X)]
  /\ h[0] = <<>> /\ h[IdBits] = Collected(b, centre, count)
  /\ \A k \in 1..IdBits : h[k] = Turn(b, centre, count, k - 1, h[k - 1])

LEMMA IdsInType ==
  ASSUME NEW X, NEW bucket \in Seq(Entries(X))
  PROVE  /\ IdsIn(bucket) \in Seq(X) /\ Len(IdsIn(bucket)) = Len(bucket)
         /\ \A j \in 1..Len(bucket) : IdsIn(bucket)[j] = bucket[j].id
<1>1. DOMAIN bucket = 1..Len(bucket) /\ Len(bucket) \in Nat
  BY LenProperties
<1>2. ASSUME NEW j \in 1..Len(bucket) PROVE bucket[j].id \in X
  <2>1. \A e \in Entries(X) : e.id \in X
    BY DEF Entries
  <2>2. bucket[j] \in Entries(X)
    BY ElementOfSeq
  <2> QED
    BY <2>1, <2>2
<1> QED
  BY <1>1, <1>2 DEF IdsIn

LEMMA SearchTakesTurns ==
  ASSUME NEW X, NEW b \in BucketsOf(X), NEW centre \in BucketIndexes, NEW count \in Nat
  PROVE  \E h : SearchTurns(h, b, centre, count, X)
<1> DEFINE n == IdBits
           V == Seq(X)
           seq == [i \in 1..n |-> i - 1]
           step(found, i) == Turn(b, centre, count, i, found)
           G == [p \in (1..n) \X V |-> step(p[2], seq[p[1]])]
           F(f) == [s \in SUBSET (1..n) |->
                      IF s = {} THEN <<>> ELSE step(f[s \ {Max(s)}], seq[Max(s)])]
           iter == CHOOSE f : f = F(f)
<1>1. n \in Nat /\ DOMAIN seq = 1..n
  BY KBucketsAssumption
<1>2. Collected(b, centre, count) = iter[1..n]
  BY <1>1 DEF Collected, FoldLeft, MapThenFoldSet, Turn, IdsIn
<1>3. ASSUME NEW i \in 1..n, NEW l \in V
      PROVE  step(l, seq[i]) \in V
  <2>1. CASE SearchIndex(centre, seq[i]) \in BucketIndexes
    <3>1. b[SearchIndex(centre, seq[i])] \in Seq(Entries(X))
      BY <2>1 DEF BucketsOf
    <3>2. IdsIn(b[SearchIndex(centre, seq[i])]) \in Seq(X)
      BY <3>1, IdsInType
    <3>3. l \o IdsIn(b[SearchIndex(centre, seq[i])]) \in Seq(X)
      BY <3>2, ConcatProperties
    <3> QED
      BY <3>3 DEF Turn
  <2>2. CASE SearchIndex(centre, seq[i]) \notin BucketIndexes
    BY <2>2 DEF Turn
  <2> QED
    BY <2>1, <2>2
<1>4. \A i \in 1..n : seq[i] = i - 1
  OBVIOUS
<1>5. <<>> \in V
  OBVIOUS
<1> HIDE DEF seq, step, V, n
<1>6. G \in [(1..n) \X V -> V]
  BY <1>3
<1>7. PICK f : Folds(f, n, V, <<>>, G)
  <2> HIDE DEF G
  <2> QED
    BY <1>1, <1>5, <1>6, FoldIsDefined
<1>8. \A s \in SUBSET (1..n) : s # {} => Max(s) \in 1..n
  <2> TAKE s \in SUBSET (1..n)
  <2> HAVE s # {}
  <2>1. s \in SUBSET Int /\ n \in Int /\ \A x \in s : x <= n
    BY <1>1
  <2> QED
    BY <2>1, MaxOfBounded
<1>9. f = F(f)
  <2>1. ASSUME NEW s \in SUBSET (1..n), s # {}
        PROVE  f[s] = step(f[s \ {Max(s)}], seq[Max(s)])
    <3>1. f[s] = G[<<Max(s), f[s \ {Max(s)}]>>] /\ f[s \ {Max(s)}] \in V
      <4> HIDE DEF G
      <4> QED
        BY <1>7, <2>1 DEF Folds
    <3> QED
      BY <1>8, <2>1, <3>1
  <2>2. \A s \in SUBSET (1..n) :
          f[s] = IF s = {} THEN <<>> ELSE step(f[s \ {Max(s)}], seq[Max(s)])
    BY <1>7, <2>1 DEF Folds
  <2>3. f = [s \in SUBSET (1..n) |-> f[s]]
    BY <1>7 DEF Folds
  <2> QED
    BY <2>2, <2>3, Zenon
<1>10. iter = F(iter)
  BY <1>9
<1>11. iter[1..n] = f[1..n]
  <2> HIDE DEF iter
  <2>1. iter[{}] = f[{}]
    BY <1>9, <1>10
  <2>2. \A s \in SUBSET (1..n) :
          s # {} /\ iter[s \ {Max(s)}] = f[s \ {Max(s)}] => iter[s] = f[s]
    BY <1>9, <1>10
  <2> HIDE DEF F
  <2> QED
    BY <1>1, <2>1, <2>2, FoldIsUnique
<1>12. PICK h : Steps(h, n, V, <<>>, G, f[1..n])
  <2> HIDE DEF G
  <2> QED
    BY <1>1, <1>5, <1>6, <1>7, FoldSteps
<1>13. ASSUME NEW k \in 1..n
       PROVE  h[k] = Turn(b, centre, count, k - 1, h[k - 1])
  <2>1. k - 1 \in 0..n
    BY <1>1
  <2>2. h[k] = G[<<k, h[k - 1]>>] /\ h[k - 1] \in V
    <3> HIDE DEF G
    <3> QED
      BY <1>12, <2>1 DEF Steps
  <2>3. h[k] = step(h[k - 1], seq[k])
    BY <2>2
  <2> QED
    BY <1>4, <2>3 DEF step
<1>14. SearchTurns(h, b, centre, count, X)
  <2> HIDE DEF G
  <2> QED
    BY <1>2, <1>11, <1>12, <1>13 DEF SearchTurns, Steps, V, n
<1> QED
  BY <1>14

\* The first of a list, count of them or as many as there are.
LEMMA FirstOfList ==
  ASSUME NEW X, NEW s \in Seq(X), NEW count \in Nat
  PROVE  LET r == SubSeq(s, 1, Min({count, Len(s)}))
         IN  /\ r \in Seq(X)
             /\ Len(r) <= count /\ Len(r) <= Len(s)
             /\ Len(r) = count \/ Len(r) = Len(s)
             /\ \A i \in 1..Len(r) : r[i] = s[i]
<1> DEFINE m == Min({count, Len(s)})
<1>1. Len(s) \in Nat
  BY LenProperties
<1>2. m \in {count, Len(s)} /\ m <= count /\ m <= Len(s)
  <2>1. {count, Len(s)} \in SUBSET Nat /\ {count, Len(s)} # {}
    BY <1>1
  <2> HIDE DEF m
  <2>2. Min({count, Len(s)}) \in {count, Len(s)} /\ \A x \in {count, Len(s)} : Min({count, Len(s)}) <= x
    BY <2>1, MinOfNumbers
  <2> QED
    BY <2>2 DEF m
<1>3. m \in Nat
  BY <1>1, <1>2
<1> HIDE DEF m
<1>4. /\ SubSeq(s, 1, m) \in Seq(X)
      /\ Len(SubSeq(s, 1, m)) = m
      /\ \A i \in 1..m : SubSeq(s, 1, m)[i] = s[i]
  BY <1>1, <1>2, <1>3
<1> QED
  BY <1>1, <1>2, <1>3, <1>4 DEF m

\* What a search answers: ids of the table, no more than asked.
LEMMA ClosestNodesType ==
  ASSUME NEW X \in SUBSET NodeIDs, NEW b \in BucketsOf(X), NEW local \in NodeIDs,
         NEW target \in NodeIDs, NEW count \in Nat
  PROVE  /\ ClosestNodes(b, local, target, count) \in Seq(X)
         /\ Len(ClosestNodes(b, local, target, count)) <= count
<1> DEFINE s == Collected(b, BucketIndex(local, target), count)
           r == NearestFirst(target, s)
<1>1. s \in Seq(X)
  <2>1. PICK h : SearchTurns(h, b, BucketIndex(local, target), count, X)
    BY BucketIndexType, SearchTakesTurns
  <2>2. IdBits \in 0..IdBits
    BY KBucketsAssumption
  <2> QED
    BY <2>1, <2>2 DEF SearchTurns
<1>2. ClosestNodes(b, local, target, count) = SubSeq(r, 1, Min({count, Len(r)}))
  BY DEF ClosestNodes
<1> HIDE DEF s
<1>3. s \in Seq(NodeIDs)
  BY <1>1, SeqMonotonic
<1>4. DOMAIN r = DOMAIN s /\ \E at : SortsNearest(at, target, s, r)
  BY <1>3, NearestFirstSorts
<1>5. r \in Seq(X)
  <2>1. DOMAIN s = 1..Len(s) /\ Len(s) \in Nat /\ \A i \in DOMAIN s : s[i] \in X
    BY <1>1, LenProperties, ElementOfSeq
  <2>2. r = [k \in DOMAIN r |-> r[k]]
    BY DEF NearestFirst
  <2>3. \A k \in DOMAIN s : r[k] \in X
    BY <1>4, <2>1 DEF SortsNearest
  <2> QED
    BY <1>4, <2>1, <2>2, <2>3
<1> HIDE DEF r
<1> QED
  BY <1>2, <1>5, FirstOfList

-----------------------------------------------------------------------------
(* Finitely many ids.                                                      *)

LEMMA NodeIDsFinite == IsFiniteSet(NodeIDs)
<1> DEFINE B == {0, 1}
           T == {k \in Nat : IsFiniteSet([1..k -> B])}
<1>1. IsFiniteSet(B)
  <2>1. IsFiniteSet({0} \cup {1})
    BY FS_Singleton, FS_AddElement
  <2>2. {0} \cup {1} = B
    OBVIOUS
  <2> QED
    BY <2>1, <2>2
<1> HIDE DEF B
<1>2. 0 \in T
  <2>1. [1..0 -> B] = {[i \in {} |-> 0]}
    <3>1. 1..0 = {}
      OBVIOUS
    <3>2. \A f \in [{} -> B] : f = [i \in {} |-> 0]
      <4> TAKE f \in [{} -> B]
      <4>1. f = [i \in {} |-> f[i]]
        OBVIOUS
      <4>2. [i \in {} |-> f[i]] = [i \in {} |-> 0]
        OBVIOUS
      <4> QED
        BY <4>1, <4>2
    <3>3. [i \in {} |-> 0] \in [{} -> B]
      OBVIOUS
    <3> QED
      BY <3>1, <3>2, <3>3
  <2> QED
    BY <2>1, FS_Singleton
<1>3. ASSUME NEW k \in Nat, k \in T PROVE k + 1 \in T
  <2> DEFINE S == [1..k -> B] \X B
             U == [1..(k + 1) -> B]
             g == [p \in S |-> [i \in 1..(k + 1) |-> IF i = k + 1 THEN p[2] ELSE p[1][i]]]
  <2>1. IsFiniteSet(S)
    BY <1>1, <1>3, FS_Product
  <2>2. g \in [S -> U]
    <3>1. ASSUME NEW p \in S, NEW i \in 1..(k + 1)
          PROVE  (IF i = k + 1 THEN p[2] ELSE p[1][i]) \in B
      <4>1. p[1] \in [1..k -> B] /\ p[2] \in B
        OBVIOUS
      <4>2. i # k + 1 => i \in 1..k
        OBVIOUS
      <4> QED
        BY <4>1, <4>2
    <3> QED
      BY <3>1
  <2>3. ASSUME NEW f \in U PROVE \E p \in S : g[p] = f
    <3> DEFINE p == <<[i \in 1..k |-> f[i]], f[k + 1]>>
    <3>1. p \in S
      <4>1. 1..k \subseteq 1..(k + 1) /\ k + 1 \in 1..(k + 1)
        OBVIOUS
      <4> QED
        BY <4>1
    <3>2. g[p] = [i \in 1..(k + 1) |-> IF i = k + 1 THEN p[2] ELSE p[1][i]]
      BY <3>1
    <3>3. \A i \in 1..(k + 1) : (IF i = k + 1 THEN p[2] ELSE p[1][i]) = f[i]
      <4>1. \A i \in 1..(k + 1) : i = k + 1 \/ i \in 1..k
        OBVIOUS
      <4> QED
        BY <4>1
    <3>4. f = [i \in 1..(k + 1) |-> f[i]]
      OBVIOUS
    <3> HIDE DEF p, g
    <3>5. g[p] = f
      BY <3>2, <3>3, <3>4
    <3> QED
      BY <3>1, <3>5
  <2>4. g \in Surjection(S, U)
    <3> HIDE DEF g, S, U
    <3> QED
      BY <2>2, <2>3 DEF Surjection
  <2>5. IsFiniteSet(U)
    <3> HIDE DEF g, S, U
    <3> QED
      BY <2>1, <2>4, FS_Surjection
  <2> QED
    BY <2>5
<1>4. IdBits \in T
  <2> HIDE DEF T
  <2> QED
    BY <1>2, <1>3, Induction, KBucketsAssumption
<1> QED
  BY <1>4 DEF NodeIDs, B

-----------------------------------------------------------------------------
(* The nearest of a list                                                   *)

\* What is sorted is the same list in another order.
LEMMA NearestFirstType ==
  ASSUME NEW X \in SUBSET NodeIDs, NEW target \in NodeIDs, NEW s \in Seq(X)
  PROVE  /\ NearestFirst(target, s) \in Seq(X)
         /\ Len(NearestFirst(target, s)) = Len(s)
         /\ ToSet(NearestFirst(target, s)) = ToSet(s)
<1> DEFINE r == NearestFirst(target, s)
<1>1. s \in Seq(NodeIDs)
  BY SeqMonotonic
<1>2. DOMAIN r = DOMAIN s /\ \E at : SortsNearest(at, target, s, r)
  BY <1>1, NearestFirstSorts
<1>3. DOMAIN s = 1..Len(s) /\ Len(s) \in Nat /\ \A i \in DOMAIN s : s[i] \in X
  BY LenProperties, ElementOfSeq
<1>4. r = [k \in DOMAIN r |-> r[k]]
  BY DEF NearestFirst
<1> HIDE DEF r
<1>5. PICK at : SortsNearest(at, target, s, r)
  BY <1>2
<1>6. \A k \in DOMAIN s : r[k] \in X
  BY <1>3, <1>5 DEF SortsNearest
<1>7. r \in Seq(X) /\ Len(r) = Len(s)
  BY <1>2, <1>3, <1>4, <1>6
<1>8. ToSet(r) = ToSet(s)
  <2>1. \A k \in DOMAIN s : at[k] \in DOMAIN s /\ r[k] = s[at[k]]
    BY <1>5 DEF SortsNearest
  <2>2. \A i \in DOMAIN s : \E k \in DOMAIN s : r[k] = s[i]
    <3> TAKE i \in DOMAIN s
    <3>1. PICK k \in DOMAIN s : at[k] = i
      BY <1>5 DEF SortsNearest
    <3>2. r[k] = s[at[k]]
      BY <2>1
    <3> QED
      BY <3>1, <3>2
  <2>3. DOMAIN r = DOMAIN s
    BY <1>2
  <2>4. \A k \in DOMAIN r : r[k] \in ToSet(s)
    BY <2>1, <2>3 DEF ToSet
  <2>5. \A i \in DOMAIN s : s[i] \in ToSet(r)
    BY <2>2, <2>3 DEF ToSet
  <2>6. ToSet(r) \subseteq ToSet(s)
    BY <2>4 DEF ToSet
  <2>7. ToSet(s) \subseteq ToSet(r)
    BY <2>5 DEF ToSet
  <2> QED
    BY <2>6, <2>7
<1> QED
  BY <1>7, <1>8 DEF r

\* A node that was heard of and is not in the list had no room in it.
NoRoomOutside(target, closest, heard) ==
  \A out \in heard \ ToSet(closest) :
     /\ Len(closest) = BucketSize
     /\ \A in \in ToSet(closest) : ~Nearer(target, out, in)

\* The places of a list are among the first of what it is sorted into, when those
\* of its members that are further than another come after it.
LEMMA NearerComeFirst ==
  ASSUME NEW target \in NodeIDs, NEW longer \in Seq(NodeIDs), NEW sorted \in Seq(NodeIDs),
         NEW p, SortsNearest(p, target, longer, sorted), Len(sorted) = Len(longer),
         NEW m \in Nat, m <= Len(longer), NEW k \in 1..Len(longer),
         \A i \in 1..m : Nearer(target, longer[i], sorted[k])
  PROVE  m < k
<1> DEFINE n == Len(longer)
           K == 1..m
           J == 1..(k - 1)
           g == [i \in K |-> CHOOSE l \in 1..n : p[l] = i]
<1>1. /\ n \in Nat /\ DOMAIN longer = 1..n /\ Len(longer) = n
      /\ \A i \in 1..n : longer[i] \in NodeIDs /\ sorted[i] \in NodeIDs
  <2>1. n \in Nat /\ DOMAIN longer = 1..n
    BY LenProperties
  <2>2. \A i \in 1..n : longer[i] \in NodeIDs /\ sorted[i] \in NodeIDs
    BY ElementOfSeq
  <2> QED
    BY <2>1, <2>2
<1> HIDE DEF n
<1>2. /\ \A i \in 1..n : \E l \in 1..n : p[l] = i
      /\ \A l \in 1..n : sorted[l] = longer[p[l]]
      /\ \A i, j \in 1..n : i < j => ~Nearer(target, longer[p[j]], longer[p[i]])
  BY <1>1 DEF SortsNearest
<1>3. m \in Nat /\ m <= n /\ k \in 1..n /\ \A i \in K : i \in 1..n
  BY <1>1
<1>4. ASSUME NEW i \in K PROVE g[i] \in J /\ p[g[i]] = i
  <2>1. g[i] \in 1..n /\ p[g[i]] = i
    <3>1. \E l \in 1..n : p[l] = i
      BY <1>2, <1>3
    <3> QED
      BY <3>1
  <2> HIDE DEF g
  <2>2. Nearer(target, sorted[g[i]], sorted[k])
    BY <1>2, <2>1
  <2>3. ~(k < g[i])
    BY <1>2, <1>3, <2>1, <2>2
  <2>4. k # g[i]
    BY <1>1, <1>3, <2>1, <2>2, NearerIsOrder
  <2>5. g[i] < k
    BY <1>1, <1>3, <2>1, <2>3, <2>4
  <2> QED
    BY <1>1, <1>3, <2>1, <2>5
<1>5. g \in [K -> J]
  BY <1>4
<1> HIDE DEF g
<1>6. \A i, j \in K : g[i] = g[j] => i = j
  BY <1>4
<1>7. IsFiniteSet(K) /\ Cardinality(K) = m
  BY <1>3, FS_Interval
<1>8. IsFiniteSet(J) /\ Cardinality(J) = k - 1
  <2>1. k - 1 \in Nat /\ 1 \in Int /\ k - 1 \in Int
    BY <1>1, <1>3
  <2> QED
    BY <2>1, FirstNumbers
<1> HIDE DEF K, J
<1>9. ~(k - 1 < m)
  BY <1>5, <1>6, <1>7, <1>8, FS_PigeonHole
<1> QED
  BY <1>1, <1>3, <1>9

\* The first of a sorted list that grew are the nearest of what was heard of, if
\* the list was before it grew.
LEMMA FirstAreNearest ==
  ASSUME NEW target \in NodeIDs, NEW list \in Seq(NodeIDs), Len(list) <= BucketSize,
         NEW heard \in SUBSET NodeIDs, NoRoomOutside(target, list, heard),
         NEW longer \in Seq(NodeIDs), Len(list) <= Len(longer),
         \A i \in 1..Len(list) : longer[i] = list[i],
         NEW sorted \in Seq(NodeIDs), Len(sorted) = Len(longer), ToSet(sorted) = ToSet(longer),
         NEW p, SortsNearest(p, target, longer, sorted),
         NEW r \in Seq(NodeIDs), Len(r) <= BucketSize, Len(r) <= Len(sorted),
         \/ Len(r) = BucketSize
         \/ Len(r) = Len(sorted),
         \A i \in 1..Len(r) : r[i] = sorted[i]
  PROVE  NoRoomOutside(target, r, heard \cup ToSet(longer))
<1>1. BucketSize \in Nat \ {0}
  BY KBucketsAssumption
<1>2. Len(longer) \in Nat /\ Len(list) \in Nat /\ Len(r) \in Nat
  BY LenProperties
<1>3. /\ DOMAIN longer = 1..Len(longer) /\ DOMAIN list = 1..Len(list)
      /\ DOMAIN sorted = 1..Len(longer) /\ DOMAIN r = 1..Len(r)
  BY LenProperties
<1>4. /\ \A i \in 1..Len(longer) : sorted[i] \in NodeIDs
      /\ \A i \in 1..Len(list) : list[i] \in NodeIDs
  BY ElementOfSeq
<1>5. \A k, l \in 1..Len(longer) : k < l => ~Nearer(target, sorted[l], sorted[k])
  <2>1. \A k \in 1..Len(longer) : sorted[k] = longer[p[k]]
    BY <1>3 DEF SortsNearest
  <2>2. \A k, l \in 1..Len(longer) : k < l => ~Nearer(target, longer[p[l]], longer[p[k]])
    BY <1>3 DEF SortsNearest
  <2> QED
    BY <2>1, <2>2
<1>6. \A in \in ToSet(r) : \E k \in 1..Len(r) : in = sorted[k]
  BY <1>3 DEF ToSet
<1>7. 1..Len(r) \subseteq 1..Len(longer)
  BY <1>2
<1>8. ASSUME NEW out \in ToSet(longer), out \notin ToSet(r)
      PROVE  Len(r) = BucketSize /\ \A in \in ToSet(r) : ~Nearer(target, out, in)
  <2>1. PICK l \in 1..Len(longer) : sorted[l] = out
    <3>1. out \in ToSet(sorted)
      OBVIOUS
    <3> QED
      BY <1>3, <3>1 DEF ToSet
  <2>2. l \notin 1..Len(r)
    BY <1>3, <1>8, <2>1 DEF ToSet
  <2>3. Len(r) < l
    BY <1>2, <2>2
  <2>4. Len(r) = BucketSize
    BY <1>2, <2>3
  <2>5. ASSUME NEW k \in 1..Len(r) PROVE ~Nearer(target, out, sorted[k])
    <3>1. k \in 1..Len(longer) /\ k < l
      BY <1>2, <1>7, <2>3
    <3> QED
      BY <1>5, <2>1, <3>1
  <2> QED
    BY <1>6, <2>4, <2>5
<1>9. ASSUME NEW out \in heard, out \notin ToSet(longer)
      PROVE  Len(r) = BucketSize /\ \A in \in ToSet(r) : ~Nearer(target, out, in)
  <2>1. out \notin ToSet(list) /\ out \in NodeIDs
    <3>1. \A i \in 1..Len(list) : i \in 1..Len(longer) /\ list[i] = longer[i]
      BY <1>2
    <3> QED
      BY <1>3, <1>9, <3>1 DEF ToSet
  <2>2. Len(list) = BucketSize /\ \A c \in ToSet(list) : ~Nearer(target, out, c)
    BY <1>9, <2>1 DEF NoRoomOutside
  <2>3. Len(r) = BucketSize
    BY <1>1, <1>2, <2>2
  <2>4. ASSUME NEW k \in 1..Len(r), Nearer(target, out, sorted[k]) PROVE FALSE
    <3>1. k \in 1..Len(longer) /\ sorted[k] \in NodeIDs
      BY <1>4, <1>7
    <3>2. ASSUME NEW i \in 1..Len(list) PROVE Nearer(target, longer[i], sorted[k])
      <4>1. list[i] \in ToSet(list) /\ list[i] \in NodeIDs /\ longer[i] = list[i]
        BY <1>3, <1>4 DEF ToSet
      <4>2. Nearer(target, list[i], out)
        BY <2>1, <2>2, <4>1, NearerIsOrder
      <4> QED
        BY <2>1, <2>4, <3>1, <4>1, <4>2, NearerIsOrder
    <3>3. Len(list) < k
      BY <1>2, <3>1, <3>2, NearerComeFirst
    <3> QED
      BY <1>2, <2>2, <2>3, <3>3
  <2> QED
    BY <1>6, <2>3, <2>4
<1> QED
  BY <1>8, <1>9 DEF NoRoomOutside

\* The same of what a lookup does with an answer.
LEMMA NearestStayNearest ==
  ASSUME NEW n, NEW t, t.target \in NodeIDs, t.closest \in Seq(DhtNodes),
         Len(t.closest) <= BucketSize, t.heard \in SUBSET DhtNodes,
         NoRoomOutside(t.target, t.closest, t.heard), NEW nodes \in Seq(DhtNodes)
  PROVE  /\ NearestOf(n, t, nodes) \in Seq(DhtNodes)
         /\ Len(NearestOf(n, t, nodes)) <= BucketSize
         /\ NoRoomOutside(t.target, NearestOf(n, t, nodes), t.heard \cup (ToSet(nodes) \ {n}))
<1> DEFINE longer == WithNew(t.closest, n, nodes)
           sorted == NearestFirst(t.target, longer)
           r == NearestOf(n, t, nodes)
<1>1. DhtNodes \in SUBSET NodeIDs /\ BucketSize \in Nat
  BY KademliaAssumption, KBucketsAssumption
<1>2. /\ longer \in Seq(DhtNodes)
      /\ Len(t.closest) <= Len(longer)
      /\ \A i \in 1..Len(t.closest) : longer[i] = t.closest[i]
      /\ ToSet(longer) = ToSet(t.closest) \cup (ToSet(nodes) \ {n})
  BY WithNewIs
<1>3. r = SubSeq(sorted, 1, Min({BucketSize, Len(sorted)}))
  BY DEF NearestOf
<1> HIDE DEF longer, r
<1>4. longer \in Seq(NodeIDs) /\ t.closest \in Seq(NodeIDs) /\ t.heard \in SUBSET NodeIDs
  BY <1>1, <1>2, SeqMonotonic
<1>5. DOMAIN sorted = DOMAIN longer /\ \E p : SortsNearest(p, t.target, longer, sorted)
  BY <1>4, NearestFirstSorts
<1>6. sorted \in Seq(DhtNodes) /\ Len(sorted) = Len(longer) /\ ToSet(sorted) = ToSet(longer)
  BY <1>1, <1>2, NearestFirstType
<1> HIDE DEF sorted
<1>7. PICK p : SortsNearest(p, t.target, longer, sorted)
  BY <1>5
<1>8. /\ r \in Seq(DhtNodes)
      /\ Len(r) <= BucketSize /\ Len(r) <= Len(sorted)
      /\ Len(r) = BucketSize \/ Len(r) = Len(sorted)
      /\ \A i \in 1..Len(r) : r[i] = sorted[i]
  <2> DEFINE q == SubSeq(sorted, 1, Min({BucketSize, Len(sorted)}))
  <2>1. /\ q \in Seq(DhtNodes)
        /\ Len(q) <= BucketSize /\ Len(q) <= Len(sorted)
        /\ Len(q) = BucketSize \/ Len(q) = Len(sorted)
        /\ \A i \in 1..Len(q) : q[i] = sorted[i]
    BY <1>1, <1>6, FirstOfList
  <2>2. r = q
    BY <1>3
  <2> HIDE DEF q
  <2> QED
    BY <2>1, <2>2
<1>9. sorted \in Seq(NodeIDs) /\ r \in Seq(NodeIDs)
  BY <1>1, <1>6, <1>8, SeqMonotonic
<1>10. NoRoomOutside(t.target, r, t.heard \cup ToSet(longer))
  BY <1>2, <1>4, <1>6, <1>7, <1>8, <1>9, FirstAreNearest
<1>11. NoRoomOutside(t.target, r, t.heard \cup (ToSet(nodes) \ {n}))
  BY <1>2, <1>10 DEF NoRoomOutside
<1> QED
  BY <1>8, <1>11 DEF r

-----------------------------------------------------------------------------
(* Lookups, and the stores that follow them                                *)

Phases == {"ping", "lookup", "store", "done"}

TaskRecords ==
  [kind : {"none", "bootstrap", "lookup", "find", "store"}, phase : Phases,
   target : NodeIDs, value : Values \cup {Nothing}, todo : Seq(DhtNodes),
   asked : Seq(DhtNodes), closest : Seq(DhtNodes), contacted : SUBSET DhtNodes,
   named : Seq(DhtNodes), found : Seq(Values), acks : Nat, acked : SUBSET DhtNodes,
   heard : SUBSET DhtNodes, rounds : Nat, ok : BOOLEAN]

\* Nothing was asked yet.
Fresh(t) ==
  /\ t.asked = <<>> /\ t.contacted = {} /\ t.named = <<>> /\ t.found = <<>>
  /\ t.acks = 0 /\ t.acked = {} /\ t.rounds = 0 /\ t.ok = FALSE

\* The nodes a lookup has asked or is asking.
Approached(t) == t.contacted \cup (IF t.phase = "lookup" THEN ToSet(t.asked) ELSE {})

TaskSound(t) ==
  /\ t.kind = "store" => t.value \in Values
  /\ t.phase = "ping" => t.todo # <<>> /\ Fresh(t)
  /\ t.phase = "lookup" => t.acks = 0
  /\ t.phase = "store" => t.kind = "store" /\ t.named # <<>> /\ t.acks + Len(t.asked) <= Len(t.named)
  /\ t.acks <= Len(t.named)
  /\ t.acks > 0 => t.acked # {}
  /\ t.phase \in {"lookup", "store"} => t.ok = FALSE
  /\ t.ok => t.acked # {}
  /\ t.rounds <= Cardinality(Approached(t))
  /\ Len(t.closest) <= BucketSize
  /\ NoRoomOutside(t.target, t.closest, t.heard)
  /\ t.phase \in {"store", "done"} /\ t.found = <<>> => ToSet(t.closest) \subseteq t.contacted

DhtIInv ==
  /\ running \subseteq DhtNodes /\ maintained \subseteq DhtNodes
  /\ storage \in [DhtNodes -> DhtEntry]
  /\ events \in 0..MaxEvents
  /\ tables \in [DhtNodes -> BucketsOf(DhtNodes)]
  /\ task \in [DhtNodes -> TaskRecords]
  /\ \A n \in DhtNodes : TaskSound(task[n])

LEMMA LookingUpSound ==
  ASSUME NEW n \in DhtNodes, NEW bs \in BucketsOf(DhtNodes), NEW t \in TaskRecords,
         Fresh(t), t.kind = "store" => t.value \in Values
  PROVE  LookingUp(n, bs, t) \in TaskRecords /\ TaskSound(LookingUp(n, bs, t))
<1> DEFINE near == ClosestNodes(bs, n, t.target, BucketSize)
           u == LookingUp(n, bs, t)
<1>1. near \in Seq(DhtNodes) /\ Len(near) <= BucketSize
  <2>1. DhtNodes \in SUBSET NodeIDs /\ n \in NodeIDs /\ BucketSize \in Nat
    BY KademliaAssumption, KBucketsAssumption
  <2>2. t.target \in NodeIDs
    BY DEF TaskRecords
  <2> QED
    BY <2>1, <2>2, ClosestNodesType
<1>2. u = [t EXCEPT !.phase = "lookup", !.closest = near, !.heard = ToSet(near)]
  BY DEF LookingUp
<1> HIDE DEF near, u
<1>3. ToSet(near) \in SUBSET DhtNodes
  <2>1. \A i \in DOMAIN near : near[i] \in DhtNodes
    BY <1>1, LenProperties, ElementOfSeq
  <2> QED
    BY <2>1 DEF ToSet
<1>4. u \in TaskRecords
  BY <1>1, <1>2, <1>3 DEF TaskRecords, Phases
<1>5. /\ u.phase = "lookup" /\ u.closest = near /\ u.heard = ToSet(near)
      /\ u.asked = <<>> /\ u.contacted = {} /\ u.named = <<>> /\ u.acks = 0
      /\ u.rounds = 0 /\ u.ok = FALSE
      /\ u.kind = t.kind /\ u.value = t.value
  BY <1>2 DEF TaskRecords, Fresh
<1>6. ToSet(u.asked) = {} /\ Len(u.named) = 0
  BY <1>5 DEF ToSet
<1>7. NoRoomOutside(u.target, u.closest, u.heard)
  BY <1>5 DEF NoRoomOutside
<1>8. Approached(u) = {}
  BY <1>5, <1>6 DEF Approached
<1>9. u.rounds <= Cardinality(Approached(u))
  BY <1>5, <1>8, FS_EmptySet
<1>10. TaskSound(u)
  BY <1>1, <1>5, <1>6, <1>7, <1>9 DEF TaskSound
<1> QED
  BY <1>4, <1>10 DEF u

LEMMA NoTaskSound == NoTask \in TaskRecords /\ TaskSound(NoTask) /\ Fresh(NoTask)
<1>1. NoTask \in TaskRecords /\ Fresh(NoTask)
  BY KademliaAssumption DEF NoTask, TaskRecords, Phases, Fresh
<1>2. ToSet(<<>>) = {}
  BY DEF ToSet
<1>3. Approached(NoTask) = {} /\ Cardinality({}) = 0
  BY FS_EmptySet DEF Approached, NoTask
<1>4. NoRoomOutside(NoTask.target, NoTask.closest, NoTask.heard)
  BY DEF NoRoomOutside, NoTask
<1>5. BucketSize \in Nat
  BY KBucketsAssumption
<1>6. /\ NoTask.kind = "none" /\ NoTask.phase = "done" /\ NoTask.closest = <<>>
      /\ NoTask.named = <<>> /\ NoTask.acks = 0 /\ NoTask.rounds = 0 /\ NoTask.ok = FALSE
  BY DEF NoTask
<1>7. NoTask.rounds <= Cardinality(Approached(NoTask))
  BY <1>3, <1>6
<1>8. Len(NoTask.closest) = 0 /\ Len(NoTask.named) = 0 /\ ToSet(NoTask.closest) = {}
  BY <1>2, <1>6
<1>9. TaskSound(NoTask)
  BY <1>4, <1>5, <1>6, <1>7, <1>8 DEF TaskSound
<1> QED
  BY <1>1, <1>9

\* A part of a list of nodes names nodes.
LEMMA NamesNodes ==
  ASSUME NEW X, NEW s \in Seq(X)
  PROVE  ToSet(s) \in SUBSET X
<1>1. \A i \in DOMAIN s : s[i] \in X
  BY LenProperties, ElementOfSeq
<1> QED
  BY <1>1 DEF ToSet

\* Who is asked next is in the list and was not asked; nobody, only if all were.
LEMMA ToContactIs ==
  ASSUME NEW t, t.closest \in Seq(DhtNodes)
  PROVE  /\ ToContact(t) \in Seq(DhtNodes)
         /\ ToSet(ToContact(t)) \subseteq ToSet(t.closest) \ t.contacted
         /\ ToContact(t) = <<>> => ToSet(t.closest) \subseteq t.contacted
<1> DEFINE P == {i \in DOMAIN t.closest : t.closest[i] \notin t.contacted}
           open == AtPlaces(t.closest, P)
           r == ToContact(t)
<1>1. Alpha \in Nat \ {0}
  BY KademliaAssumption
<1>2. r = SubSeq(open, 1, Min({Alpha, Len(open)}))
  BY DEF ToContact
<1>3. P \in SUBSET (DOMAIN t.closest) /\ \A i \in P : t.closest[i] \in ToSet(t.closest) \ t.contacted
  BY DEF ToSet
<1>4. \A i \in DOMAIN t.closest : i \notin P => t.closest[i] \in t.contacted
  OBVIOUS
<1> HIDE DEF r, P
<1>5. /\ open \in Seq(DhtNodes) /\ Len(open) = Cardinality(P)
      /\ \E at : /\ CountsPlaces(at, P, Cardinality(P))
                 /\ \A k \in 1..Cardinality(P) : open[k] = t.closest[at[k]]
  BY <1>3, AtPlacesIsPart
<1> HIDE DEF open
<1>6. \A k \in 1..Len(open) : open[k] \in ToSet(t.closest) \ t.contacted
  <2> DEFINE n == Cardinality(P)
  <2>1. Len(open) = n
    BY <1>5
  <2>2. \E at : CountsPlaces(at, P, n) /\ \A k \in 1..n : open[k] = t.closest[at[k]]
    BY <1>5
  <2> HIDE DEF n
  <2>3. PICK at : CountsPlaces(at, P, n) /\ \A k \in 1..n : open[k] = t.closest[at[k]]
    BY <2>2
  <2>4. \A k \in 1..n : at[k] \in P
    BY <2>3 DEF CountsPlaces
  <2> QED
    BY <1>3, <2>1, <2>3, <2>4
<1>7. /\ r \in Seq(DhtNodes)
      /\ Len(r) <= Len(open)
      /\ Len(r) = Alpha \/ Len(r) = Len(open)
      /\ \A i \in 1..Len(r) : r[i] = open[i]
  <2> DEFINE q == SubSeq(open, 1, Min({Alpha, Len(open)}))
  <2>1. /\ q \in Seq(DhtNodes)
        /\ Len(q) <= Len(open)
        /\ Len(q) = Alpha \/ Len(q) = Len(open)
        /\ \A i \in 1..Len(q) : q[i] = open[i]
    BY <1>1, <1>5, FirstOfList
  <2>2. r = q
    BY <1>2
  <2> HIDE DEF q
  <2> QED
    BY <2>1, <2>2
<1>8. Len(r) \in Nat /\ Len(open) \in Nat /\ DOMAIN r = 1..Len(r)
  BY <1>5, <1>7, LenProperties
<1>9. \A i \in DOMAIN r : r[i] \in ToSet(t.closest) \ t.contacted
  BY <1>6, <1>7, <1>8
<1>10. ASSUME r = <<>> PROVE ToSet(t.closest) \subseteq t.contacted
  <2>1. Len(open) = 0
    BY <1>1, <1>7, <1>10
  <2>2. IsFiniteSet(P)
    <3> DEFINE m == Len(t.closest)
    <3>1. DOMAIN t.closest = 1..m /\ m \in Nat
      BY LenProperties
    <3>2. IsFiniteSet(1..m)
      BY <3>1, FirstNumbers
    <3> QED
      BY <1>3, <3>1, <3>2, FS_Subset
  <2>3. P = {}
    BY <1>5, <2>1, <2>2, FS_EmptySet
  <2> QED
    BY <1>4, <2>3 DEF ToSet
<1> QED
  BY <1>7, <1>9, <1>10 DEF r, ToSet

\* One of a list is taken out of it: those after it move up.
LEMMA PlaceRemoved ==
  ASSUME NEW X, NEW s \in Seq(X), NEW i \in 1..Len(s)
  PROVE  /\ RemoveAt(s, i) \in Seq(X)
         /\ Len(RemoveAt(s, i)) = Len(s) - 1
         /\ \A j \in 1..(Len(s) - 1) : RemoveAt(s, i)[j] = IF j < i THEN s[j] ELSE s[j + 1]
<1> DEFINE len == Len(s)
           a == SubSeq(s, 1, i - 1)
           b == SubSeq(s, i + 1, len)
           r == RemoveAt(s, i)
<1>1. len \in Nat /\ DOMAIN s = 1..len /\ i \in 1..len /\ \A j \in 1..len : s[j] \in X
  BY LenProperties, ElementOfSeq
<1>2. a \in Seq(X) /\ Len(a) = i - 1 /\ \A j \in 1..(i - 1) : a[j] = s[j]
  BY <1>1, SubSeqProperties
<1>3. b \in Seq(X) /\ Len(b) = len - i /\ \A j \in 1..(len - i) : b[j] = s[i + j]
  <2>1. i + 1 \in Int /\ len \in Int /\ \A j \in (i + 1)..len : s[j] \in X
    BY <1>1
  <2> HIDE DEF len
  <2>2. /\ b \in Seq(X)
        /\ Len(b) = IF i + 1 <= len THEN len - (i + 1) + 1 ELSE 0
        /\ \A j \in 1..(len - (i + 1) + 1) : b[j] = s[i + 1 + j - 1]
    BY <2>1, SubSeqProperties
  <2> HIDE DEF b
  <2> QED
    BY <1>1, <2>2
<1>4. r = a \o b
  BY DEF RemoveAt
<1> HIDE DEF a, b, r, len
<1>5. /\ r \in Seq(X) /\ Len(r) = len - 1
      /\ \A j \in 1..(len - 1) : r[j] = IF j <= i - 1 THEN a[j] ELSE b[j - (i - 1)]
  <2>1. /\ r \in Seq(X) /\ Len(r) = Len(a) + Len(b)
        /\ \A j \in 1..(Len(a) + Len(b)) : r[j] = IF j <= Len(a) THEN a[j] ELSE b[j - Len(a)]
    BY <1>2, <1>3, <1>4, ConcatProperties
  <2>2. (i - 1) + (len - i) = len - 1
    BY <1>1
  <2> QED
    BY <1>2, <1>3, <2>1, <2>2
<1>6. ASSUME NEW j \in 1..(len - 1)
      PROVE  r[j] = IF j < i THEN s[j] ELSE s[j + 1]
  <2>1. CASE j < i
    <3>1. j \in 1..(i - 1) /\ j <= i - 1
      BY <1>1, <2>1
    <3> QED
      BY <1>2, <1>5, <2>1, <3>1
  <2>2. CASE ~(j < i)
    <3>1. /\ j - (i - 1) \in 1..(len - i) /\ ~(j <= i - 1)
          /\ i + (j - (i - 1)) = j + 1
      BY <1>1, <2>2
    <3> QED
      BY <1>3, <1>5, <2>2, <3>1
  <2> QED
    BY <2>1, <2>2
<1> QED
  BY <1>5, <1>6 DEF r, len

LEMMA WithoutPlace ==
  ASSUME NEW X, NEW s \in Seq(X), NEW i \in DOMAIN s
  PROVE  /\ RemoveAt(s, i) \in Seq(X)
         /\ Len(RemoveAt(s, i)) = Len(s) - 1
         /\ ToSet(s) = ToSet(RemoveAt(s, i)) \cup {s[i]}
<1> DEFINE len == Len(s)
           r == RemoveAt(s, i)
<1>1. len \in Nat /\ DOMAIN s = 1..len /\ i \in 1..len
  BY LenProperties
<1>2. /\ r \in Seq(X) /\ Len(r) = len - 1
      /\ \A j \in 1..(len - 1) : r[j] = IF j < i THEN s[j] ELSE s[j + 1]
  BY <1>1, PlaceRemoved
<1> HIDE DEF r, len
<1>7. DOMAIN r = 1..(len - 1)
  BY <1>1, <1>2, LenProperties
<1>8. \A j \in DOMAIN r : r[j] \in ToSet(s)
  <2>1. \A j \in DOMAIN r : j \in DOMAIN s /\ j + 1 \in DOMAIN s
    BY <1>1, <1>7
  <2> QED
    BY <1>2, <1>7, <2>1 DEF ToSet
<1>9. \A j \in DOMAIN s : j = i \/ s[j] \in ToSet(r)
  <2> TAKE j \in DOMAIN s
  <2>1. CASE j < i
    <3>1. j \in 1..(len - 1) /\ r[j] = s[j]
      BY <1>1, <1>2, <2>1
    <3> QED
      BY <1>7, <3>1 DEF ToSet
  <2>2. CASE i < j
    <3>1. j - 1 \in 1..(len - 1) /\ r[j - 1] = s[j]
      BY <1>1, <1>2, <2>2
    <3> QED
      BY <1>7, <3>1 DEF ToSet
  <2> QED
    BY <1>1, <2>1, <2>2
<1>10. ToSet(s) = ToSet(r) \cup {s[i]}
  BY <1>8, <1>9 DEF ToSet
<1> QED
  BY <1>2, <1>10 DEF r, len

LEMMA DhtNodesFinite ==
  ASSUME NEW S \in SUBSET DhtNodes
  PROVE  IsFiniteSet(S) /\ Cardinality(S) \in Nat /\ Cardinality(S) <= Cardinality(DhtNodes)
<1>1. DhtNodes \in SUBSET NodeIDs
  BY KademliaAssumption
<1>2. IsFiniteSet(DhtNodes)
  BY <1>1, NodeIDsFinite, FS_Subset
<1> QED
  BY <1>2, FS_Subset, FS_CardinalityType

\* What the steps of an operation make of it.
AfterAsking(t) == [t EXCEPT !.asked = ToContact(t), !.rounds = @ + 1]

AfterAnswer(n, t, i, nodes, found) ==
  [t EXCEPT !.asked = RemoveAt(@, i),
            !.contacted = @ \cup {t.asked[i]},
            !.closest = NearestOf(n, t, nodes),
            !.named = @ \o nodes,
            !.heard = @ \cup (ToSet(nodes) \ {n}),
            !.found = found]

AfterLookup(t) ==
  IF t.kind = "store" /\ ~NobodyToAsk(t)
  THEN [t EXCEPT !.phase = "store", !.asked = t.named]
  ELSE [t EXCEPT !.phase = "done"]

AfterConfirming(t, i, answered) ==
  [t EXCEPT !.asked = RemoveAt(@, i),
            !.acks = IF answered THEN @ + 1 ELSE @,
            !.acked = IF answered THEN @ \cup {t.asked[i]} ELSE @]

AfterStore(t) == [t EXCEPT !.phase = "done", !.ok = t.acks >= (Len(t.named) + 1) \div 2]

\* A round asks somebody who was not asked before.
LEMMA AskedSound ==
  ASSUME NEW t \in TaskRecords, TaskSound(t), Searching(t), ToContact(t) # <<>>
  PROVE  AfterAsking(t) \in TaskRecords /\ TaskSound(AfterAsking(t))
<1> DEFINE next == ToContact(t)
           u == AfterAsking(t)
<1>1. next \in Seq(DhtNodes) /\ ToSet(next) \subseteq ToSet(t.closest) \ t.contacted
  BY ToContactIs DEF TaskRecords
<1>1a. u = [t EXCEPT !.asked = next, !.rounds = t.rounds + 1]
  BY DEF AfterAsking
<1> HIDE DEF next, u
<1>2. /\ t.phase = "lookup" /\ t.asked = <<>>
      /\ t.contacted \in SUBSET DhtNodes /\ t.rounds \in Nat
  BY DEF Searching, TaskRecords
<1>2a. u \in TaskRecords
  <2> DEFINE rounds == t.rounds + 1
  <2>1. rounds \in Nat /\ u = [t EXCEPT !.asked = next, !.rounds = rounds]
    BY <1>1a, <1>2
  <2>2. next \in Seq(DhtNodes)
    BY <1>1
  <2> HIDE DEF rounds
  <2> QED
    BY <2>1, <2>2 DEF TaskRecords
<1>3. /\ u.asked = next /\ u.rounds = t.rounds + 1
      /\ u.kind = t.kind /\ u.phase = t.phase /\ u.target = t.target /\ u.value = t.value
      /\ u.closest = t.closest /\ u.contacted = t.contacted /\ u.named = t.named
      /\ u.found = t.found /\ u.acks = t.acks /\ u.acked = t.acked /\ u.heard = t.heard /\ u.ok = t.ok
  BY <1>1a DEF TaskRecords
<1>4. Approached(t) = t.contacted /\ Approached(u) = t.contacted \cup ToSet(next)
  BY <1>2, <1>3 DEF Approached, ToSet
<1>5. PICK x \in ToSet(next) : TRUE
  <2>1. next # <<>>
    BY DEF next
  <2>2. 1 \in DOMAIN next
    BY <1>1, <2>1, LenProperties, EmptySeq
  <2> QED
    BY <2>2 DEF ToSet
<1>6. ToSet(next) \in SUBSET DhtNodes
  BY <1>1, NamesNodes
<1>7. /\ IsFiniteSet(t.contacted) /\ Cardinality(t.contacted) \in Nat
      /\ IsFiniteSet(t.contacted \cup ToSet(next)) /\ Cardinality(t.contacted \cup ToSet(next)) \in Nat
  <2>1. t.contacted \cup ToSet(next) \in SUBSET DhtNodes
    BY <1>2, <1>6
  <2> QED
    BY <1>2, <2>1, DhtNodesFinite
<1>8. Cardinality(t.contacted \cup {x}) = Cardinality(t.contacted) + 1
  BY <1>1, <1>5, <1>7, FS_AddElement
<1>9. Cardinality(t.contacted \cup {x}) <= Cardinality(t.contacted \cup ToSet(next))
  <2>1. t.contacted \cup {x} \in SUBSET (t.contacted \cup ToSet(next))
    BY <1>5
  <2> QED
    BY <1>7, <2>1, FS_Subset
<1>10. t.rounds <= Cardinality(t.contacted)
  BY <1>4 DEF TaskSound
<1>11. u.rounds <= Cardinality(Approached(u))
  <2> DEFINE a == Cardinality(t.contacted)
             b == Cardinality(t.contacted \cup ToSet(next))
  <2>1. a \in Nat /\ b \in Nat /\ a + 1 <= b /\ t.rounds <= a /\ t.rounds \in Nat
    BY <1>2, <1>7, <1>8, <1>9, <1>10
  <2>2. t.rounds + 1 <= b
    <3> HIDE DEF a, b
    <3> QED
      BY <2>1
  <2> QED
    BY <1>3, <1>4, <2>2
<1>12. TaskSound(u)
  BY <1>2, <1>3, <1>11 DEF TaskSound
<1> QED
  BY <1>2a, <1>12 DEF u

\* What a lookup does with an answer, or with a failure.
LEMMA AnsweredSound ==
  ASSUME NEW n \in DhtNodes, NEW t \in TaskRecords, TaskSound(t), t.phase = "lookup",
         NEW i \in DOMAIN t.asked, NEW nodes \in Seq(DhtNodes), NEW found \in Seq(Values)
  PROVE  /\ AfterAnswer(n, t, i, nodes, found) \in TaskRecords
         /\ TaskSound(AfterAnswer(n, t, i, nodes, found))
<1> DEFINE u == AfterAnswer(n, t, i, nodes, found)
           near == NearestOf(n, t, nodes)
           rest == RemoveAt(t.asked, i)
           named == t.named \o nodes
           heard == t.heard \cup (ToSet(nodes) \ {n})
<1>1. /\ t.asked \in Seq(DhtNodes) /\ t.contacted \in SUBSET DhtNodes /\ t.named \in Seq(DhtNodes)
      /\ t.closest \in Seq(DhtNodes) /\ t.heard \in SUBSET DhtNodes /\ t.target \in NodeIDs
      /\ t.acks \in Nat
  BY DEF TaskRecords
<1>2. rest \in Seq(DhtNodes) /\ ToSet(t.asked) = ToSet(rest) \cup {t.asked[i]}
  BY <1>1, WithoutPlace
<1>3. /\ near \in Seq(DhtNodes) /\ Len(near) <= BucketSize
      /\ NoRoomOutside(t.target, near, heard)
  BY <1>1, NearestStayNearest DEF TaskSound
<1>4. heard \in SUBSET DhtNodes /\ t.asked[i] \in DhtNodes
  <2>1. ToSet(nodes) \in SUBSET DhtNodes
    BY NamesNodes
  <2>2. t.asked[i] \in DhtNodes
    BY <1>1, LenProperties, ElementOfSeq
  <2> QED
    BY <1>1, <2>1, <2>2
<1>5. named \in Seq(DhtNodes) /\ Len(t.named) <= Len(named)
  <2>1. named \in Seq(DhtNodes) /\ Len(named) = Len(t.named) + Len(nodes)
    BY <1>1, ConcatProperties
  <2>2. Len(t.named) \in Nat /\ Len(nodes) \in Nat
    BY <1>1, LenProperties
  <2> HIDE DEF named
  <2> QED
    BY <2>1, <2>2
<1>6. u = [t EXCEPT !.asked = rest, !.contacted = t.contacted \cup {t.asked[i]}, !.closest = near,
                    !.named = named, !.heard = heard, !.found = found]
  BY DEF AfterAnswer
<1> HIDE DEF near, rest, named, heard, u
<1>6a. u \in TaskRecords
  <2>1. t.contacted \cup {t.asked[i]} \in SUBSET DhtNodes
    BY <1>1, <1>4
  <2> QED
    BY <1>2, <1>3, <1>4, <1>5, <1>6, <2>1 DEF TaskRecords
<1>7. /\ u.asked = rest /\ u.contacted = t.contacted \cup {t.asked[i]} /\ u.closest = near
      /\ u.named = named /\ u.heard = heard /\ u.found = found
      /\ u.kind = t.kind /\ u.phase = t.phase /\ u.target = t.target /\ u.value = t.value
      /\ u.acks = t.acks /\ u.acked = t.acked /\ u.rounds = t.rounds /\ u.ok = t.ok
  BY <1>6 DEF TaskRecords
<1>8. Approached(u) = Approached(t)
  BY <1>2, <1>7 DEF Approached
<1>9. t.acks <= Len(named)
  <2>1. Len(t.named) \in Nat /\ Len(named) \in Nat
    BY <1>1, <1>5, LenProperties
  <2> QED
    BY <1>1, <1>5, <2>1 DEF TaskSound
<1>10. TaskSound(u)
  BY <1>3, <1>7, <1>8, <1>9 DEF TaskSound
<1> QED
  BY <1>6a, <1>10 DEF u

\* The end of a lookup, of which a store goes on.
LEMMA EndedSound ==
  ASSUME NEW t \in TaskRecords, TaskSound(t), LookupOver(t)
  PROVE  AfterLookup(t) \in TaskRecords /\ TaskSound(AfterLookup(t))
<1> DEFINE u == AfterLookup(t)
<1> HIDE DEF u
<1>1. /\ t.phase = "lookup" /\ t.asked = <<>>
      /\ t.closest \in Seq(DhtNodes) /\ t.named \in Seq(DhtNodes)
  BY DEF LookupOver, Searching, TaskRecords
<1>2. Approached(t) = t.contacted /\ t.rounds <= Cardinality(t.contacted)
  <2>1. ToSet(t.asked) = {}
    BY <1>1 DEF ToSet
  <2>2. Approached(t) = t.contacted
    BY <2>1 DEF Approached
  <2> QED
    BY <2>2 DEF TaskSound
<1>3. t.found = <<>> => ToSet(t.closest) \subseteq t.contacted
  BY <1>1, ToContactIs DEF LookupOver
<1>4. Len(t.named) \in Nat
  BY <1>1, LenProperties
<1>5. CASE t.kind = "store" /\ ~NobodyToAsk(t)
  <2>1. /\ u \in TaskRecords
        /\ u.phase = "store" /\ u.asked = t.named
        /\ u.contacted = t.contacted /\ u.closest = t.closest
        /\ u.named = t.named /\ u.heard = t.heard /\ u.found = t.found
        /\ u.kind = t.kind /\ u.target = t.target /\ u.value = t.value
        /\ u.acks = t.acks /\ u.acked = t.acked /\ u.rounds = t.rounds /\ u.ok = t.ok
    BY <1>1, <1>5 DEF TaskRecords, Phases, u, AfterLookup
  <2>2. Approached(u) = t.contacted
    BY <2>1 DEF Approached
  <2>3. u.acks = 0 /\ u.named # <<>>
    BY <1>1, <1>5, <2>1 DEF TaskSound, NobodyToAsk
  <2>4. u.acks + Len(u.asked) <= Len(u.named)
    BY <1>4, <2>1, <2>3
  <2>5. TaskSound(u)
    BY <1>1, <1>2, <1>3, <1>5, <2>1, <2>2, <2>3, <2>4 DEF TaskSound
  <2> QED
    BY <2>1, <2>5 DEF u
<1>6. CASE ~(t.kind = "store" /\ ~NobodyToAsk(t))
  <2>1. /\ u \in TaskRecords
        /\ u.phase = "done"
        /\ u.contacted = t.contacted /\ u.closest = t.closest
        /\ u.named = t.named /\ u.heard = t.heard /\ u.found = t.found
        /\ u.kind = t.kind /\ u.target = t.target /\ u.value = t.value
        /\ u.acks = t.acks /\ u.acked = t.acked /\ u.rounds = t.rounds /\ u.ok = t.ok
    BY <1>1, <1>6 DEF TaskRecords, Phases, u, AfterLookup
  <2>2. Approached(u) = t.contacted
    BY <2>1 DEF Approached
  <2>3. TaskSound(u)
    BY <1>1, <1>2, <1>3, <2>1, <2>2 DEF TaskSound
  <2> QED
    BY <2>1, <2>3 DEF u
<1> QED
  BY <1>5, <1>6

\* One of the nodes that are asked to store confirms, or does not.
LEMMA ConfirmedSound ==
  ASSUME NEW t \in TaskRecords, TaskSound(t), t.phase = "store",
         NEW i \in DOMAIN t.asked, NEW answered \in BOOLEAN
  PROVE  /\ AfterConfirming(t, i, answered) \in TaskRecords
         /\ TaskSound(AfterConfirming(t, i, answered))
<1> DEFINE u == AfterConfirming(t, i, answered)
           rest == RemoveAt(t.asked, i)
           acks == IF answered THEN t.acks + 1 ELSE t.acks
           acked == IF answered THEN t.acked \cup {t.asked[i]} ELSE t.acked
<1>1. /\ t.asked \in Seq(DhtNodes) /\ t.named \in Seq(DhtNodes)
      /\ t.acks \in Nat /\ t.acked \in SUBSET DhtNodes
  BY DEF TaskRecords
<1>2. rest \in Seq(DhtNodes) /\ Len(rest) = Len(t.asked) - 1
  BY <1>1, WithoutPlace
<1>3. t.asked[i] \in DhtNodes
  BY <1>1, LenProperties, ElementOfSeq
<1>4. acks \in Nat /\ acked \in SUBSET DhtNodes /\ (acks > 0 => acked # {})
  <2>1. t.acks > 0 => t.acked # {}
    BY DEF TaskSound
  <2>2. CASE answered
    <3>1. acks = t.acks + 1 /\ acked = t.acked \cup {t.asked[i]}
      BY <2>2
    <3> HIDE DEF acks, acked
    <3>2. acks \in Nat
      BY <1>1, <3>1
    <3>3. acked \in SUBSET DhtNodes /\ t.asked[i] \in acked
      BY <1>1, <1>3, <3>1
    <3> QED
      BY <3>2, <3>3
  <2>3. CASE ~answered
    <3>1. acks = t.acks /\ acked = t.acked
      BY <2>3
    <3> HIDE DEF acks, acked
    <3> QED
      BY <1>1, <2>1, <3>1
  <2> QED
    BY <2>2, <2>3
<1>5. acks + Len(rest) <= Len(t.named) /\ acks <= Len(t.named)
  <2>1. Len(t.named) \in Nat /\ Len(t.asked) \in Nat /\ Len(rest) \in Nat
    BY <1>1, <1>2, LenProperties
  <2>2. t.acks + Len(t.asked) <= Len(t.named)
    BY DEF TaskSound
  <2> HIDE DEF rest
  <2> QED
    BY <1>1, <1>2, <2>1, <2>2
<1>6. u = [t EXCEPT !.asked = rest, !.acks = acks, !.acked = acked]
  BY DEF AfterConfirming
<1> HIDE DEF rest, acks, acked, u
<1>7. /\ u \in TaskRecords
      /\ u.asked = rest /\ u.acks = acks /\ u.acked = acked
      /\ u.contacted = t.contacted /\ u.closest = t.closest
      /\ u.named = t.named /\ u.heard = t.heard /\ u.found = t.found
      /\ u.kind = t.kind /\ u.phase = t.phase /\ u.target = t.target /\ u.value = t.value
      /\ u.rounds = t.rounds /\ u.ok = t.ok
  BY <1>2, <1>4, <1>6 DEF TaskRecords
<1>8. Approached(u) = Approached(t)
  BY <1>7 DEF Approached
<1>9. TaskSound(u)
  BY <1>4, <1>5, <1>7, <1>8 DEF TaskSound
<1> QED
  BY <1>7, <1>9 DEF u

\* The end of a store: a majority is somebody.
LEMMA StoredSound ==
  ASSUME NEW t \in TaskRecords, TaskSound(t), t.phase = "store"
  PROVE  AfterStore(t) \in TaskRecords /\ TaskSound(AfterStore(t))
<1> DEFINE u == AfterStore(t)
           most == t.acks >= (Len(t.named) + 1) \div 2
<1>1. t.acks \in Nat /\ t.named \in Seq(DhtNodes) /\ t.named # <<>>
  BY DEF TaskRecords, TaskSound
<1>2. Len(t.named) \in Nat /\ Len(t.named) > 0
  BY <1>1, LenProperties, EmptySeq
<1>3. most => t.acks > 0
  <2> DEFINE m == Len(t.named)
             a == t.acks
  <2>1. m \in Nat /\ m > 0 /\ a \in Nat
    BY <1>1, <1>2
  <2> HIDE DEF m, a
  <2>2. a >= (m + 1) \div 2 => a > 0
    BY <2>1
  <2> QED
    BY <2>2 DEF m, a
<1>4. most => t.acked # {}
  BY <1>3 DEF TaskSound
<1>5. u = [t EXCEPT !.phase = "done", !.ok = most]
  BY DEF AfterStore
<1>6. most \in BOOLEAN
  OBVIOUS
<1> HIDE DEF most, u
<1>7. /\ u \in TaskRecords
      /\ u.phase = "done" /\ u.ok = most
      /\ u.acks = t.acks /\ u.acked = t.acked
      /\ u.contacted = t.contacted /\ u.closest = t.closest
      /\ u.named = t.named /\ u.heard = t.heard /\ u.found = t.found
      /\ u.kind = t.kind /\ u.target = t.target /\ u.value = t.value
      /\ u.rounds = t.rounds
  BY <1>5, <1>6 DEF TaskRecords, Phases
<1>8. Approached(u) = Approached(t)
  BY <1>7 DEF Approached
<1>9. TaskSound(u)
  BY <1>4, <1>7, <1>8 DEF TaskSound
<1> QED
  BY <1>7, <1>9 DEF u

-----------------------------------------------------------------------------
(* The invariant is kept by every step.                                    *)

LEMMA TaskChanges ==
  ASSUME DhtIInv, NEW n \in DhtNodes, NEW u \in TaskRecords, TaskSound(u),
         task' = [task EXCEPT ![n] = u]
  PROVE  task' \in [DhtNodes -> TaskRecords] /\ \A m \in DhtNodes : TaskSound(task'[m])
BY DEF DhtIInv

\* The tables after a request, and after its answer.
LEMMA HandledType ==
  ASSUME DhtIInv, NEW n \in DhtNodes, NEW m \in DhtNodes, NEW outcome
  PROVE  Handled(n, m, outcome) \in [DhtNodes -> BucketsOf(DhtNodes)]
<1>1. DhtNodes \in SUBSET NodeIDs /\ m \in NodeIDs
  BY KademliaAssumption
<1>2. tables \in [DhtNodes -> BucketsOf(DhtNodes)] /\ tables[m] \in BucketsOf(DhtNodes)
  BY DEF DhtIInv
<1>3. WithNode(tables[m], m, n) \in BucketsOf(DhtNodes)
  BY <1>1, <1>2, WithNodeType
<1> QED
  BY <1>2, <1>3 DEF Handled

LEMMA ReplyType ==
  ASSUME DhtIInv, NEW m \in DhtNodes, NEW t \in TaskRecords, NEW table \in BucketsOf(DhtNodes)
  PROVE  /\ Received(Reply(m, t, table)).value \in Values \cup {Nothing}
         /\ Received(Reply(m, t, table)).nodes \in Seq(DhtNodes)
<1>1. storage[m] # Nothing => storage[m].value \in Values
  BY DEF DhtIInv, DhtEntry
<1>2. ClosestNodes(table, m, t.target, BucketSize) \in Seq(DhtNodes)
  <2>1. DhtNodes \in SUBSET NodeIDs /\ m \in NodeIDs /\ BucketSize \in Nat /\ t.target \in NodeIDs
    BY KademliaAssumption, KBucketsAssumption DEF TaskRecords
  <2> QED
    BY <2>1, ClosestNodesType
<1>3. <<>> \in Seq(DhtNodes)
  OBVIOUS
<1>4. /\ Reply(m, t, table).value \in Values \cup {Nothing}
      /\ Reply(m, t, table).nodes \in Seq(DhtNodes)
      /\ Reply(m, t, table) = [value |-> Reply(m, t, table).value, nodes |-> Reply(m, t, table).nodes]
  <2> DEFINE near == ClosestNodes(table, m, t.target, BucketSize)
  <2> HIDE DEF near
  <2>1. CASE t.kind = "find" /\ storage[m] # Nothing /\ ~storage[m].expired
    <3>1. Reply(m, t, table) = [value |-> storage[m].value, nodes |-> <<>>]
      BY <2>1 DEF Reply
    <3> QED
      BY <1>1, <1>3, <2>1, <3>1
  <2>2. CASE ~(t.kind = "find" /\ storage[m] # Nothing /\ ~storage[m].expired)
    <3>1. Reply(m, t, table) = [value |-> Nothing, nodes |-> near]
      BY <2>2 DEF Reply, near
    <3>2. near \in Seq(DhtNodes)
      BY <1>2 DEF near
    <3> QED
      BY <3>1, <3>2
  <2> QED
    BY <2>1, <2>2
<1> DEFINE reply == Reply(m, t, table)
<1> HIDE DEF reply
<1>5. /\ reply.value \in Values \cup {Nothing} /\ reply.nodes \in Seq(DhtNodes)
      /\ reply = [value |-> reply.value, nodes |-> reply.nodes]
  BY <1>4 DEF reply
<1>6. /\ Received(reply).value \in Values \cup {Nothing}
      /\ Received(reply).nodes \in Seq(DhtNodes)
  BY <1>5 DEF Received
<1> QED
  BY <1>6 DEF reply

\* A call, or a timer, starts a lookup.
LEMMA BeginKeeps ==
  ASSUME DhtIInv, NEW n \in DhtNodes, NEW kind \in {"lookup", "find", "store"},
         NEW target \in NodeIDs, NEW value \in Values \cup {Nothing},
         kind = "store" => value \in Values, NEW bs \in BucketsOf(DhtNodes),
         Begin(n, kind, target, value, bs)
  PROVE  /\ events' \in 0..MaxEvents
         /\ tables' \in [DhtNodes -> BucketsOf(DhtNodes)]
         /\ task' \in [DhtNodes -> TaskRecords]
         /\ \A m \in DhtNodes : TaskSound(task'[m])
<1> DEFINE t == [NoTask EXCEPT !.kind = kind, !.target = target, !.value = value]
<1>1. t \in TaskRecords
  BY NoTaskSound DEF TaskRecords
<1>2. Fresh(t) /\ t.kind = kind /\ t.value = value
  BY DEF NoTask, Fresh
<1>3. task' = [task EXCEPT ![n] = LookingUp(n, bs, t)]
  BY DEF Begin
<1> HIDE DEF t
<1>4. LookingUp(n, bs, t) \in TaskRecords /\ TaskSound(LookingUp(n, bs, t))
  BY <1>1, <1>2, LookingUpSound
<1>5. task' \in [DhtNodes -> TaskRecords] /\ \A m \in DhtNodes : TaskSound(task'[m])
  BY <1>3, <1>4, TaskChanges
<1>6. tables' \in [DhtNodes -> BucketsOf(DhtNodes)]
  BY DEF Begin, DhtIInv
<1>7. events' \in 0..MaxEvents
  BY KademliaAssumption DEF Begin, Happens, DhtIInv
<1> QED
  BY <1>5, <1>6, <1>7

LEMMA CallsKeep ==
  ASSUME DhtIInv, NEW n \in DhtNodes,
         \/ LookupNode(n)
         \/ FindValue(n)
         \/ StoreValue(n)
         \/ RefreshBuckets(n)
         \/ ReplicateData(n)
  PROVE  DhtIInv'
<1>1. /\ Targets \subseteq NodeIDs /\ Key \in NodeIDs
      /\ tables[n] \in BucketsOf(DhtNodes) /\ WithoutStale(tables[n]) \in BucketsOf(DhtNodes)
  <2>1. tables[n] \in BucketsOf(DhtNodes)
    BY DEF DhtIInv
  <2> QED
    BY <2>1, WithoutStaleType, KademliaAssumption
<1>2. ASSUME NEW kind \in {"lookup", "find", "store"},
             NEW target \in NodeIDs, NEW value \in Values \cup {Nothing},
             kind = "store" => value \in Values, NEW bs \in BucketsOf(DhtNodes),
             Begin(n, kind, target, value, bs), UNCHANGED <<running, maintained, storage>>
      PROVE  DhtIInv'
  <2>1. /\ events' \in 0..MaxEvents
        /\ tables' \in [DhtNodes -> BucketsOf(DhtNodes)]
        /\ task' \in [DhtNodes -> TaskRecords]
        /\ \A m \in DhtNodes : TaskSound(task'[m])
    BY <1>2, BeginKeeps
  <2> QED
    BY <1>2, <2>1 DEF DhtIInv, DhtEntry
<1>3. CASE LookupNode(n)
  BY <1>1, <1>2, <1>3 DEF LookupNode
<1>4. CASE FindValue(n)
  BY <1>1, <1>2, <1>4 DEF FindValue
<1>5. CASE StoreValue(n)
  BY <1>1, <1>2, <1>5 DEF StoreValue
<1>6. CASE RefreshBuckets(n)
  BY <1>1, <1>2, <1>6 DEF RefreshBuckets
<1>7. CASE ReplicateData(n)
  <2>1. storage[n].value \in Values
    BY <1>7 DEF ReplicateData, DhtIInv, DhtEntry
  <2> QED
    BY <1>1, <1>2, <1>7, <2>1 DEF ReplicateData
<1> QED
  BY <1>3, <1>4, <1>5, <1>6, <1>7

LEMMA StartsKeep ==
  ASSUME DhtIInv, NEW n \in DhtNodes, StartNode(n)
  PROVE  DhtIInv'
<1>1. events' \in 0..MaxEvents
  BY KademliaAssumption DEF StartNode, Happens, DhtIInv
<1>2. running' \subseteq DhtNodes /\ maintained' \subseteq DhtNodes
  BY DEF StartNode, DhtIInv
<1>3. task' \in [DhtNodes -> TaskRecords] /\ \A m \in DhtNodes : TaskSound(task'[m])
  <2>1. CASE BootstrapNodes[n] = <<>>
    BY <2>1 DEF StartNode, DhtIInv
  <2>2. CASE BootstrapNodes[n] # <<>>
    <3> DEFINE u == [NoTask EXCEPT !.kind = "bootstrap", !.phase = "ping",
                                   !.target = n, !.todo = BootstrapNodes[n]]
    <3>1. n \in NodeIDs /\ BootstrapNodes[n] \in Seq(DhtNodes)
      BY KademliaAssumption
    <3>2. u \in TaskRecords
      BY <3>1, NoTaskSound DEF TaskRecords, Phases
    <3>3. /\ Fresh(u) /\ u.kind = "bootstrap" /\ u.phase = "ping" /\ u.todo = BootstrapNodes[n]
          /\ u.closest = <<>> /\ u.named = <<>> /\ u.heard = {} /\ u.contacted = {}
          /\ u.acks = 0 /\ u.rounds = 0 /\ u.ok = FALSE
      BY DEF NoTask, Fresh
    <3>4. task' = [task EXCEPT ![n] = u]
      BY <2>2 DEF StartNode
    <3> HIDE DEF u
    <3>5. Approached(u) = {} /\ Cardinality({}) = 0
      BY <3>3, FS_EmptySet DEF Approached
    <3>6. u.rounds <= Cardinality(Approached(u))
      BY <3>3, <3>5
    <3>7. NoRoomOutside(u.target, u.closest, u.heard)
      BY <3>3 DEF NoRoomOutside
    <3>8. Len(u.closest) = 0 /\ Len(u.named) = 0 /\ BucketSize \in Nat
      BY <3>3, KBucketsAssumption
    <3>9. TaskSound(u)
      BY <2>2, <3>3, <3>6, <3>7, <3>8 DEF TaskSound
    <3> QED
      BY <3>2, <3>4, <3>9, TaskChanges
  <2> QED
    BY <2>1, <2>2
<1> QED
  BY <1>1, <1>2, <1>3 DEF StartNode, DhtIInv, DhtEntry

LEMMA PingKeeps ==
  ASSUME DhtIInv, NEW n \in DhtNodes, Pinged(n)
  PROVE  DhtIInv'
<1> DEFINE t == task[n]
           m == Head(t.todo)
           rest == Tail(t.todo)
<1>1. t \in TaskRecords /\ TaskSound(t) /\ t.phase = "ping"
  BY DEF DhtIInv, Pinged
<1>2. t.todo \in Seq(DhtNodes) /\ t.todo # <<>> /\ Fresh(t)
  BY <1>1 DEF TaskRecords, TaskSound
<1>3. m \in DhtNodes /\ rest \in Seq(DhtNodes)
  BY <1>2, HeadTailProperties
<1>4. PICK outcome \in Outcomes(n, m) :
        LET reached == Handled(n, m, outcome)
            known == IF outcome = "answered" THEN WithNode(reached[n], n, m) ELSE reached[n]
        IN  /\ tables' = [reached EXCEPT ![n] = known]
            /\ task' = [task EXCEPT ![n] =
                          IF rest = <<>> THEN LookingUp(n, known, [@ EXCEPT !.todo = rest])
                          ELSE [@ EXCEPT !.todo = rest]]
  BY DEF Pinged
<1> DEFINE reached == Handled(n, m, outcome)
           known == IF outcome = "answered" THEN WithNode(reached[n], n, m) ELSE reached[n]
           u == [t EXCEPT !.todo = rest]
<1>5. reached \in [DhtNodes -> BucketsOf(DhtNodes)]
  BY <1>3, HandledType
<1>6. known \in BucketsOf(DhtNodes)
  <2>1. DhtNodes \in SUBSET NodeIDs /\ n \in NodeIDs
    BY KademliaAssumption
  <2>2. reached[n] \in BucketsOf(DhtNodes)
    BY <1>5
  <2> HIDE DEF reached
  <2>3. WithNode(reached[n], n, m) \in BucketsOf(DhtNodes)
    BY <1>3, <2>1, <2>2, WithNodeType
  <2> QED
    BY <2>2, <2>3
<1>7. tables' = [reached EXCEPT ![n] = known]
  BY <1>4
<1>8. task' = [task EXCEPT ![n] = IF rest = <<>> THEN LookingUp(n, known, u) ELSE u]
  <2>1. task \in [DhtNodes -> TaskRecords]
    BY DEF DhtIInv
  <2> HIDE DEF known, rest, m
  <2> QED
    BY <1>4, <2>1 DEF known, rest, m
<1> HIDE DEF reached, known, m
<1>9. tables' \in [DhtNodes -> BucketsOf(DhtNodes)]
  BY <1>5, <1>6, <1>7
<1>10. /\ u \in TaskRecords /\ Fresh(u) /\ u.kind = t.kind /\ u.value = t.value
  BY <1>1, <1>2, <1>3 DEF TaskRecords, Fresh
<1>11. ASSUME rest # <<>> PROVE TaskSound(u)
  <2>1. /\ u.todo = rest /\ u.phase = t.phase /\ u.target = t.target /\ u.closest = t.closest
        /\ u.contacted = t.contacted /\ u.named = t.named /\ u.found = t.found /\ u.acks = t.acks
        /\ u.acked = t.acked /\ u.heard = t.heard /\ u.rounds = t.rounds /\ u.ok = t.ok
        /\ u.asked = t.asked
    BY <1>1 DEF TaskRecords
  <2> HIDE DEF u, rest
  <2>2. Approached(u) = Approached(t)
    BY <2>1 DEF Approached
  <2> QED
    BY <1>1, <1>10, <1>11, <2>1, <2>2 DEF TaskSound
<1>12. LookingUp(n, known, u) \in TaskRecords /\ TaskSound(LookingUp(n, known, u))
  <2>1. u.kind = "store" => u.value \in Values
    BY <1>1, <1>10 DEF TaskSound
  <2> HIDE DEF u
  <2> QED
    BY <1>6, <1>10, <2>1, LookingUpSound
<1> DEFINE v == IF rest = <<>> THEN LookingUp(n, known, u) ELSE u
<1>13. v \in TaskRecords /\ TaskSound(v)
  <2> HIDE DEF u, rest
  <2> QED
    BY <1>10, <1>11, <1>12
<1>14. task' = [task EXCEPT ![n] = v]
  BY <1>8
<1> HIDE DEF v
<1>15. task' \in [DhtNodes -> TaskRecords] /\ \A o \in DhtNodes : TaskSound(task'[o])
  BY <1>13, <1>14, TaskChanges
<1>16. UNCHANGED <<running, maintained, storage, events>>
  BY DEF Pinged
<1> QED
  BY <1>9, <1>15, <1>16 DEF DhtIInv, DhtEntry

LEMMA AnswerKeeps ==
  ASSUME DhtIInv, NEW n \in DhtNodes, LookupAnswered(n)
  PROVE  DhtIInv'
<1> DEFINE t == task[n]
<1>1. t \in TaskRecords /\ TaskSound(t) /\ t.phase = "lookup"
  BY DEF DhtIInv, LookupAnswered
<1>2. PICK i \in DOMAIN t.asked : \E outcome \in Outcomes(n, t.asked[i]) :
          LET m == t.asked[i]
              reached == Handled(n, m, outcome)
              reply == IF outcome = "answered" THEN Received(Reply(m, t, reached[m])) ELSE NoReply
          IN  /\ tables' = [reached EXCEPT ![n] = WithNodes(@, n, reply.nodes)]
              /\ task' = [task EXCEPT ![n] =
                    [t EXCEPT !.asked = RemoveAt(@, i),
                              !.contacted = Contacted(t, m, outcome),
                              !.closest = NearestOf(n, t, reply.nodes),
                              !.named = @ \o reply.nodes,
                              !.heard = @ \cup (ToSet(reply.nodes) \ {n}),
                              !.found = IF reply.value = Nothing THEN @ ELSE Append(@, reply.value)]]
  BY DEF LookupAnswered
<1> DEFINE m == t.asked[i]
<1>3. m \in DhtNodes
  <2>1. t.asked \in Seq(DhtNodes)
    BY <1>1 DEF TaskRecords
  <2> QED
    BY <2>1, LenProperties, ElementOfSeq
<1>4. PICK outcome \in Outcomes(n, m) :
          LET reached == Handled(n, m, outcome)
              reply == IF outcome = "answered" THEN Received(Reply(m, t, reached[m])) ELSE NoReply
          IN  /\ tables' = [reached EXCEPT ![n] = WithNodes(@, n, reply.nodes)]
              /\ task' = [task EXCEPT ![n] =
                    [t EXCEPT !.asked = RemoveAt(@, i),
                              !.contacted = Contacted(t, m, outcome),
                              !.closest = NearestOf(n, t, reply.nodes),
                              !.named = @ \o reply.nodes,
                              !.heard = @ \cup (ToSet(reply.nodes) \ {n}),
                              !.found = IF reply.value = Nothing THEN @ ELSE Append(@, reply.value)]]
  BY <1>2
<1> DEFINE reached == Handled(n, m, outcome)
           reply == IF outcome = "answered" THEN Received(Reply(m, t, reached[m])) ELSE NoReply
           found == IF reply.value = Nothing THEN t.found ELSE Append(t.found, reply.value)
           known == WithNodes(reached[n], n, reply.nodes)
           u == AfterAnswer(n, t, i, reply.nodes, found)
<1>5. reached \in [DhtNodes -> BucketsOf(DhtNodes)]
  BY <1>3, HandledType
<1>6. tables' = [reached EXCEPT ![n] = known] /\ task' = [task EXCEPT ![n] = u]
  BY <1>4 DEF AfterAnswer, Contacted
<1> HIDE DEF reached
<1>7. reply.value \in Values \cup {Nothing} /\ reply.nodes \in Seq(DhtNodes)
  <2>1. CASE outcome = "answered"
    <3>1. reached[m] \in BucketsOf(DhtNodes)
      BY <1>3, <1>5
    <3> HIDE DEF t, m
    <3> QED
      BY <1>1, <1>3, <2>1, <3>1, ReplyType
  <2>2. CASE outcome # "answered"
    BY <2>2 DEF NoReply
  <2> QED
    BY <2>1, <2>2
<1> HIDE DEF reply
<1>8. found \in Seq(Values)
  <2>1. t.found \in Seq(Values)
    BY <1>1 DEF TaskRecords
  <2> QED
    BY <1>7, <2>1, AppendProperties
<1>9. known \in BucketsOf(DhtNodes)
  <2>1. DhtNodes \in SUBSET NodeIDs /\ n \in NodeIDs /\ reached[n] \in BucketsOf(DhtNodes)
    BY <1>5, KademliaAssumption
  <2> QED
    BY <1>7, <2>1, WithNodesType
<1> HIDE DEF found, known
<1>10. u \in TaskRecords /\ TaskSound(u)
  <2> HIDE DEF t
  <2> QED
    BY <1>1, <1>7, <1>8, AnsweredSound
<1> HIDE DEF u
<1>11. task' \in [DhtNodes -> TaskRecords] /\ \A o \in DhtNodes : TaskSound(task'[o])
  BY <1>6, <1>10, TaskChanges
<1>12. tables' \in [DhtNodes -> BucketsOf(DhtNodes)]
  BY <1>5, <1>6, <1>9
<1>13. UNCHANGED <<running, maintained, storage, events>>
  BY DEF LookupAnswered
<1> QED
  BY <1>11, <1>12, <1>13 DEF DhtIInv, DhtEntry

LEMMA ConfirmKeeps ==
  ASSUME DhtIInv, NEW n \in DhtNodes, StoreAnswered(n)
  PROVE  DhtIInv'
<1> DEFINE t == task[n]
<1>1. t \in TaskRecords /\ TaskSound(t) /\ t.phase = "store"
  BY DEF DhtIInv, StoreAnswered
<1>2. PICK i \in DOMAIN t.asked : \E outcome \in Outcomes(n, t.asked[i]) :
          LET m == t.asked[i]
              reached == Handled(n, m, outcome)
              answered == outcome = "answered"
          IN  /\ tables' = IF answered THEN [reached EXCEPT ![n] = WithNode(@, n, m)] ELSE reached
              /\ storage' = IF outcome = "failed" THEN storage
                            ELSE [storage EXCEPT ![m] = [value |-> t.value, expired |-> FALSE]]
              /\ task' = [task EXCEPT ![n] =
                    [t EXCEPT !.asked = RemoveAt(@, i),
                              !.acks = IF answered THEN @ + 1 ELSE @,
                              !.acked = IF answered THEN @ \cup {m} ELSE @]]
  BY DEF StoreAnswered
<1> DEFINE m == t.asked[i]
<1>3. m \in DhtNodes
  <2>1. t.asked \in Seq(DhtNodes)
    BY <1>1 DEF TaskRecords
  <2> QED
    BY <2>1, LenProperties, ElementOfSeq
<1>4. PICK outcome \in Outcomes(n, m) :
          LET reached == Handled(n, m, outcome)
              answered == outcome = "answered"
          IN  /\ tables' = IF answered THEN [reached EXCEPT ![n] = WithNode(@, n, m)] ELSE reached
              /\ storage' = IF outcome = "failed" THEN storage
                            ELSE [storage EXCEPT ![m] = [value |-> t.value, expired |-> FALSE]]
              /\ task' = [task EXCEPT ![n] =
                    [t EXCEPT !.asked = RemoveAt(@, i),
                              !.acks = IF answered THEN @ + 1 ELSE @,
                              !.acked = IF answered THEN @ \cup {m} ELSE @]]
  BY <1>2
<1> DEFINE reached == Handled(n, m, outcome)
           answered == outcome = "answered"
           known == WithNode(reached[n], n, m)
           u == AfterConfirming(t, i, answered)
<1>5. reached \in [DhtNodes -> BucketsOf(DhtNodes)]
  BY <1>3, HandledType
<1>6. /\ tables' = IF answered THEN [reached EXCEPT ![n] = known] ELSE reached
      /\ task' = [task EXCEPT ![n] = u]
      /\ storage' = IF outcome = "failed" THEN storage
                    ELSE [storage EXCEPT ![m] = [value |-> t.value, expired |-> FALSE]]
  BY <1>4 DEF AfterConfirming
<1> HIDE DEF reached
<1>7. known \in BucketsOf(DhtNodes)
  <2>1. DhtNodes \in SUBSET NodeIDs /\ n \in NodeIDs /\ reached[n] \in BucketsOf(DhtNodes)
    BY <1>5, KademliaAssumption
  <2> HIDE DEF m
  <2> QED
    BY <1>3, <2>1, WithNodeType
<1> HIDE DEF known
<1>8. u \in TaskRecords /\ TaskSound(u)
  <2>1. answered \in BOOLEAN
    OBVIOUS
  <2> HIDE DEF t, answered
  <2> QED
    BY <1>1, <2>1, ConfirmedSound
<1> HIDE DEF u
<1>9. task' \in [DhtNodes -> TaskRecords] /\ \A o \in DhtNodes : TaskSound(task'[o])
  BY <1>6, <1>8, TaskChanges
<1>10. tables' \in [DhtNodes -> BucketsOf(DhtNodes)]
  BY <1>5, <1>6, <1>7
<1>11. storage' \in [DhtNodes -> DhtEntry]
  <2>1. t.value \in Values
    BY <1>1 DEF TaskSound
  <2>2. storage \in [DhtNodes -> DhtEntry]
    BY DEF DhtIInv
  <2>3. [value |-> t.value, expired |-> FALSE] \in DhtEntry
    BY <2>1 DEF DhtEntry
  <2> HIDE DEF t, m
  <2> QED
    BY <1>6, <2>2, <2>3
<1>12. UNCHANGED <<running, maintained, events>>
  BY DEF StoreAnswered
<1> QED
  BY <1>9, <1>10, <1>11, <1>12 DEF DhtIInv, DhtEntry

LEMMA EndsKeep ==
  ASSUME DhtIInv, NEW n \in DhtNodes,
         \/ NextRound(n)
         \/ EndLookup(n)
         \/ EndStore(n)
  PROVE  DhtIInv'
<1>1. task[n] \in TaskRecords /\ TaskSound(task[n])
  BY DEF DhtIInv
<1>2. ASSUME NEW u \in TaskRecords, TaskSound(u), task' = [task EXCEPT ![n] = u],
             UNCHANGED <<running, tables, storage, events>>, maintained' \subseteq DhtNodes
      PROVE  DhtIInv'
  <2>1. task' \in [DhtNodes -> TaskRecords] /\ \A m \in DhtNodes : TaskSound(task'[m])
    BY <1>2, TaskChanges
  <2> QED
    BY <1>2, <2>1 DEF DhtIInv, DhtEntry
<1>3. task \in [DhtNodes -> TaskRecords] /\ maintained \subseteq DhtNodes
  BY DEF DhtIInv
<1>4. CASE NextRound(n)
  <2>1. Searching(task[n]) /\ ToContact(task[n]) # <<>>
    BY <1>4 DEF NextRound, LookupOver
  <2>2. AfterAsking(task[n]) \in TaskRecords /\ TaskSound(AfterAsking(task[n]))
    BY <1>1, <2>1, AskedSound
  <2>3. /\ task' = [task EXCEPT ![n] = AfterAsking(task[n])]
        /\ UNCHANGED <<running, tables, storage, events>> /\ maintained' \subseteq DhtNodes
    BY <1>3, <1>4 DEF NextRound, AfterAsking
  <2> QED
    BY <1>2, <2>2, <2>3
<1>5. CASE EndLookup(n)
  <2>1. AfterLookup(task[n]) \in TaskRecords /\ TaskSound(AfterLookup(task[n]))
    BY <1>1, <1>5, EndedSound DEF EndLookup
  <2>2. /\ task' = [task EXCEPT ![n] = AfterLookup(task[n])]
        /\ UNCHANGED <<running, tables, storage, events>> /\ maintained' \subseteq DhtNodes
    BY <1>3, <1>5 DEF EndLookup, AfterLookup
  <2> QED
    BY <1>2, <2>1, <2>2
<1>6. CASE EndStore(n)
  <2>1. AfterStore(task[n]) \in TaskRecords /\ TaskSound(AfterStore(task[n]))
    BY <1>1, <1>6, StoredSound DEF EndStore
  <2>2. /\ task' = [task EXCEPT ![n] = AfterStore(task[n])]
        /\ UNCHANGED <<running, tables, storage, events>> /\ maintained' \subseteq DhtNodes
    BY <1>3, <1>6 DEF EndStore, AfterStore
  <2> QED
    BY <1>2, <2>1, <2>2
<1> QED
  BY <1>4, <1>5, <1>6

LEMMA TimeKeeps ==
  ASSUME DhtIInv, NEW n \in DhtNodes,
         \/ StopNode(n)
         \/ CleanupStorage(n)
         \/ ValueExpires(n)
         \/ NodesGoStale(n)
  PROVE  DhtIInv'
<1>1. CASE StopNode(n)
  <2>1. events' \in 0..MaxEvents
    BY <1>1, KademliaAssumption DEF StopNode, Happens, DhtIInv
  <2> QED
    BY <1>1, <2>1 DEF StopNode, DhtIInv, DhtEntry
<1>2. CASE CleanupStorage(n)
  BY <1>2 DEF CleanupStorage, DhtIInv, DhtEntry
<1>3. CASE ValueExpires(n)
  <2>1. storage[n] \in [value : Values, expired : BOOLEAN]
    BY <1>3 DEF ValueExpires, DhtIInv, DhtEntry
  <2>2. [storage[n] EXCEPT !.expired = TRUE] \in DhtEntry
    BY <2>1 DEF DhtEntry
  <2>3. storage' \in [DhtNodes -> DhtEntry]
    BY <1>3, <2>2 DEF ValueExpires, DhtIInv
  <2> QED
    BY <1>3, <2>3 DEF ValueExpires, DhtIInv, DhtEntry
<1>4. CASE NodesGoStale(n)
  <2>1. events' \in 0..MaxEvents
    BY <1>4, KademliaAssumption DEF NodesGoStale, Happens, DhtIInv
  <2>2. tables[n] \in BucketsOf(DhtNodes)
    BY DEF DhtIInv
  <2>3. AllStale(tables[n]) \in BucketsOf(DhtNodes)
    BY <2>2, AllStaleType
  <2>4. tables' \in [DhtNodes -> BucketsOf(DhtNodes)]
    BY <1>4, <2>3 DEF NodesGoStale, DhtIInv
  <2> QED
    BY <1>4, <2>1, <2>4 DEF NodesGoStale, DhtIInv, DhtEntry
<1> QED
  BY <1>1, <1>2, <1>3, <1>4

LEMMA DhtInitial ==
  ASSUME DhtInit
  PROVE  DhtIInv
<1>1. EmptyBuckets \in BucketsOf(DhtNodes)
  BY DEF EmptyBuckets, BucketsOf
<1>2. MaxEvents \in Nat
  BY KademliaAssumption
<1> QED
  BY <1>1, <1>2, NoTaskSound DEF DhtInit, DhtIInv, DhtEntry

LEMMA DhtStepKeeps ==
  ASSUME DhtIInv, [DhtNext]_dhtVars
  PROVE  DhtIInv'
<1>1. CASE UNCHANGED dhtVars
  BY <1>1 DEF dhtVars, DhtIInv, DhtEntry
<1>2. CASE \E n \in DhtNodes :
             \/ StartNode(n) \/ StopNode(n)
             \/ LookupNode(n) \/ FindValue(n) \/ StoreValue(n)
             \/ RefreshBuckets(n) \/ CleanupStorage(n) \/ ReplicateData(n)
             \/ DhtStep(n)
             \/ ValueExpires(n) \/ NodesGoStale(n)
  <2>1. PICK n \in DhtNodes :
             \/ StartNode(n) \/ StopNode(n)
             \/ LookupNode(n) \/ FindValue(n) \/ StoreValue(n)
             \/ RefreshBuckets(n) \/ CleanupStorage(n) \/ ReplicateData(n)
             \/ DhtStep(n)
             \/ ValueExpires(n) \/ NodesGoStale(n)
    BY <1>2
  <2>2. CASE DhtStep(n)
    BY <2>2, AnswerKeeps, ConfirmKeeps, EndsKeep, PingKeeps DEF DhtStep
  <2> QED
    BY <2>1, <2>2, StartsKeep, CallsKeep, TimeKeeps
<1> QED
  BY <1>1, <1>2 DEF DhtNext, DhtBoundReached

LEMMA DhtIInvImplies ==
  ASSUME DhtIInv
  PROVE  DhtInv
<1> SUFFICES ASSUME NEW n \in DhtNodes
             PROVE  /\ tables[n] \in [BucketIndexes -> Seq([id : DhtNodes, fresh : BOOLEAN])]
                    /\ task[n].phase \in {"ping", "lookup", "store", "done"}
                    /\ Len(task[n].closest) <= BucketSize
                    /\ task[n].acks <= Len(task[n].named)
                    /\ task[n].phase \in {"store", "done"} /\ task[n].found = <<>> =>
                         \A out \in task[n].heard \ task[n].contacted :
                           /\ Len(task[n].closest) = BucketSize
                           /\ \A in \in ToSet(task[n].closest) : ~Nearer(task[n].target, out, in)
                    /\ task[n].phase = "done" /\ task[n].ok => task[n].acked # {}
                    /\ task[n].rounds <= Cardinality(DhtNodes)
  BY DEF DhtIInv, DhtInv, DhtTypeOK, LookupExhaustive, SuccessIsConfirmed, RoundsBounded
<1> DEFINE t == task[n]
<1>1. t \in TaskRecords /\ TaskSound(t) /\ tables[n] \in BucketsOf(DhtNodes)
  BY DEF DhtIInv
<1> HIDE DEF t
<1>2. t.rounds <= Cardinality(DhtNodes)
  <2>1. Approached(t) \in SUBSET DhtNodes
    <3>1. t.contacted \in SUBSET DhtNodes /\ t.asked \in Seq(DhtNodes)
      BY <1>1 DEF TaskRecords
    <3>2. ToSet(t.asked) \in SUBSET DhtNodes
      BY <3>1, NamesNodes
    <3> QED
      BY <3>1, <3>2 DEF Approached
  <2>2. /\ Cardinality(Approached(t)) \in Nat
        /\ Cardinality(Approached(t)) <= Cardinality(DhtNodes) /\ Cardinality(DhtNodes) \in Nat
    BY <2>1, DhtNodesFinite
  <2>3. t.rounds \in Nat /\ t.rounds <= Cardinality(Approached(t))
    BY <1>1 DEF TaskRecords, TaskSound
  <2> DEFINE a == Cardinality(Approached(t))
             b == Cardinality(DhtNodes)
             c == t.rounds
  <2>4. a \in Nat /\ b \in Nat /\ c \in Nat /\ c <= a /\ a <= b
    BY <2>2, <2>3
  <2>5. c <= b
    <3> HIDE DEF a, b, c
    <3> QED
      BY <2>4
  <2> QED
    BY <2>5
<1>3. t.phase \in {"store", "done"} /\ t.found = <<>> =>
        \A out \in t.heard \ t.contacted :
          /\ Len(t.closest) = BucketSize
          /\ \A in \in ToSet(t.closest) : ~Nearer(t.target, out, in)
  BY <1>1 DEF TaskSound, NoRoomOutside
<1> QED
  BY <1>1, <1>2, <1>3 DEF t, TaskSound, TaskRecords, Phases, BucketsOf, Entries

\* What the lookups and stores of the DHT promise, whatever fails: they end, having
\* asked whoever they should, and say what was confirmed.
THEOREM LookupsAreExhaustive == DhtSpec => []DhtInv
<1>1. DhtInit => DhtIInv
  BY DhtInitial
<1>2. DhtIInv /\ [DhtNext]_dhtVars => DhtIInv'
  BY DhtStepKeeps
<1>3. DhtIInv => DhtInv
  BY DhtIInvImplies
<1> QED
  BY <1>1, <1>2, <1>3, PTL DEF DhtSpec

-----------------------------------------------------------------------------
(* The routing table.                                                      *)

TableNodes == OtherIds \cup {LocalId}

\* A table is sound when its buckets hold no more than k entries, each where its
\* distance puts it, and once.
OneBucketSound(bucket, k) ==
  /\ Len(bucket) <= BucketSize
  /\ \A i \in DOMAIN bucket : BucketIndex(LocalId, bucket[i].id) = k
  /\ \A i, j \in DOMAIN bucket : bucket[i].id = bucket[j].id => i = j

BucketsAreSound(b) ==
  /\ b \in BucketsOf(TableNodes)
  /\ \A k \in BucketIndexes : OneBucketSound(b[k], k)

TableSound == BucketsAreSound(buckets)

LEMMA TableNodesAreIds == TableNodes \in SUBSET NodeIDs /\ LocalId \in NodeIDs
BY TableAssumption DEF TableNodes

\* One bucket is replaced.
LEMMA OneBucketChanges ==
  ASSUME NEW b, BucketsAreSound(b), NEW k \in BucketIndexes, NEW s \in Seq(Entries(TableNodes)),
         OneBucketSound(s, k), NEW c, c = [b EXCEPT ![k] = s]
  PROVE  BucketsAreSound(c)
BY DEF BucketsAreSound, BucketsOf

LEMMA EntryReplaced ==
  ASSUME NEW s \in Seq(Entries(TableNodes)), NEW k, OneBucketSound(s, k), NEW i \in DOMAIN s,
         NEW e \in Entries(TableNodes), e.id = s[i].id
  PROVE  [s EXCEPT ![i] = e] \in Seq(Entries(TableNodes)) /\ OneBucketSound([s EXCEPT ![i] = e], k)
<1> DEFINE r == [s EXCEPT ![i] = e]
<1>1. i \in 1..Len(s) /\ DOMAIN s = 1..Len(s)
  BY LenProperties
<1>2. r \in Seq(Entries(TableNodes)) /\ Len(r) = Len(s)
  BY <1>1, ExceptSeq
<1>3. DOMAIN r = DOMAIN s /\ \A j \in DOMAIN s : r[j].id = s[j].id
  OBVIOUS
<1> HIDE DEF r
<1>4. OneBucketSound(r, k)
  BY <1>2, <1>3 DEF OneBucketSound
<1> QED
  BY <1>2, <1>4 DEF r

LEMMA AddSound ==
  ASSUME NEW b, BucketsAreSound(b), NEW id \in TableNodes
  PROVE  BucketsAreSound(WithNode(b, LocalId, id))
<1> DEFINE k == BucketIndex(LocalId, id)
           s == b[k]
           places == PlacesOf(s, id)
<1>1. k \in BucketIndexes
  BY TableNodesAreIds, BucketIndexType
<1>2. s \in Seq(Entries(TableNodes)) /\ OneBucketSound(s, k)
  BY <1>1 DEF BucketsAreSound, BucketsOf
<1>3. Entry(id) \in Entries(TableNodes) /\ Entry(id).id = id
  BY DEF Entry, Entries
<1>4. CASE places # {}
  <2>1. Min(places) \in places
    BY <1>2, <1>4, MinPlace
  <2>2. Min(places) \in DOMAIN s /\ s[Min(places)].id = id
    BY <2>1 DEF PlacesOf
  <2>3. WithNode(b, LocalId, id) = [b EXCEPT ![k] = [s EXCEPT ![Min(places)] = Entry(id)]]
    BY <1>4 DEF WithNode
  <2> HIDE DEF k, s, places
  <2>4. /\ [s EXCEPT ![Min(places)] = Entry(id)] \in Seq(Entries(TableNodes))
        /\ OneBucketSound([s EXCEPT ![Min(places)] = Entry(id)], k)
    BY <1>2, <1>3, <2>2, EntryReplaced
  <2> QED
    BY <1>1, <2>3, <2>4, OneBucketChanges
<1>5. CASE places = {} /\ HasRoom(s)
  <2> DEFINE r == Append(s, Entry(id))
  <2>1. WithNode(b, LocalId, id) = [b EXCEPT ![k] = r]
    BY <1>5 DEF WithNode
  <2>2. /\ r \in Seq(Entries(TableNodes)) /\ Len(r) = Len(s) + 1
        /\ \A j \in 1..Len(s) : r[j] = s[j]
        /\ r[Len(s) + 1] = Entry(id)
    BY <1>2, <1>3, AppendProperties
  <2>3. /\ Len(s) \in Nat /\ DOMAIN s = 1..Len(s) /\ DOMAIN r = 1..(Len(s) + 1)
        /\ Len(s) < BucketSize /\ BucketSize \in Nat
    BY <1>2, <1>5, <2>2, LenProperties, KBucketsAssumption DEF HasRoom
  <2>4. \A j \in DOMAIN s : s[j].id # id
    BY <1>5 DEF PlacesOf
  <2>5. \A j \in DOMAIN r : j \in DOMAIN s \/ j = Len(s) + 1
    BY <2>3
  <2> HIDE DEF r
  <2>6. OneBucketSound(r, k)
    <3>1. Len(r) <= BucketSize
      BY <2>2, <2>3
    <3>2. \A j \in DOMAIN r : BucketIndex(LocalId, r[j].id) = k
      <4>1. \A j \in DOMAIN s : BucketIndex(LocalId, s[j].id) = k
        BY <1>2 DEF OneBucketSound
      <4> HIDE DEF s
      <4> QED
        BY <1>3, <2>2, <2>3, <2>5, <4>1
    <3>3. \A i, j \in DOMAIN r : r[i].id = r[j].id => i = j
      <4>1. \A i, j \in DOMAIN s : s[i].id = s[j].id => i = j
        BY <1>2 DEF OneBucketSound
      <4> HIDE DEF s, k
      <4> QED
        BY <1>3, <2>2, <2>3, <2>4, <2>5, <4>1
    <3> QED
      BY <3>1, <3>2, <3>3 DEF OneBucketSound
  <2> HIDE DEF k, s
  <2> QED
    BY <1>1, <2>1, <2>2, <2>6, OneBucketChanges
<1>6. CASE places = {} /\ ~HasRoom(s)
  BY <1>6 DEF WithNode
<1> QED
  BY <1>4, <1>5, <1>6

\* A part of a sound bucket is sound.
LEMMA PartSound ==
  ASSUME NEW s \in Seq(Entries(TableNodes)), NEW k, OneBucketSound(s, k),
         NEW r \in Seq(Entries(TableNodes)), NEW at \in [DOMAIN r -> DOMAIN s],
         Len(r) <= Len(s),
         \A i, j \in DOMAIN r : at[i] = at[j] => i = j,
         \A i \in DOMAIN r : r[i] = s[at[i]]
  PROVE  OneBucketSound(r, k)
<1>1. Len(r) \in Nat /\ Len(s) \in Nat /\ BucketSize \in Nat
  BY LenProperties, KBucketsAssumption
<1>2. Len(r) <= BucketSize
  BY <1>1 DEF OneBucketSound
<1> QED
  BY <1>2 DEF OneBucketSound

LEMMA RemoveSound ==
  ASSUME NEW b, BucketsAreSound(b), NEW id \in TableNodes
  PROVE  BucketsAreSound(WithoutNode(b, LocalId, id))
<1> DEFINE k == BucketIndex(LocalId, id)
           s == b[k]
           places == PlacesOf(s, id)
           p == Min(places)
           r == RemoveAt(s, p)
<1>1. k \in BucketIndexes
  BY TableNodesAreIds, BucketIndexType
<1>2. s \in Seq(Entries(TableNodes)) /\ OneBucketSound(s, k)
  BY <1>1 DEF BucketsAreSound, BucketsOf
<1>3. CASE places # {}
  <2>1. p \in DOMAIN s
    <3>1. p \in places
      BY <1>2, <1>3, MinPlace
    <3> QED
      BY <3>1 DEF PlacesOf
  <2>2. WithoutNode(b, LocalId, id) = [b EXCEPT ![k] = r]
    BY <1>3 DEF WithoutNode
  <2> HIDE DEF s, places, p, k
  <2>3. r \in Seq(Entries(TableNodes)) /\ Len(r) = Len(s) - 1
    BY <1>2, <2>1, WithoutPlace
  <2>4. Len(s) \in Nat /\ DOMAIN s = 1..Len(s) /\ p \in 1..Len(s)
        /\ DOMAIN r = 1..(Len(s) - 1)
    BY <1>2, <2>1, <2>3, LenProperties
  <2>5. \A j \in 1..(Len(s) - 1) : r[j] = IF j < p THEN s[j] ELSE s[j + 1]
    BY <1>2, <2>4, PlaceRemoved
  <2> HIDE DEF r
  <2> DEFINE at == [j \in DOMAIN r |-> IF j < p THEN j ELSE j + 1]
  <2>6. /\ at \in [DOMAIN r -> DOMAIN s]
        /\ \A i, j \in DOMAIN r : at[i] = at[j] => i = j
        /\ \A i \in DOMAIN r : r[i] = s[at[i]]
    BY <2>4, <2>5
  <2> HIDE DEF at
  <2>7. Len(r) <= Len(s)
    BY <2>3, <2>4
  <2>8. OneBucketSound(r, k)
    BY <1>2, <2>3, <2>6, <2>7, PartSound
  <2> QED
    BY <1>1, <2>2, <2>3, <2>8, OneBucketChanges
<1>4. CASE places = {}
  BY <1>4 DEF WithoutNode
<1> QED
  BY <1>3, <1>4

LEMMA SeenSound ==
  ASSUME NEW b, BucketsAreSound(b), NEW id \in TableNodes
  PROVE  BucketsAreSound(WithNodeSeen(b, LocalId, id))
<1> DEFINE k == BucketIndex(LocalId, id)
           s == b[k]
           places == PlacesOf(s, id)
           p == Min(places)
           e == [s[p] EXCEPT !.fresh = TRUE]
           r == [s EXCEPT ![p] = e]
<1>1. k \in BucketIndexes
  BY TableNodesAreIds, BucketIndexType
<1>2. s \in Seq(Entries(TableNodes)) /\ OneBucketSound(s, k)
  BY <1>1 DEF BucketsAreSound, BucketsOf
<1>3. CASE places # {}
  <2>1. p \in DOMAIN s
    <3>1. p \in places
      BY <1>2, <1>3, MinPlace
    <3> QED
      BY <3>1 DEF PlacesOf
  <2>2. WithNodeSeen(b, LocalId, id) = [b EXCEPT ![k] = r]
    BY <1>3 DEF WithNodeSeen
  <2> HIDE DEF s, places, p, k
  <2>3. e \in Entries(TableNodes) /\ e.id = s[p].id
    <3>1. s[p] \in Entries(TableNodes)
      BY <1>2, <2>1, LenProperties, ElementOfSeq
    <3> QED
      BY <3>1 DEF Entries
  <2> HIDE DEF e
  <2>4. r \in Seq(Entries(TableNodes)) /\ OneBucketSound(r, k)
    BY <1>2, <2>1, <2>3, EntryReplaced
  <2> HIDE DEF r
  <2> QED
    BY <1>1, <2>2, <2>4, OneBucketChanges
<1>4. CASE places = {}
  BY <1>4 DEF WithNodeSeen
<1> QED
  BY <1>3, <1>4

LEMMA StaleSound ==
  ASSUME NEW b, BucketsAreSound(b)
  PROVE  BucketsAreSound(WithoutStale(b)) /\ BucketsAreSound(AllStale(b))
<1>1. WithoutStale(b) \in BucketsOf(TableNodes) /\ AllStale(b) \in BucketsOf(TableNodes)
  BY WithoutStaleType, AllStaleType DEF BucketsAreSound
<1>2. ASSUME NEW k \in BucketIndexes
      PROVE  OneBucketSound(WithoutStale(b)[k], k) /\ OneBucketSound(AllStale(b)[k], k)
  <2> DEFINE s == b[k]
             P == {i \in DOMAIN s : s[i].fresh}
             r == AtPlaces(s, P)
             n == Cardinality(P)
  <2>1. s \in Seq(Entries(TableNodes)) /\ OneBucketSound(s, k)
    BY DEF BucketsAreSound, BucketsOf
  <2>2. WithoutStale(b)[k] = r
    BY DEF WithoutStale
  <2>3. AllStale(b)[k] = [i \in DOMAIN s |-> [s[i] EXCEPT !.fresh = FALSE]]
    BY DEF AllStale
  <2>4. P \in SUBSET (DOMAIN s)
    OBVIOUS
  <2> HIDE DEF s, P
  <2>5. /\ r \in Seq(Entries(TableNodes)) /\ Len(r) <= Len(s) /\ Len(r) = n
        /\ \E at : CountsPlaces(at, P, n) /\ \A i \in 1..n : r[i] = s[at[i]]
    BY <2>1, <2>4, AtPlacesIsPart
  <2> HIDE DEF r, n
  <2>6. PICK at : CountsPlaces(at, P, n) /\ \A i \in 1..n : r[i] = s[at[i]]
    BY <2>5
  <2>7. DOMAIN r = 1..n
    BY <2>5, LenProperties
  <2>8. at \in [DOMAIN r -> DOMAIN s] /\ \A i, j \in DOMAIN r : at[i] = at[j] => i = j
    BY <2>4, <2>6, <2>7 DEF CountsPlaces
  <2>9. OneBucketSound(r, k)
    BY <2>1, <2>5, <2>6, <2>7, <2>8, PartSound
  <2> DEFINE q == AllStale(b)[k]
  <2>10. q \in Seq(Entries(TableNodes))
    BY <1>1 DEF BucketsOf
  <2>11. DOMAIN q = DOMAIN s /\ \A i \in DOMAIN s : q[i].id = s[i].id
    <3>1. \A e \in Entries(TableNodes) : [e EXCEPT !.fresh = FALSE].id = e.id
      BY DEF Entries
    <3>2. \A i \in DOMAIN s : s[i] \in Entries(TableNodes)
      BY <2>1, LenProperties, ElementOfSeq
    <3> QED
      BY <2>3, <3>1, <3>2
  <2> HIDE DEF q
  <2>12. Len(q) = Len(s)
    BY <2>1, <2>10, <2>11, LenProperties
  <2>13. OneBucketSound(q, k)
    BY <2>1, <2>11, <2>12 DEF OneBucketSound
  <2> QED
    BY <2>2, <2>9, <2>13 DEF q
<1> QED
  BY <1>1, <1>2 DEF BucketsAreSound

-----------------------------------------------------------------------------
(* What a search finds.                                                    *)

\* The first turn takes the bucket of the target, and no turn takes back.
LEMMA CentreIsCollected ==
  ASSUME NEW X, NEW b \in BucketsOf(X), NEW centre \in BucketIndexes, NEW count \in Nat \ {0}
  PROVE  /\ Collected(b, centre, count) \in Seq(X)
         /\ ToSet(Collected(b, centre, count)) \subseteq KnownNodes(b)
         /\ \A i \in DOMAIN b[centre] : b[centre][i].id \in ToSet(Collected(b, centre, count))
<1>1. PICK h : SearchTurns(h, b, centre, count, X)
  BY SearchTakesTurns
<1>2. /\ h \in [0..IdBits -> Seq(X)]
      /\ h[0] = <<>> /\ h[IdBits] = Collected(b, centre, count)
      /\ \A k \in 1..IdBits : h[k] = Turn(b, centre, count, k - 1, h[k - 1])
  BY <1>1 DEF SearchTurns
<1>3. IdBits \in Nat /\ 1 \in 1..IdBits /\ IdBits \in 0..IdBits
  BY KBucketsAssumption
<1> DEFINE ids == IdsIn(b[centre])
<1>4. /\ ids \in Seq(X) /\ DOMAIN ids = DOMAIN b[centre]
      /\ \A j \in DOMAIN b[centre] : ids[j] = b[centre][j].id
  BY IdsInType DEF BucketsOf, IdsIn
<1>5. h[1] = ids
  <2>1. SearchIndex(centre, 0) = centre
    BY DEF SearchIndex, BucketIndexes
  <2>2. Len(<<>>) = 0 /\ ~(0 >= 2 * count)
    OBVIOUS
  <2>3. h[1] = Turn(b, centre, count, 0, <<>>)
    BY <1>2, <1>3
  <2>4. h[1] = <<>> \o ids
    BY <2>1, <2>2, <2>3 DEF Turn
  <2> HIDE DEF ids
  <2> QED
    BY <1>4, <2>4
<1> HIDE DEF ids
<1> DEFINE Holds(l) == ToSet(l) \subseteq KnownNodes(b)
           T == {k \in 0..IdBits : Holds(h[k]) /\ (k >= 1 => ToSet(ids) \subseteq ToSet(h[k]))}
<1>6. ToSet(<<>>) = {}
  BY DEF ToSet
<1>7. 0 \in T
  BY <1>2, <1>3, <1>6
<1>8. ASSUME NEW k \in 1..IdBits, k - 1 \in T PROVE k \in T
  <2>1. h[k - 1] \in Seq(X) /\ h[k] = Turn(b, centre, count, k - 1, h[k - 1])
    <3>1. k - 1 \in 0..IdBits
      BY <1>3
    <3> QED
      BY <1>2, <3>1
  <2> DEFINE old == h[k - 1]
             j == SearchIndex(centre, k - 1)
             more == IdsIn(b[j])
  <2>2. CASE h[k] = old
    <3>1. k > 1 => k - 1 >= 1
      BY <1>3
    <3>2. k = 1 \/ k > 1
      BY <1>3
    <3> QED
      BY <1>2, <1>5, <1>6, <1>8, <2>2, <3>1, <3>2
  <2>3. CASE h[k] # old
    <3>1. j \in BucketIndexes /\ h[k] = old \o more
      BY <2>1, <2>3 DEF Turn
    <3>2. b[j] \in Seq(Entries(X))
      BY <3>1 DEF BucketsOf
    <3>3. /\ more \in Seq(X) /\ DOMAIN more = DOMAIN b[j]
          /\ \A i \in DOMAIN b[j] : more[i] = b[j][i].id
      BY <3>2, IdsInType DEF IdsIn
    <3>4. ToSet(more) \subseteq KnownNodes(b)
      BY <3>1, <3>3 DEF ToSet, KnownNodes
    <3>4a. old \in Seq(X)
      BY <2>1
    <3> HIDE DEF old, more
    <3>5. ToSet(h[k]) = ToSet(old) \cup ToSet(more)
      BY <3>1, <3>3, <3>4a, ConcatNames
    <3>6. k = 1 \/ k - 1 >= 1
      BY <1>3
    <3> QED
      BY <1>5, <1>8, <3>4, <3>5, <3>6 DEF old
  <2> QED
    BY <2>2, <2>3
<1>9. IdBits \in T
  <2> HIDE DEF T
  <2>1. 0..IdBits \subseteq T
    BY <1>3, <1>7, <1>8, InductionUpTo
  <2> QED
    BY <1>3, <2>1
<1>10. IdBits >= 1
  BY <1>3
<1>11. ToSet(ids) \subseteq ToSet(h[IdBits]) /\ Holds(h[IdBits])
  BY <1>9, <1>10
<1>12. \A i \in DOMAIN b[centre] : b[centre][i].id \in ToSet(ids)
  BY <1>4 DEF ToSet
<1> QED
  BY <1>2, <1>3, <1>11, <1>12

\* The first of an answer is the nearest of what was collected.
LEMMA FirstIsNearest ==
  ASSUME NEW X \in SUBSET NodeIDs, NEW b \in BucketsOf(X), NEW local \in NodeIDs,
         NEW target \in NodeIDs, NEW count \in Nat \ {0},
         NEW x \in ToSet(Collected(b, BucketIndex(local, target), count))
  PROVE  LET answer == ClosestNodes(b, local, target, count)
         IN  /\ answer \in Seq(X) /\ Len(answer) \in 1..count
             /\ answer[1] \in ToSet(Collected(b, BucketIndex(local, target), count))
             /\ \A y \in ToSet(Collected(b, BucketIndex(local, target), count)) :
                   ~Nearer(target, y, answer[1])
<1> DEFINE s == Collected(b, BucketIndex(local, target), count)
           r == NearestFirst(target, s)
           answer == ClosestNodes(b, local, target, count)
<1>1. s \in Seq(X)
  BY BucketIndexType, CentreIsCollected
<1>2. answer = SubSeq(r, 1, Min({count, Len(r)}))
  BY DEF ClosestNodes
<1>2a. x \in ToSet(s)
  OBVIOUS
<1> HIDE DEF s, answer
<1>3. s \in Seq(NodeIDs)
  BY <1>1, SeqMonotonic
<1>4. DOMAIN r = DOMAIN s /\ \E at : SortsNearest(at, target, s, r)
  BY <1>3, NearestFirstSorts
<1>5. r \in Seq(X) /\ Len(r) = Len(s) /\ ToSet(r) = ToSet(s)
  BY <1>1, NearestFirstType
<1> HIDE DEF r
<1>6. PICK at : SortsNearest(at, target, s, r)
  BY <1>4
<1>7. Len(r) \in Nat /\ DOMAIN r = 1..Len(r) /\ Len(r) # 0 /\ DOMAIN s = 1..Len(r)
  <2>1. Len(r) \in Nat /\ DOMAIN r = 1..Len(r)
    BY <1>5, LenProperties
  <2>2. DOMAIN r # {}
    BY <1>2a, <1>5 DEF ToSet
  <2> QED
    BY <1>4, <2>1, <2>2
<1>8. /\ answer \in Seq(X)
      /\ Len(answer) <= count /\ Len(answer) <= Len(r)
      /\ Len(answer) = count \/ Len(answer) = Len(r)
      /\ \A i \in 1..Len(answer) : answer[i] = r[i]
  <2> DEFINE q == SubSeq(r, 1, Min({count, Len(r)}))
  <2>1. /\ q \in Seq(X)
        /\ Len(q) <= count /\ Len(q) <= Len(r)
        /\ Len(q) = count \/ Len(q) = Len(r)
        /\ \A i \in 1..Len(q) : q[i] = r[i]
    BY <1>5, FirstOfList
  <2> HIDE DEF q
  <2> QED
    BY <1>2, <2>1 DEF q
<1>9. Len(answer) \in 1..count
  <2>1. Len(answer) \in Nat
    BY <1>8, LenProperties
  <2> QED
    BY <1>7, <1>8, <2>1
<1>10. answer[1] = r[1] /\ 1 \in DOMAIN r
  BY <1>7, <1>8, <1>9
<1>11. \A l \in DOMAIN r : ~Nearer(target, r[l], r[1])
  <2>1. \A l \in DOMAIN r : r[l] = s[at[l]] /\ r[l] \in NodeIDs
    <3>1. \A l \in DOMAIN r : r[l] \in X
      BY <1>5, ElementOfSeq, LenProperties
    <3> QED
      BY <1>4, <1>6, <3>1 DEF SortsNearest
  <2>2. \A k, l \in DOMAIN s : k < l => ~Nearer(target, s[at[l]], s[at[k]])
    BY <1>6 DEF SortsNearest
  <2>3. \A l \in DOMAIN r : l = 1 \/ 1 < l
    BY <1>7
  <2> QED
    BY <1>4, <1>10, <2>1, <2>2, <2>3, NearerIsOrder
<1>12. answer[1] \in ToSet(s) /\ \A y \in ToSet(s) : ~Nearer(target, y, answer[1])
  BY <1>5, <1>10, <1>11 DEF ToSet
<1> QED
  BY <1>8, <1>9, <1>12 DEF s, answer

\* Nothing is nearer to an id than itself.
LEMMA ItselfIsNearest ==
  ASSUME NEW a \in NodeIDs, NEW b \in NodeIDs, a # b
  PROVE  Nearer(a, a, b)
BY FirstDifferenceIsFirst DEF Nearer

\* A node in the bucket of the target is nearer to it than one outside.
LEMMA BucketIsNearer ==
  ASSUME NEW local \in NodeIDs, NEW target \in NodeIDs, NEW x \in NodeIDs, NEW y \in NodeIDs,
         target # local, x # local,
         BucketIndex(local, x) = BucketIndex(local, target),
         BucketIndex(local, y) # BucketIndex(local, target)
  PROVE  Nearer(target, x, y)
<1> DEFINE d == FirstDifference(local, target)
<1>1. /\ d \in 1..IdBits /\ local[d] # target[d]
      /\ \A i \in 1..IdBits : i < d => local[i] = target[i]
  BY FirstDifferenceIsFirst
<1>2. /\ FirstDifference(local, x) \in 1..IdBits
      /\ local[FirstDifference(local, x)] # x[FirstDifference(local, x)]
      /\ \A i \in 1..IdBits : i < FirstDifference(local, x) => local[i] = x[i]
  BY FirstDifferenceIsFirst
<1>3. FirstDifference(local, x) = d
  <2>1. FirstDifference(local, x) - 1 = d - 1
    BY DEF BucketIndex
  <2> HIDE DEF d
  <2> QED
    BY <1>1, <1>2, <2>1
<1> HIDE DEF d
<1>4. \A i \in 1..IdBits : local[i] \in {0, 1} /\ target[i] \in {0, 1} /\ x[i] \in {0, 1}
  BY DEF NodeIDs
<1>5. x[d] = target[d] /\ \A i \in 1..IdBits : i < d => x[i] = target[i]
  BY <1>1, <1>2, <1>3, <1>4
<1>6. x # y
  OBVIOUS
<1>7. CASE y = local
  <2>1. FirstDifference(x, y) = d
    BY <1>1, <1>2, <1>3, <1>7, FirstDifferenceIs
  <2> QED
    BY <1>5, <1>6, <2>1 DEF Nearer
<1>8. CASE y # local
  <2> DEFINE e == FirstDifference(local, y)
  <2>1. /\ e \in 1..IdBits /\ local[e] # y[e]
        /\ \A i \in 1..IdBits : i < e => local[i] = y[i]
    BY <1>8, FirstDifferenceIsFirst
  <2>2. e # d
    BY <1>8 DEF BucketIndex, d
  <2> HIDE DEF e
  <2>3. CASE e < d
    <3>1. x[e] # y[e] /\ x[e] = target[e] /\ \A i \in 1..IdBits : i < e => x[i] = y[i]
      <4>1. \A i \in 1..IdBits : i < e => i < d
        BY <1>1, <2>1, <2>3
      <4> QED
        BY <1>2, <1>3, <1>5, <2>1, <2>3, <4>1
    <3>2. FirstDifference(x, y) = e
      BY <2>1, <3>1, FirstDifferenceIs
    <3> QED
      BY <1>6, <3>1, <3>2 DEF Nearer
  <2>4. CASE d < e
    <3>1. x[d] # y[d] /\ \A i \in 1..IdBits : i < d => x[i] = y[i]
      <4>1. \A i \in 1..IdBits : i < d => i < e
        BY <1>1, <2>1, <2>4
      <4> QED
        BY <1>1, <1>2, <1>3, <2>1, <2>4, <4>1
    <3>2. FirstDifference(x, y) = d
      BY <1>1, <3>1, FirstDifferenceIs
    <3> QED
      BY <1>5, <1>6, <3>2 DEF Nearer
  <2> QED
    BY <1>1, <2>1, <2>2, <2>3, <2>4
<1> QED
  BY <1>7, <1>8

LEMMA SoundIsSearchable ==
  ASSUME BucketsAreSound(buckets)
  PROVE  TableInv
<1> DEFINE X == TableNodes
<1>1. buckets \in BucketsOf(X) /\ X \in SUBSET NodeIDs /\ LocalId \in NodeIDs
  BY TableNodesAreIds DEF BucketsAreSound
<1>2. TableTypeOK
  BY <1>1 DEF TableTypeOK, BucketsAreSound, OneBucketSound, BucketsOf, Entries, TableEntries, TableNodes
<1>3. BucketsSound
  BY DEF BucketsSound, BucketsAreSound, OneBucketSound
<1>4. \A id \in KnownNodes(buckets) :
        /\ id \in X
        /\ \E i \in DOMAIN buckets[BucketIndex(LocalId, id)] : buckets[BucketIndex(LocalId, id)][i].id = id
  <2> TAKE id \in KnownNodes(buckets)
  <2>0. PICK k \in BucketIndexes : \E i \in DOMAIN buckets[k] : buckets[k][i].id = id
    BY DEF KnownNodes
  <2>1. PICK i \in DOMAIN buckets[k] : buckets[k][i].id = id
    BY <2>0
  <2>2. BucketIndex(LocalId, id) = k
    BY <1>3, <2>1 DEF BucketsSound
  <2>3. buckets[k][i] \in Entries(X)
    BY <1>1, <2>1, LenProperties, ElementOfSeq DEF BucketsOf
  <2> QED
    BY <2>1, <2>2, <2>3 DEF Entries
<1> HIDE DEF X
<1>5. FindsKnownNode
  <2> SUFFICES ASSUME NEW id \in KnownNodes(buckets)
               PROVE  ClosestNodes(buckets, LocalId, id, 1) = <<id>>
    BY DEF FindsKnownNode
  <2> DEFINE s == Collected(buckets, BucketIndex(LocalId, id), 1)
             answer == ClosestNodes(buckets, LocalId, id, 1)
  <2>1. id \in X /\ id \in NodeIDs /\ BucketIndex(LocalId, id) \in BucketIndexes
    BY <1>1, <1>4, BucketIndexType
  <2>2. 1 \in Nat \ {0}
    OBVIOUS
  <2>3. id \in ToSet(s) /\ s \in Seq(X)
    BY <1>1, <1>4, <2>1, <2>2, CentreIsCollected
  <2>4. /\ answer \in Seq(X) /\ Len(answer) \in 1..1
        /\ answer[1] \in ToSet(s)
        /\ \A y \in ToSet(s) : ~Nearer(id, y, answer[1])
    BY <1>1, <2>1, <2>2, <2>3, FirstIsNearest
  <2> HIDE DEF s, answer
  <2>5. answer[1] \in NodeIDs
    BY <1>1, <2>3, <2>4, NamesNodes
  <2>6. answer[1] = id
    BY <2>1, <2>3, <2>4, <2>5, ItselfIsNearest
  <2>7. answer = <<id>>
    BY <2>4, <2>6
  <2> QED
    BY <2>7 DEF answer
<1>6. NearestIsFirst
  <2> SUFFICES ASSUME NEW target \in NodeIDs \ {LocalId}, NEW count \in 1..BucketSize,
                      NEW i \in DOMAIN buckets[BucketIndex(LocalId, target)],
                      buckets[BucketIndex(LocalId, target)][i].id # LocalId,
                      NEW id \in KnownNodes(buckets)
               PROVE  ~Nearer(target, id, ClosestNodes(buckets, LocalId, target, count)[1])
    BY DEF NearestIsFirst
  <2> DEFINE k == BucketIndex(LocalId, target)
             x == buckets[k][i].id
             s == Collected(buckets, k, count)
             answer == ClosestNodes(buckets, LocalId, target, count)
  <2>1. k \in BucketIndexes /\ count \in Nat \ {0} /\ target \in NodeIDs
    BY <1>1, BucketIndexType, KBucketsAssumption
  <2>2. /\ s \in Seq(X)
        /\ \A j \in DOMAIN buckets[k] : buckets[k][j].id \in ToSet(s)
    BY <1>1, <2>1, CentreIsCollected
  <2>3. x \in ToSet(s) /\ x # LocalId /\ BucketIndex(LocalId, x) = k
    BY <1>3, <2>1, <2>2 DEF BucketsSound
  <2>4. /\ answer[1] \in ToSet(s)
        /\ \A y \in ToSet(s) : ~Nearer(target, y, answer[1])
    BY <1>1, <2>1, <2>3, FirstIsNearest
  <2>4a. target # LocalId
    OBVIOUS
  <2>4b. id \in X
    BY <1>4
  <2>5. BucketIndex(LocalId, id) = k => id \in ToSet(s)
    <3> HIDE DEF s
    <3> QED
      BY <1>4, <2>2
  <2>5a. BucketIndex(LocalId, x) = BucketIndex(LocalId, target)
    BY <2>3
  <2>5b. BucketIndex(LocalId, id) # k => BucketIndex(LocalId, id) # BucketIndex(LocalId, target)
    OBVIOUS
  <2> HIDE DEF s, answer, x, k
  <2>6. answer[1] \in NodeIDs /\ x \in NodeIDs /\ id \in NodeIDs
    BY <1>1, <2>2, <2>3, <2>4, <2>4b, NamesNodes
  <2>7. CASE BucketIndex(LocalId, id) = k
    BY <2>4, <2>5, <2>7 DEF answer
  <2>8. CASE BucketIndex(LocalId, id) # k
    <3>1. Nearer(target, x, id)
      BY <1>1, <2>1, <2>3, <2>4a, <2>5a, <2>5b, <2>6, <2>8, BucketIsNearer
    <3>2. ~Nearer(target, x, answer[1])
      BY <2>3, <2>4
    <3>3. ~Nearer(target, id, answer[1])
      BY <2>1, <2>6, <3>1, <3>2, NearerIsOrder
    <3> QED
      BY <3>3 DEF answer
  <2> QED
    BY <2>7, <2>8
<1> QED
  BY <1>2, <1>3, <1>5, <1>6 DEF TableInv

\* A routing table keeps its nodes where a search looks for them, and finds a node
\* that it knows, and the nearest of a bucket that is not empty.
THEOREM TableIsSearchable == TableSpec => []TableInv
<1>1. TableInit => TableSound
  <2> SUFFICES ASSUME TableInit PROVE BucketsAreSound(buckets)
    BY DEF TableSound
  <2>1. buckets \in BucketsOf(TableNodes) /\ \A k \in BucketIndexes : buckets[k] = <<>>
    BY DEF TableInit, EmptyBuckets, BucketsOf
  <2>2. BucketSize \in Nat
    BY KBucketsAssumption
  <2> QED
    BY <2>1, <2>2 DEF BucketsAreSound, OneBucketSound
<1>2. TableSound /\ [TableNext]_tableVars => TableSound'
  <2> SUFFICES ASSUME BucketsAreSound(buckets), [TableNext]_tableVars
               PROVE  BucketsAreSound(buckets')
    BY DEF TableSound
  <2>1. ASSUME NEW id \in TableNodes, AddNode(id) \/ RemoveNode(id) \/ UpdateNodeLastSeen(id)
        PROVE  BucketsAreSound(buckets')
    BY <2>1, AddSound, RemoveSound, SeenSound DEF AddNode, RemoveNode, UpdateNodeLastSeen
  <2>2. CASE RemoveStaleNodes
    BY <2>2, StaleSound DEF RemoveStaleNodes
  <2>3. CASE TableTimeout
    BY <2>3, StaleSound DEF TableTimeout
  <2>4. CASE UNCHANGED tableVars
    BY <2>4 DEF tableVars
  <2> QED
    BY <2>1, <2>2, <2>3, <2>4 DEF TableNext, TableNodes
<1>3. TableSound => TableInv
  BY SoundIsSearchable DEF TableSound
<1> QED
  BY <1>1, <1>2, <1>3, PTL DEF TableSpec

-----------------------------------------------------------------------------
(***************************************************************************)
(* The relay client keeps its connection state in step with its sockets,   *)
(* for any number of sockets and any limits.  The three invariants and the *)
(* type invariant are inductive together: a socket in the field resolver   *)
(* has to be one for its promise to be settled, and a rejection sets off as *)
(* many attempts as retrying says.                                         *)
(***************************************************************************)

-----------------------------------------------------------------------------
(* Lemmas                                                                  *)

\* attemptReconnect leaves the timers well typed, and one set unless it is
\* stopped.
LEMMA AttemptReconnectSetsTimer ==
  ASSUME held \in BOOLEAN, orphans \in 0 .. MaxOrphans,
         NEW n \in 0 .. 2, AttemptReconnect(n)
  PROVE  /\ held' \in BOOLEAN
         /\ orphans' \in 0 .. MaxOrphans
         /\ held => held'
         /\ TimersSet => TimersSet'
         /\ n > 0 /\ ~Stopped => held'
<1>1. CASE Stopped \/ n = 0
  BY <1>1 DEF AttemptReconnect, TimersSet
<1>2. CASE ~Stopped /\ n > 0
  <2>1. held' = TRUE
    BY <1>2 DEF AttemptReconnect
  <2>2. /\ orphans' = orphans + n - (IF held THEN 0 ELSE 1)
        /\ orphans' <= MaxOrphans
    BY <1>2 DEF AttemptReconnect
  <2>3. orphans' \in 0 .. MaxOrphans
    BY <2>2, <1>2, ConstantsAssumption
  <2> QED
    BY <2>1, <2>3 DEF TimersSet
<1> QED
  BY <1>1, <1>2

\* A rejection sets off at most one attempt.
LEMMA FewReactions == Reactions \in 0 .. 1
BY DEF Reactions

\* A rejection keeps the promises well typed and empties the field.
LEMMA RejectSettles ==
  ASSUME TypeOK, Reject
  PROVE  /\ promise' \in [Sockets -> {"none", "pending", "resolved", "rejected"}]
         /\ resolver' = NoSocket
BY DEF TypeOK, Reject

\* Closing a socket keeps a socket that receives receiving, and no socket
\* becomes idle or closed by it.
LEMMA CloseKeepsReceiving ==
  ASSUME TypeOK, CloseCurrent
  PROVE  /\ sock' \in [Sockets -> SockStates]
         /\ \A s \in Sockets : Receiving(s) => Receiving(s)'
         /\ \A s \in Sockets : sock[s] \notin {"idle", "closed"}
                                 => sock'[s] \notin {"idle", "closed"}
         /\ \A s \in Sockets : sock'[s] # "idle" => sock[s] # "idle"
BY DEF TypeOK, CloseCurrent, Closing, SockStates, Receiving

-----------------------------------------------------------------------------
(* Each part of the invariant is kept by every step                        *)

\* Every step keeps the variables in their types.
LEMMA TypeStep == TypeOK /\ Next => TypeOK'
<1> SUFFICES ASSUME TypeOK, Next PROVE TypeOK'
  OBVIOUS
<1>1. ASSUME NEW s \in Sockets, Connect(s) PROVE TypeOK'
  BY <1>1 DEF TypeOK, Connect, StartConnect, SockStates
<1>2. CASE Disconnect
  BY <1>2, CloseKeepsReceiving DEF TypeOK, Disconnect, promises
<1>3. ASSUME NEW s \in Sockets, Opened(s) PROVE TypeOK'
  BY <1>3 DEF TypeOK, Opened, SockStates, promises, reconnection
<1>4. ASSUME NEW s \in Sockets, Signed(s) PROVE TypeOK'
  <2>1. CASE ws = NoSocket \/ (ws \in Sockets /\ sock[ws] = "connecting")
    <3>1. Reject /\ AttemptReconnect(Reactions)
      BY <1>4, <2>1 DEF Signed
    <3>2. held' \in BOOLEAN /\ orphans' \in 0 .. MaxOrphans
      BY <3>1, FewReactions, AttemptReconnectSetsTimer DEF TypeOK
    <3> QED
      BY <1>4, <2>1, <3>1, <3>2, RejectSettles DEF TypeOK, Signed
  <2>2. CASE ~(ws = NoSocket \/ (ws \in Sockets /\ sock[ws] = "connecting"))
    BY <1>4, <2>2 DEF TypeOK, Signed
  <2> QED
    BY <2>1, <2>2
<1>5. ASSUME NEW s \in Sockets, Registered(s) PROVE TypeOK'
  BY <1>5 DEF TypeOK, Registered
<1>6. ASSUME NEW s \in Sockets, Refused(s) PROVE TypeOK'
  BY <1>6 DEF TypeOK, Refused, promises, reconnection
<1>7. ASSUME NEW s \in Sockets, Fails(s) PROVE TypeOK'
  <2>1. held' \in BOOLEAN /\ orphans' \in 0 .. MaxOrphans
    <3>1. \E n \in 0 .. 2 : AttemptReconnect(n)
      <4>1. AttemptReconnect(1 + Reactions) \/ AttemptReconnect(1)
        BY <1>7 DEF Fails
      <4>2. 1 + Reactions \in 0 .. 2 /\ 1 \in 0 .. 2
        BY FewReactions
      <4> QED
        BY <4>1, <4>2
    <3> QED
      BY <3>1, AttemptReconnectSetsTimer DEF TypeOK
  <2> QED
    BY <1>7, <2>1, RejectSettles DEF TypeOK, Fails, SockStates
<1>8. ASSUME NEW s \in Sockets, ReceiveError(s) PROVE TypeOK'
  <2>1. held' \in BOOLEAN /\ orphans' \in 0 .. MaxOrphans
    BY <1>8, FewReactions, AttemptReconnectSetsTimer DEF TypeOK, ReceiveError
  <2> QED
    BY <1>8, <2>1, RejectSettles DEF TypeOK, ReceiveError, SockStates
<1>9. ASSUME NEW s \in Sockets, Drops(s) PROVE TypeOK'
  <2>1. held' \in BOOLEAN /\ orphans' \in 0 .. MaxOrphans
    BY <1>9, AttemptReconnectSetsTimer DEF TypeOK, Drops
  <2> QED
    BY <1>9, <2>1 DEF TypeOK, Drops, promises, SockStates
<1>10. ASSUME NEW s \in Sockets, TimedOut(s) PROVE TypeOK'
  <2>1. held' \in BOOLEAN /\ orphans' \in 0 .. MaxOrphans
    BY <1>10, FewReactions, AttemptReconnectSetsTimer DEF TypeOK, TimedOut
  <2> QED
    BY <1>10, <2>1, RejectSettles, CloseKeepsReceiving DEF TypeOK, TimedOut
<1>11. ASSUME NEW s \in Sockets, TimerFires(s) PROVE TypeOK'
  <2>1. orphans' \in 0 .. MaxOrphans
    <3>1. orphans \in 0 .. MaxOrphans
      BY DEF TypeOK
    <3>2. CASE orphans' = orphans
      BY <3>1, <3>2
    <3>3. CASE orphans > 0 /\ orphans' = orphans - 1
      BY <3>1, <3>3, ConstantsAssumption
    <3> QED
      BY <1>11, <3>2, <3>3 DEF TimerFires
  <2>2. attempts' \in Nat
    BY <1>11 DEF TypeOK, TimerFires
  <2>3. retrying' \in SUBSET Sockets
    BY <1>11 DEF TypeOK, TimerFires
  <2>4. StartConnect(s)
    BY <1>11 DEF TimerFires
  <2> QED
    BY <2>1, <2>2, <2>3, <2>4 DEF TypeOK, StartConnect, SockStates
<1> QED
  BY <1>1, <1>2, <1>3, <1>4, <1>5, <1>6, <1>7, <1>8, <1>9, <1>10, <1>11
     DEF Next

\* Every step keeps a client that says it is connected registered.
LEMMA ConnectedStep ==
  TypeOK /\ ConnectedIsRegistered /\ Next => ConnectedIsRegistered'
<1> SUFFICES ASSUME TypeOK, ConnectedIsRegistered, Next, connected'
             PROVE  \E s \in registered' : Receiving(s)'
  BY DEF ConnectedIsRegistered
<1>1. ASSUME NEW s \in Sockets, Connect(s) \/ TimerFires(s)
      PROVE  \E r \in registered' : Receiving(r)'
  <2>1. StartConnect(s)
    BY <1>1 DEF Connect, TimerFires
  <2>2. PICK r \in registered : Receiving(r)
    BY <2>1 DEF StartConnect, ConnectedIsRegistered
  <2>3. r # s /\ r \in Sockets
    BY <2>1, <2>2 DEF StartConnect, Free, Receiving, TypeOK
  <2> QED
    BY <2>1, <2>2, <2>3 DEF StartConnect, Receiving, TypeOK
<1>2. CASE Disconnect
  BY <1>2 DEF Disconnect
<1>3. ASSUME NEW s \in Sockets, Opened(s)
      PROVE  \E r \in registered' : Receiving(r)'
  BY <1>3 DEF Opened, ConnectedIsRegistered, Receiving, TypeOK
<1>4. ASSUME NEW s \in Sockets, Signed(s) \/ Refused(s)
      PROVE  \E r \in registered' : Receiving(r)'
  BY <1>4 DEF Signed, Refused, ConnectedIsRegistered, Receiving
<1>5. ASSUME NEW s \in Sockets, Registered(s)
      PROVE  \E r \in registered' : Receiving(r)'
  BY <1>5 DEF Registered, Receiving
<1>6. ASSUME NEW s \in Sockets, Fails(s) \/ Drops(s)
      PROVE  \E r \in registered' : Receiving(r)'
  BY <1>6 DEF Fails, Drops
<1>7. ASSUME NEW s \in Sockets, ReceiveError(s)
      PROVE  \E r \in registered' : Receiving(r)'
  BY <1>7 DEF ReceiveError, ConnectedIsRegistered, Receiving, TypeOK
<1>8. ASSUME NEW s \in Sockets, TimedOut(s)
      PROVE  \E r \in registered' : Receiving(r)'
  <2>1. \A r \in Sockets : Receiving(r) => Receiving(r)'
    BY <1>8, CloseKeepsReceiving DEF TimedOut, Receiving
  <2> QED
    BY <1>8, <2>1 DEF TimedOut, ConnectedIsRegistered, TypeOK
<1> QED
  BY <1>1, <1>2, <1>3, <1>4, <1>5, <1>6, <1>7, <1>8 DEF Next

\* Every step keeps a client that lost its connection from being idle.
LEMMA NeverIdleStep == TypeOK /\ NeverIdle /\ Next => NeverIdle'
<1> DEFINE Busy == \E s \in Sockets : sock[s] \notin {"idle", "closed"}
           Started == \E s \in Sockets : sock[s] # "idle"
<1> SUFFICES ASSUME TypeOK, NeverIdle, Next,
                    Started', ~connected', ~intentional',
                    attempts' < MaxReconnectAttempts
             PROVE  TimersSet' \/ Busy'
  BY DEF NeverIdle
<1>1. ASSUME NEW s \in Sockets, Connect(s) \/ TimerFires(s) PROVE Busy'
  BY <1>1 DEF Connect, TimerFires, StartConnect, TypeOK
<1>2. CASE Disconnect
  BY <1>2 DEF Disconnect
<1>3. ASSUME NEW s \in Sockets, Opened(s) PROVE Busy'
  BY <1>3 DEF Opened, TypeOK
<1>4. ASSUME NEW s \in Sockets, Signed(s) PROVE TimersSet' \/ Busy'
  <2>1. TimersSet \/ Busy
    BY <1>4 DEF Signed, NeverIdle
  <2>2. TimersSet => TimersSet'
    <3>1. AttemptReconnect(Reactions) \/ UNCHANGED <<held, orphans>>
      BY <1>4 DEF Signed
    <3>2. Reactions \in 0 .. 2
      BY FewReactions
    <3> QED
      BY <3>1, <3>2, AttemptReconnectSetsTimer DEF TypeOK, TimersSet
  <2> QED
    BY <1>4, <2>1, <2>2 DEF Signed
<1>5. ASSUME NEW s \in Sockets, Registered(s) PROVE FALSE
  BY <1>5 DEF Registered
<1>6. ASSUME NEW s \in Sockets, Refused(s) PROVE TimersSet' \/ Busy'
  BY <1>6 DEF Refused, NeverIdle, TimersSet, reconnection
<1>7. ASSUME NEW s \in Sockets, Fails(s) \/ Drops(s) PROVE TimersSet'
  <2>1. PICK n \in 1 .. 2 : AttemptReconnect(n)
    <3>1. \/ AttemptReconnect(1 + Reactions)
          \/ AttemptReconnect(1)
      BY <1>7 DEF Fails, Drops
    <3>2. 1 + Reactions \in 1 .. 2 /\ 1 \in 1 .. 2
      BY FewReactions
    <3> QED
      BY <3>1, <3>2
  <2>2. ~Stopped
    <3>1. UNCHANGED <<attempts, intentional>>
      BY <1>7 DEF Fails, Drops
    <3> QED
      BY <3>1, ConstantsAssumption DEF Stopped, TypeOK
  <2> QED
    BY <2>1, <2>2, AttemptReconnectSetsTimer DEF TypeOK, TimersSet
<1>8. ASSUME NEW s \in Sockets, ReceiveError(s) PROVE Busy'
  BY <1>8 DEF ReceiveError, TypeOK
<1>9. ASSUME NEW s \in Sockets, TimedOut(s) PROVE TimersSet' \/ Busy'
  <2>1. CASE resolver # NoSocket /\ ~connected
    <3>1. CloseCurrent /\ AttemptReconnect(Reactions)
      BY <1>9, <2>1 DEF TimedOut
    <3>2. Started
      BY <3>1, CloseKeepsReceiving
    <3>3. TimersSet \/ Busy
      BY <1>9, <2>1, <3>2 DEF TimedOut, NeverIdle
    <3>4. Reactions \in 0 .. 2
      BY FewReactions
    <3>5. TimersSet => TimersSet'
      BY <3>1, <3>4, AttemptReconnectSetsTimer DEF TypeOK
    <3>6. Busy => Busy'
      BY <3>1, CloseKeepsReceiving
    <3> QED
      BY <3>3, <3>5, <3>6
  <2>2. CASE ~(resolver # NoSocket /\ ~connected)
    BY <1>9, <2>2 DEF TimedOut, NeverIdle, TimersSet
  <2> QED
    BY <2>1, <2>2
<1> QED
  BY <1>1, <1>2, <1>3, <1>4, <1>5, <1>6, <1>7, <1>8, <1>9 DEF Next

\* Every step keeps the promise in the fields unsettled.
LEMMA ResolverStep == TypeOK /\ ResolverIsPending /\ Next => ResolverIsPending'
<1> SUFFICES ASSUME TypeOK, ResolverIsPending, Next PROVE ResolverIsPending'
  OBVIOUS
<1>1. ASSUME NEW s \in Sockets, Connect(s) \/ TimerFires(s)
      PROVE  ResolverIsPending'
  BY <1>1 DEF Connect, TimerFires, StartConnect, ResolverIsPending, TypeOK
<1>2. ASSUME NEW s \in Sockets,
             Signed(s) \/ Fails(s) \/ ReceiveError(s) \/ TimedOut(s)
      PROVE  ResolverIsPending'
  <2>1. Reject \/ UNCHANGED <<promise, resolver>>
    BY <1>2 DEF Signed, Fails, ReceiveError, TimedOut
  <2> QED
    BY <2>1, RejectSettles DEF ResolverIsPending
<1>3. CASE Disconnect
  BY <1>3 DEF Disconnect, promises, ResolverIsPending
<1>4. ASSUME NEW s \in Sockets, Opened(s) \/ Refused(s) \/ Drops(s)
      PROVE  ResolverIsPending'
  BY <1>4 DEF Opened, Refused, Drops, promises, ResolverIsPending
<1>5. ASSUME NEW s \in Sockets, Registered(s) PROVE ResolverIsPending'
  BY <1>5 DEF Registered, ResolverIsPending
<1> QED
  BY <1>1, <1>2, <1>3, <1>4, <1>5 DEF Next

-----------------------------------------------------------------------------
(* The theorems                                                            *)

\* The inductive invariant holds in every reachable state of the client.
THEOREM ClientInvariance == Spec => []ClientInv
<1>1. Init => ClientInv
  <2> SUFFICES ASSUME Init PROVE ClientInv
    OBVIOUS
  <2>1. TypeOK
    <3>1. orphans \in 0 .. MaxOrphans
      BY ConstantsAssumption DEF Init
    <3> QED
      BY <3>1 DEF Init, TypeOK, SockStates
  <2>2. ConnectedIsRegistered
    BY DEF Init, ConnectedIsRegistered
  <2>3. NeverIdle
    BY DEF Init, NeverIdle
  <2>4. ResolverIsPending
    BY DEF Init, ResolverIsPending
  <2> QED
    BY <2>1, <2>2, <2>3, <2>4 DEF ClientInv
<1>2. ClientInv /\ [Next]_vars => ClientInv'
  <2> SUFFICES ASSUME ClientInv, [Next]_vars PROVE ClientInv'
    OBVIOUS
  <2>1. CASE Next
    BY <2>1, TypeStep, ConnectedStep, NeverIdleStep, ResolverStep DEF ClientInv
  <2>2. CASE UNCHANGED vars
    BY <2>2 DEF vars, sockets, promises, reconnection, ClientInv, TypeOK,
                ConnectedIsRegistered, Receiving, NeverIdle, TimersSet,
                ResolverIsPending
  <2> QED
    BY <2>1, <2>2
<1> QED
  BY <1>1, <1>2, PTL DEF Spec

\* The client's fields keep their types, the count of orphaned timers included.
THEOREM ClientTypeCorrect == Spec => []TypeOK
BY ClientInvariance, PTL DEF ClientInv

\* connected is never a leftover of a socket that is gone: some socket is
\* registered and still receives.
THEOREM ConnectedMeansRegistered == Spec => []ConnectedIsRegistered
BY ClientInvariance, PTL DEF ClientInv

\* Without disconnect and with attempts left, a client that is not connected
\* has a timer set or a socket that is not closed.
THEOREM ClientKeepsTrying == Spec => []NeverIdle
BY ClientInvariance, PTL DEF ClientInv

\* The functions in the fields settle a promise that is not settled yet.
THEOREM SettledOnce == Spec => []ResolverIsPending
BY ClientInvariance, PTL DEF ClientInv
==============================================================================
