----------------------------- MODULE KademliaRpc -----------------------------
(* The requests of one Kademlia node over UDP, packages/dht/src/kademlia/    *)
(* rpc.ts: a table of pending requests, a timeout for each that sends again, *)
(* a timer of its own that sends again after a send that failed, both        *)
(* counting in the same field, and datagrams that are lost, late and out of  *)
(* order.  The other node handles what reaches it and answers each time.     *)
EXTENDS Integers, FiniteSets

CONSTANTS
    Requests,    \* message ids
    MaxRetries   \* maxRetries

ASSUME RpcAssumption == MaxRetries \in Nat

VARIABLES
    socket,    \* "none", "open" or "closing"
    told,      \* request -> what its caller was told
    pending,   \* requests in pendingRequests
    timer,     \* requests with a timeout that runs
    retries,   \* request -> PendingRequest.retries
    sending,   \* request -> sends whose callback is awaited
    resends,   \* request -> timers of sendWithRetry that run
    datagrams, \* request -> its datagrams on the way
    answers,   \* request -> answers to it on the way
    handled,   \* request -> times the other node handled it
    sent       \* request -> calls of sendWithRetry

rpcVars == <<socket, told, pending, timer, retries, sending, resends, datagrams, answers, handled, sent>>

RpcInit ==
    /\ socket = "none"
    /\ told = [r \in Requests |-> "new"]
    /\ pending = {} /\ timer = {}
    /\ retries = [r \in Requests |-> 0]
    /\ sending = [r \in Requests |-> 0]
    /\ resends = [r \in Requests |-> 0]
    /\ datagrams = [r \in Requests |-> 0]
    /\ answers = [r \in Requests |-> 0]
    /\ handled = [r \in Requests |-> 0]
    /\ sent = [r \in Requests |-> 0]

Inc(f, r) == [f EXCEPT ![r] = @ + 1]
Dec(f, r) == [f EXCEPT ![r] = @ - 1]

SettleAgain(r, how) == [told EXCEPT ![r] = how]

(* The first resolve or reject of a promise counts. *)
Settle(r, how) == [told EXCEPT ![r] = IF @ = "waiting" THEN how ELSE @]

CanRetry(r) == retries[r] < MaxRetries

(* clearTimeout and pendingRequests.delete *)
Forget(r) == pending' = pending \ {r} /\ timer' = timer \ {r}

(* sendWithRetry up to its await. *)
Send(r) ==
    /\ sending' = Inc(sending, r)
    /\ sent' = Inc(sent, r)

StartRpc ==
    /\ socket = "none"
    /\ socket' = "open"
    /\ UNCHANGED <<told, pending, timer, retries, sending, resends, datagrams, answers, handled, sent>>

StopQuietly ==
    /\ socket = "open"
    /\ socket' = "closing"
    /\ timer' = timer \ pending /\ pending' = {}
    /\ UNCHANGED <<told, retries, sending, resends, datagrams, answers, handled, sent>>

(* stop rejects what is pending; a timer of sendWithRetry is not cleared. *)
StopRpc ==
    /\ socket = "open"
    /\ socket' = "closing"
    /\ told' = [r \in Requests |-> IF r \in pending THEN Settle(r, "failed")[r] ELSE told[r]]
    /\ timer' = timer \ pending /\ pending' = {}
    /\ UNCHANGED <<retries, sending, resends, datagrams, answers, handled, sent>>

Closed ==
    /\ socket = "closing"
    /\ socket' = "none"
    /\ UNCHANGED <<told, pending, timer, retries, sending, resends, datagrams, answers, handled, sent>>

Request(r) ==
    /\ told[r] = "new"
    /\ told' = [told EXCEPT ![r] = "waiting"]
    /\ pending' = pending \cup {r}
    /\ timer' = timer \cup {r}
    /\ Send(r)
    /\ UNCHANGED <<socket, retries, resends, datagrams, answers, handled>>

(* The callback of socket.send: the datagram is on its way. *)
SendDone(r) ==
    /\ sending[r] > 0 /\ socket = "open"
    /\ sending' = Dec(sending, r)
    /\ datagrams' = Inc(datagrams, r)
    /\ UNCHANGED <<socket, told, pending, timer, retries, resends, answers, handled, sent>>

(* A send that fails, for an error of the socket or because there is none. *)
SendFails(r) ==
    /\ sending[r] > 0
    /\ sending' = Dec(sending, r)
    /\ \/ /\ CanRetry(r)
          /\ retries' = Inc(retries, r)
          /\ resends' = Inc(resends, r)
          /\ UNCHANGED <<told, pending, timer>>
       \/ /\ ~CanRetry(r)
          /\ Forget(r)
          /\ told' = Settle(r, "failed")
          /\ UNCHANGED <<retries, resends>>
    /\ UNCHANGED <<socket, datagrams, answers, handled, sent>>

(* The timer of a send that failed fires, whatever became of the request. *)
Resend(r) ==
    /\ resends[r] > 0
    /\ resends' = Dec(resends, r)
    /\ Send(r)
    /\ UNCHANGED <<socket, told, pending, timer, retries, datagrams, answers, handled>>

HandleTimeout(r) ==
    /\ r \in timer
    /\ \/ /\ CanRetry(r)
          /\ retries' = Inc(retries, r)
          /\ pending' = pending \cup {r}
          /\ Send(r)
          /\ UNCHANGED <<told, timer>>
       \/ /\ ~CanRetry(r)
          /\ Forget(r)
          /\ told' = Settle(r, "failed")
          /\ UNCHANGED <<retries, sending, sent>>
    /\ UNCHANGED <<socket, resends, datagrams, answers, handled>>

(* The other node: handleMessage runs the handler and sends its response. *)
Handle(r) ==
    /\ datagrams[r] > 0
    /\ datagrams' = Dec(datagrams, r)
    /\ handled' = Inc(handled, r)
    /\ answers' = Inc(answers, r)
    /\ UNCHANGED <<socket, told, pending, timer, retries, sending, resends, sent>>

(* handleMessage of a response: it settles the request it names if that is   *)
(* pending, and otherwise finds no handler.                                  *)
Answer(r) ==
    /\ answers[r] > 0 /\ socket = "open"
    /\ answers' = Dec(answers, r)
    /\ IF r \in pending
       THEN /\ Forget(r)
            /\ told' = Settle(r, "answered")
       ELSE UNCHANGED <<told, pending, timer>>
    /\ UNCHANGED <<socket, retries, sending, resends, datagrams, handled, sent>>

LoseDatagram(r) ==
    /\ datagrams[r] > 0
    /\ datagrams' = Dec(datagrams, r)
    /\ UNCHANGED <<socket, told, pending, timer, retries, sending, resends, answers, handled, sent>>

LoseAnswer(r) ==
    /\ answers[r] > 0
    /\ answers' = Dec(answers, r)
    /\ UNCHANGED <<socket, told, pending, timer, retries, sending, resends, datagrams, handled, sent>>

RpcNext ==
    \/ StartRpc \/ StopRpc \/ Closed
    \/ \E r \in Requests :
          \/ Request(r) \/ SendDone(r) \/ SendFails(r) \/ Resend(r) \/ HandleTimeout(r)
          \/ Handle(r) \/ Answer(r) \/ LoseDatagram(r) \/ LoseAnswer(r)

(* A timer that runs fires; nothing else is needed of the network. *)
RpcFairness == \A r \in Requests : WF_rpcVars(HandleTimeout(r))

RpcSpec == RpcInit /\ [][RpcNext]_rpcVars

----------------------------------------------------------------------------

Attempts == 0..(MaxRetries + 1)

RpcTypeOK ==
    /\ socket \in {"none", "open", "closing"}
    /\ told \in [Requests -> {"new", "waiting", "answered", "failed"}]
    /\ pending \subseteq Requests /\ timer \subseteq Requests
    /\ retries \in [Requests -> 0..MaxRetries]
    /\ {sending, resends, datagrams, answers, handled, sent} \subseteq [Requests -> Attempts]

(* A request is in the table exactly while its caller waits, and exactly     *)
(* then its timeout runs: none is forgotten, and no timeout outlives the     *)
(* request it belongs to.                                                    *)
WaitingIsPending ==
    /\ pending = {r \in Requests : told[r] = "waiting"}
    /\ timer = pending

(* A failed send and a timeout each send again, but together no more often   *)
(* than the retries allow: what the other node gets is at most one request   *)
(* and MaxRetries repetitions of it, whichever timers raced.                 *)
RepetitionsBounded ==
    \A r \in Requests :
        /\ sent[r] + resends[r] <= retries[r] + 1
        /\ sending[r] + datagrams[r] + answers[r] <= sent[r]
        /\ handled[r] <= MaxRetries + 1

(* A caller is told of an answer only when the other node handled the        *)
(* request; an answer that is late or comes again changes nothing.           *)
AnsweredWasHandled ==
    \A r \in Requests : told[r] = "answered" \/ answers[r] > 0 => handled[r] > 0

(* Why the bounds hold.  What is on the way or was handled was sent, and an  *)
(* answer was handled first; a send, or the timer of one, is the first or    *)
(* was counted as a retry.                                                   *)
Counts(r) ==
    /\ sent[r] + resends[r] <= retries[r] + 1
    /\ sending[r] + datagrams[r] + handled[r] <= sent[r]
    /\ answers[r] <= handled[r]
    /\ told[r] = "new" => sent[r] = 0 /\ resends[r] = 0
    /\ told[r] = "answered" => handled[r] > 0

(* The types without the bounds, which follow from the counts. *)
RpcTypes ==
    /\ socket \in {"none", "open", "closing"}
    /\ told \in [Requests -> {"new", "waiting", "answered", "failed"}]
    /\ pending \subseteq Requests /\ timer \subseteq Requests
    /\ retries \in [Requests -> 0..MaxRetries]
    /\ sending \in [Requests -> Nat] /\ resends \in [Requests -> Nat]
    /\ datagrams \in [Requests -> Nat] /\ answers \in [Requests -> Nat]
    /\ handled \in [Requests -> Nat] /\ sent \in [Requests -> Nat]

(* What every step of the requests preserves; the other invariants follow.   *)
RpcInv ==
    /\ RpcTypes
    /\ WaitingIsPending
    /\ \A r \in Requests : Counts(r)

(* The table of requests with its timers and datagrams keeps the promise of  *)
(* RemoteCall.                                                               *)
Promise == INSTANCE RemoteCall WITH MaxHandled <- MaxRetries + 1
KeepsPromise == Promise!CallSpec

(* Every request is settled, whatever the network does and even if the       *)
(* service stops.                                                            *)
EveryCallReturns == \A r \in Requests : told[r] = "waiting" ~> told[r] \in {"answered", "failed"}
=============================================================================
