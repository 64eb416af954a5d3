------------------------------- MODULE Relay -------------------------------
(***************************************************************************)
(* The relay server, packages/p2p/src/relay/server.ts: it routes a message *)
(* to the socket an agent is registered on and keeps it in a per-agent     *)
(* queue when there is none.                                               *)
(*                                                                         *)
(* One event-loop callback is one action.  The registration handler awaits *)
(* the signature check, so it is two: BeginRegister up to the await,       *)
(* FinishRegister or RejectRegister after it.  A socket's readyState turns *)
(* CLOSING when the end of the connection is seen (PeerClose); its close   *)
(* handler runs later (SocketClosed), and messages already buffered may    *)
(* still be read in between.                                               *)
(*                                                                         *)
(* Message identities are the order in which the relay accepts messages,   *)
(* so they also stand for the timestamps the queue records.                *)
(***************************************************************************)
EXTENDS Integers, Sequences, FiniteSets, SequencesExt

CONSTANTS
  Agents,        (* public keys                                          *)
  Sockets,       (* WebSocket connections, each used once                *)
  NoAgent,       (* publicKey = null                                     *)
  NoSocket,      (* no entry in the agents map                           *)
  MaxQueueSize,  (* config.maxQueueSize                                  *)
  MaxMsgs        (* bound: messages the relay is asked to route          *)

ASSUME ConstantsAssumption ==
  /\ NoAgent \notin Agents
  /\ NoSocket \notin Sockets
  /\ MaxQueueSize \in Nat \ {0}
  /\ MaxMsgs \in Nat

VARIABLES
  sock,      (* sock[s]: "idle" before the connection, then the readyState  *)
             (* "open", "closing", and "closed" once the close handler ran  *)
  key,       (* key[s]: the publicKey variable of s's handler               *)
  verifying, (* verifying[s]: keys whose registration awaits its signature  *)
  agents,    (* agents[a]: the socket in the agents map                     *)
  registry,  (* the domain of agentRegistry                                 *)
  queue,     (* queue[a]: messageQueue.get(a), <<>> when absent             *)
  next,      (* identity of the next message                                *)
  horizon,   (* messages up to this one are older than messageRetentionMs   *)
  handed,    (* history: handed[a], messages written to an open socket of a *)
  lost       (* history: lost[a], messages for a dropped unsent             *)

vars == <<sock, key, verifying, agents, registry, queue, next, horizon,
          handed, lost>>

MsgIds == 1..MaxMsgs
Entry == [id : MsgIds, delivered : BOOLEAN]
SockStates == {"idle", "open", "closing", "closed"}

TypeOK ==
  /\ sock \in [Sockets -> SockStates]
  /\ key \in [Sockets -> Agents \cup {NoAgent}]
  /\ verifying \in [Sockets -> SUBSET Agents]
  /\ agents \in [Agents -> Sockets \cup {NoSocket}]
  /\ registry \in SUBSET Agents
  /\ queue \in [Agents -> Seq(Entry)]
  /\ next \in 1..(MaxMsgs + 1)
  /\ horizon \in 0..MaxMsgs
  /\ handed \in [Agents -> SUBSET MsgIds]
  /\ lost \in [Agents -> SUBSET MsgIds]

-----------------------------------------------------------------------------
(* Reading the state                                                       *)

Ready(s) == sock[s] = "open"                     \* readyState === 1
Listening(s) == sock[s] \in {"open", "closing"}  \* messages can still be read

\* routeMessage's condition for sending at once
Online(a) == agents[a] # NoSocket /\ Ready(agents[a])

\* Ids of the entries of q that have not been sent
Waiting(q) == {q[i].id : i \in {j \in DOMAIN q : ~q[j].delivered}}

-----------------------------------------------------------------------------
(* The message queue                                                       *)

RoomDroppingEarly(q) == IF Len(q) + 1 >= MaxQueueSize /\ q # <<>>
                        THEN Tail(q) ELSE q

\* queue.shift() when the limit is reached
MakeRoom(q) == IF Len(q) >= MaxQueueSize THEN Tail(q) ELSE q

QueueAtFront(a) ==
  /\ queue' = [queue EXCEPT ![a] =
                 <<[id |-> next, delivered |-> FALSE]>> \o MakeRoom(@)]
  /\ lost' = [lost EXCEPT ![a] =
                 @ \cup (Waiting(queue[a]) \ Waiting(MakeRoom(queue[a])))]

QueueMessage(a) ==
  /\ queue' = [queue EXCEPT ![a] =
                 Append(MakeRoom(@), [id |-> next, delivered |-> FALSE])]
  /\ lost' = [lost EXCEPT ![a] =
                 @ \cup (Waiting(queue[a]) \ Waiting(MakeRoom(queue[a])))]

MarkDelivered(q) == [i \in DOMAIN q |-> [q[i] EXCEPT !.delivered = TRUE]]

CleanupIgnoringAge(q) ==
  SubSeq(q, Cardinality({i \in DOMAIN q : q[i].delivered}) + 1, Len(q))

\* cleanupQueue: drop what is delivered and older than the retention.  Queue
\* entries are in the order of their timestamps, so these are the first ones.
Cleanup(q) ==
  LET purged == {i \in DOMAIN q : q[i].delivered /\ q[i].id <= horizon}
  IN  SubSeq(q, Cardinality(purged) + 1, Len(q))

DeliverWithoutReadyCheck(a, s) ==
  /\ queue' = [queue EXCEPT ![a] = Cleanup(MarkDelivered(@))]
  /\ handed' = [handed EXCEPT ![a] =
                  IF Ready(s) THEN @ \cup Waiting(queue[a]) ELSE @]

\* deliverQueuedMessages, called with s just stored as a's socket
DeliverQueued(a, s) ==
  IF Ready(s)
  THEN /\ handed' = [handed EXCEPT ![a] = @ \cup Waiting(queue[a])]
       /\ queue' = [queue EXCEPT ![a] = Cleanup(MarkDelivered(@))]
  ELSE UNCHANGED <<queue, handed>>

-----------------------------------------------------------------------------
(* Actions                                                                 *)

Connect(s) ==
  /\ sock[s] = "idle"
  /\ sock' = [sock EXCEPT ![s] = "open"]
  /\ UNCHANGED <<key, verifying, agents, registry, queue, next, horizon,
                 handed, lost>>

\* A register message passed the size, card and rate checks (which change
\* nothing here when they refuse) and its signature is being verified.
BeginRegister(s, a) ==
  /\ Listening(s)
  /\ a \notin verifying[s]
  /\ verifying' = [verifying EXCEPT ![s] = @ \cup {a}]
  /\ UNCHANGED <<sock, key, agents, registry, queue, next, horizon, handed,
                 lost>>

\* The signature is wrong or the timestamp out of its window: only an error
\* is sent.
RejectRegister(s, a) ==
  /\ a \in verifying[s]
  /\ verifying' = [verifying EXCEPT ![s] = @ \ {a}]
  /\ UNCHANGED <<sock, key, agents, registry, queue, next, horizon, handed,
                 lost>>

\* The signature is good.  Nothing looks at the socket again, which may have
\* closed during the await.
FinishRegister(s, a) ==
  /\ a \in verifying[s]
  /\ verifying' = [verifying EXCEPT ![s] = @ \ {a}]
  /\ key' = [key EXCEPT ![s] = a]
  /\ agents' = [agents EXCEPT ![a] = s]
  /\ registry' = registry \cup {a}
  /\ DeliverQueued(a, s)
  /\ UNCHANGED <<sock, next, horizon, lost>>

RouteMessage(to) ==
  /\ next <= MaxMsgs
  /\ next' = next + 1
  /\ \/ /\ Online(to)
        /\ handed' = [handed EXCEPT ![to] = @ \cup {next}]
        /\ UNCHANGED <<queue, lost>>
     \/ /\ ~Online(to)
        /\ QueueMessage(to)
        /\ UNCHANGED handed

\* A message frame on a socket that has registered
SocketMessage(s, to) ==
  /\ Listening(s)
  /\ key[s] # NoAgent
  /\ RouteMessage(to)
  /\ UNCHANGED <<sock, key, verifying, agents, registry, horizon>>

\* POST /jsonrpc, method message/send: no socket and no registration needed
JsonRpcSend(to) ==
  /\ RouteMessage(to)
  /\ UNCHANGED <<sock, key, verifying, agents, registry, horizon>>

PeerClose(s) ==
  /\ sock[s] = "open"
  /\ sock' = [sock EXCEPT ![s] = "closing"]
  /\ UNCHANGED <<key, verifying, agents, registry, queue, next, horizon,
                 handed, lost>>

\* The close handler deletes the entry of its key, whichever socket it holds
SocketClosed(s) ==
  /\ sock[s] = "closing"
  /\ sock' = [sock EXCEPT ![s] = "closed"]
  /\ agents' = IF key[s] = NoAgent THEN agents
               ELSE [agents EXCEPT ![key[s]] = NoSocket]
  /\ UNCHANGED <<key, verifying, registry, queue, next, horizon, handed, lost>>

\* Time passes: one more message becomes older than the retention period
Age ==
  /\ horizon + 1 < next
  /\ horizon' = horizon + 1
  /\ UNCHANGED <<sock, key, verifying, agents, registry, queue, next, handed,
                 lost>>

\* stop() or a crash and a new RelayServer: every map is in memory only
Restart ==
  /\ sock' = [s \in Sockets |-> IF sock[s] = "idle" THEN "idle" ELSE "closed"]
  /\ key' = [s \in Sockets |-> NoAgent]
  /\ verifying' = [s \in Sockets |-> {}]
  /\ agents' = [a \in Agents |-> NoSocket]
  /\ registry' = {}
  /\ queue' = [a \in Agents |-> <<>>]
  /\ lost' = [a \in Agents |-> lost[a] \cup Waiting(queue[a])]
  /\ UNCHANGED <<next, horizon, handed>>

-----------------------------------------------------------------------------
Init ==
  /\ sock = [s \in Sockets |-> "idle"]
  /\ key = [s \in Sockets |-> NoAgent]
  /\ verifying = [s \in Sockets |-> {}]
  /\ agents = [a \in Agents |-> NoSocket]
  /\ registry = {}
  /\ queue = [a \in Agents |-> <<>>]
  /\ next = 1
  /\ horizon = 0
  /\ handed = [a \in Agents |-> {}]
  /\ lost = [a \in Agents |-> {}]

Next ==
  \/ \E s \in Sockets : Connect(s)
  \/ \E s \in Sockets, a \in Agents : BeginRegister(s, a)
  \/ \E s \in Sockets, a \in Agents : RejectRegister(s, a)
  \/ \E s \in Sockets, a \in Agents : FinishRegister(s, a)
  \/ \E s \in Sockets, to \in Agents : SocketMessage(s, to)
  \/ \E to \in Agents : JsonRpcSend(to)
  \/ \E s \in Sockets : PeerClose(s)
  \/ \E s \in Sockets : SocketClosed(s)
  \/ Age
  \/ Restart

Spec == Init /\ [][Next]_vars

-----------------------------------------------------------------------------
(* Safety                                                                  *)

\* While the agents map points at an open socket of a, every entry left in
\* a's queue was sent: deliverQueuedMessages runs in the same callback that
\* stores the socket, and routeMessage queues only when that socket is not
\* open.
NoStranded == \A a \in Agents : Online(a) => Waiting(queue[a]) = {}

\* No message overtakes an earlier one for the same agent, over any number of
\* disconnections: what was written to a's sockets is older than all that
\* still waits, and what waits is in the order it was accepted.  A message is
\* therefore never sent twice.
NoOvertaking ==
  \A a \in Agents :
    /\ \A m \in handed[a], w \in Waiting(queue[a]) : m < w
    /\ \A i, j \in DOMAIN queue[a] : i < j => queue[a][i].id < queue[a][j].id

\* The oldest-first shift of queueMessage always meets the delivered entries
\* that the retention period keeps in the queue before any waiting one.
DeliveredFirst ==
  \A a \in Agents : \A i, j \in DOMAIN queue[a] :
    i < j /\ queue[a][j].delivered => queue[a][i].delivered

\* queueMessage never lets a queue grow past maxQueueSize.
QueueBounded == \A a \in Agents : Len(queue[a]) <= MaxQueueSize

\* Every message the relay accepted was written to an open socket, still
\* waits, or was given up in the only two ways there are: nothing disappears
\* between a registration, a close and the queue.
NothingDisappears ==
  \A m \in 1..(next - 1) : \E a \in Agents :
    m \in handed[a] \cup Waiting(queue[a]) \cup lost[a]

\* While the relay keeps running, a waiting message is given up only for a
\* newer one, when the whole queue is waiting messages: what the queue keeps
\* of delivered ones never costs an undelivered one its place.
LostOnlyToOverflow ==
  [][\A a \in Agents : lost'[a] # lost[a] =>
       \/ queue'[a] = <<>>
       \/ /\ Cardinality(Waiting(queue[a])) = MaxQueueSize
          /\ \A m \in lost'[a] \ lost[a] : \A w \in Waiting(queue[a]) : m <= w
    ]_vars

\* A socket in the agents map, or with a registration in progress, was opened:
\* none of them can become open again once it is not.
SocketsWereOpened ==
  /\ \A a \in Agents : agents[a] # NoSocket => sock[agents[a]] # "idle"
  /\ \A s \in Sockets : verifying[s] # {} => sock[s] # "idle"

\* Everything the relay holds or gave away it had accepted before.
IdsInThePast ==
  \A a \in Agents :
    /\ \A m \in handed[a] \cup lost[a] : m < next
    /\ \A i \in DOMAIN queue[a] : queue[a][i].id < next

\* cleanupQueue as the code writes it: a filter.
Filtered(q) ==
  FoldLeft(LAMBDA kept, e : IF e.delivered /\ e.id <= horizon THEN kept ELSE Append(kept, e),
           <<>>, q)

\* Cleanup is written as a suffix of the queue.  On every queue the relay
\* hands to cleanupQueue, all delivered and in the order of the timestamps,
\* the filter leaves the same: what is purged are the oldest entries.
CleanupIsTheFilter ==
  \A a \in Agents : Cleanup(MarkDelivered(queue[a])) = Filtered(MarkDelivered(queue[a]))

\* What every handler may rely on when it starts: the inductive invariant
\* from which the properties above and the implementation of Mailbox follow.
RelayInv ==
  /\ TypeOK
  /\ SocketsWereOpened
  /\ IdsInThePast
  /\ NoStranded
  /\ NoOvertaking
  /\ DeliveredFirst
  /\ QueueBounded
  /\ NothingDisappears

\* The relay implements one mailbox per agent of capacity maxQueueSize: a
\* message is forwarded at once only to an agent nothing waits for, a
\* registration hands over everything that waits, and nothing else moves.
Promise == INSTANCE Mailbox WITH
             Capacity <- MaxQueueSize,
             waiting <- [a \in Agents |-> Waiting(queue[a])]

MailboxSpec == Promise!Spec

-----------------------------------------------------------------------------
(* What the source says and the code does not do                           *)

\* routeMessage: "Recipient is offline, queue the message".  So when a message
\* is queued, it is not the case that the recipient's only remaining connection
\* is open and registered as the recipient.
HasOneOpenConnection(a) ==
  \E s \in Sockets :
    /\ Ready(s)
    /\ key[s] = a
    /\ \A t \in Sockets \ {s} : key[t] = a => sock[t] = "closed"

QueuedOnlyWhenOffline ==
  [][\A a \in Agents :
       Waiting(queue'[a]) \ Waiting(queue[a]) # {} =>
         ~HasOneOpenConnection(a)]_vars
=============================================================================
