----------------------------- MODULE EventStream -----------------------------
(* The SSE broadcaster, packages/p2p/src/integration/sse-broadcaster.ts: a   *)
(* Map of clients by an id that is made of the conversation, the participant *)
(* and the millisecond, so that two connections may have the same one.  A    *)
(* write may throw at any time; one that throws disconnects the client.      *)
(* Content and the comments of the heartbeat are left out.                   *)
EXTENDS Naturals, FiniteSets, Functions

CONSTANTS
    Streams,     \* responses, one for each connection
    ClientIds,   \* <<conversationId, participantId, millisecond>>
    MaxClients,  \* config.maxClients
    MaxEventId   \* bound: events sent

ASSUME StreamAssumption ==
    /\ \A i \in ClientIds : DOMAIN i = 1..3 /\ i[3] \in Nat
    /\ MaxClients \in Nat /\ MaxEventId \in Nat /\ IsFiniteSet(ClientIds)

VARIABLES
    clients,     \* the Map: its ids -> streams
    named,       \* streams that connected -> the id in their close handler
    open,        \* streams that neither side has ended
    closed,      \* streams whose request had its close event
    lastEventId, \* stream -> the last event it received, 0 before any
    view,        \* stream -> the last state of the conversation it was told
    eventCounter,
    beating      \* the heartbeat's interval is set

streamVars == <<clients, named, open, closed, lastEventId, view, eventCounter, beating>>

StreamTypeOK ==
    /\ DOMAIN clients \subseteq ClientIds /\ clients \in [DOMAIN clients -> Streams]
    /\ DOMAIN named \subseteq Streams /\ named \in [DOMAIN named -> ClientIds]
    /\ open \cup closed \subseteq DOMAIN named /\ open \cap closed = {}
    /\ eventCounter \in 0..MaxEventId
    /\ lastEventId \in [Streams -> 0..eventCounter]
    /\ view \in [Streams -> {"none", "active", "paused", "redirected", "terminated"}]
    /\ beating \in BOOLEAN

StreamInit ==
    /\ clients = [i \in {} |-> 0]
    /\ named = [s \in {} |-> 0]
    /\ open = {} /\ closed = {}
    /\ lastEventId = [s \in Streams |-> 0]
    /\ view = [s \in Streams |-> "none"]
    /\ eventCounter = 0
    /\ beating = FALSE

Without(f, S) == Restrict(f, DOMAIN f \ S)

Entry(f, x, y) == [z \in DOMAIN f \cup {x} |-> IF z = x THEN y ELSE f[z]]

RemovedOnly(ids) == clients' = Without(clients, ids) /\ UNCHANGED open

(* disconnect: by id, whichever connection holds it. *)
Disconnected(ids) ==
    /\ clients' = Without(clients, ids)
    /\ open' = open \ {clients[i] : i \in ids \cap DOMAIN clients}

NextEventId(n) == eventCounter + n

(* n events to the clients of these ids; those whose write throws are        *)
(* disconnected.  A client that fails at one of them is as one that fails at *)
(* the first: nobody looks at a stream that has ended.                       *)
SendTo(ids, n, told) ==
    LET counter == NextEventId(n) IN
    /\ counter <= MaxEventId
    /\ eventCounter' = counter
    /\ \E failing \in SUBSET ids :
         /\ Disconnected(failing)
         /\ LET reached == {clients[i] : i \in ids \ failing} IN
            /\ lastEventId' = [s \in Streams |-> IF s \in reached THEN counter ELSE lastEventId[s]]
            /\ view' = [s \in Streams |-> IF s \in reached THEN told[s] ELSE view[s]]
    /\ UNCHANGED <<named, closed, beating>>

ClientsForConversation(conv) == {i \in DOMAIN clients : i[1] = conv}

ClientsByParticipant(conv, p) == {i \in ClientsForConversation(conv) : i[2] = p}

(* n events of the conversation; told is what its state is said to be. *)
BroadcastToConversation(conv, n, told) ==
    SendTo(ClientsForConversation(conv), n, told)

BroadcastState(conv, n, state) ==
    BroadcastToConversation(conv, n, [s \in Streams |-> state])

NotifyInterventionRequest(conv, participants) ==
    LET ids == UNION {ClientsByParticipant(conv, p) : p \in participants} IN
    SendTo(ids, Cardinality(ids), view)

AtLimit == Cardinality(DOMAIN clients) >= MaxClients

(* handleConnection, where the handler of new connections sends the state    *)
(* (after an id that nobody else has, so "connected" follows at once) and    *)
(* either write may throw: the id is then disconnected, and the response of  *)
(* the connection it replaced, if any, is left as it is.                     *)
HandleConnection(s, i, state) ==
    LET n == IF state = "none" THEN 1 ELSE 2 IN
    /\ s \notin DOMAIN named
    /\ \A t \in DOMAIN named : named[t][3] <= i[3]
    /\ ~AtLimit
    /\ eventCounter + n <= MaxEventId
    /\ eventCounter' = eventCounter + n
    /\ named' = Entry(named, s, i)
    /\ \/ /\ clients' = Entry(clients, i, s)
          /\ open' = open \cup {s}
          /\ lastEventId' = [lastEventId EXCEPT ![s] = eventCounter + n]
          /\ view' = [view EXCEPT ![s] = state]
       \/ /\ clients' = Without(clients, {i})
          /\ UNCHANGED <<open, lastEventId, view>>
    /\ UNCHANGED <<closed, beating>>

RefuseConnection(s) ==
    /\ s \notin DOMAIN named /\ AtLimit
    /\ UNCHANGED streamVars

(* The close event of the request, once either side has ended it.            *)
Close(s) ==
    /\ s \in DOMAIN named \ closed
    /\ closed' = closed \cup {s}
    /\ clients' = Without(clients, {named[s]})
    /\ open' = open \ ({s} \cup {clients[i] : i \in {named[s]} \cap DOMAIN clients})
    /\ UNCHANGED <<named, lastEventId, view, eventCounter, beating>>

Disconnect(i) ==
    /\ i \in DOMAIN clients
    /\ Disconnected({i})
    /\ UNCHANGED <<named, closed, lastEventId, view, eventCounter, beating>>

StartHeartbeat ==
    /\ ~beating
    /\ beating' = TRUE
    /\ UNCHANGED <<clients, named, open, closed, lastEventId, view, eventCounter>>

StopHeartbeat ==
    /\ beating
    /\ beating' = FALSE
    /\ UNCHANGED <<clients, named, open, closed, lastEventId, view, eventCounter>>

(* The interval: those whose write throws are disconnected. *)
Heartbeat ==
    /\ beating
    /\ \E failing \in SUBSET DOMAIN clients : Disconnected(failing)
    /\ UNCHANGED <<named, closed, lastEventId, view, eventCounter, beating>>

(* destroy: stopHeartbeat and disconnectAll. *)
DestroyStreams ==
    /\ beating' = FALSE
    /\ Disconnected(DOMAIN clients)
    /\ UNCHANGED <<named, closed, lastEventId, view, eventCounter>>

StreamNext ==
    \/ \E s \in Streams :
         \/ \E i \in ClientIds : HandleConnection(s, i, "active")
         \/ RefuseConnection(s)
         \/ Close(s)
    \/ \E i \in ClientIds :
         \/ Disconnect(i)
         \/ BroadcastToConversation(i[1], 1, view)
         \/ NotifyInterventionRequest(i[1], {i[2]})
    \/ StartHeartbeat \/ StopHeartbeat \/ Heartbeat \/ DestroyStreams

StreamSpec == StreamInit /\ [][StreamNext]_streamVars

(* An open response that no entry of the Map holds, and which will hear      *)
(* nothing again, is one whose id another connection of the same millisecond *)
(* took: no order of failed writes, closes and disconnections forgets any    *)
(* other.  The connection that took the id may be gone by then.              *)
UnheardWasReplaced ==
    \A s \in open :
        s \in Range(clients) \/ \E t \in DOMAIN named \ {s} : named[t] = named[s]

(* The limit holds for the responses that are served, though connections     *)
(* with an id in use are counted with the one they replace.                  *)
ClientsBounded ==
    /\ Cardinality(DOMAIN clients) <= MaxClients
    /\ \A i \in DOMAIN clients : clients[i] \in open /\ named[clients[i]] = i

(* The Map holds those that are served, and forgets nobody else.             *)
StreamInv ==
    /\ StreamTypeOK
    /\ UnheardWasReplaced
    /\ ClientsBounded

(* A client sees each id once, and ids that grow, whether an event is sent   *)
(* to it alone or to the conversation: a later event never has an id that it *)
(* would skip as one it has seen.                                            *)
IdsGrow ==
    /\ \A s \in Streams : lastEventId'[s] >= lastEventId[s]
    /\ \A s \in Streams :
         lastEventId'[s] # lastEventId[s] => lastEventId'[s] > eventCounter
=============================================================================
