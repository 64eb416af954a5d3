---------------------------- MODULE NodeDiscovery ----------------------------
(* How a node finds others without the DHT: over bootstrap nodes, and on the *)
(* local network.  The two share no state.                                   *)
EXTENDS Naturals, Sequences, FiniteSets

-----------------------------------------------------------------------------
(* Discovery over bootstrap nodes, packages/p2p/src/bootstrap/discovery.ts,  *)
(* with the list of nodes that BootstrapConfigManager of config.ts keeps.    *)
(* One call of discoverPeers asks several nodes in parallel; one of announce *)
(* tells one node after another, and rates each.  A reliability is a number  *)
(* of thousandths, and peers are what the nodes name in their answers.       *)

CONSTANTS
    DefaultNodes,    \* config.nodes
    CustomNodes,     \* those addNode may add
    KnownPeers,      \* peers that answers name
    MaxQueried,      \* config.maxRetries
    MinNodes,        \* config.minNodes
    StaleAfter,      \* 24 hours, in ticks
    MaxAnnounces,    \* bound: calls of announce
    MaxBootClock     \* bound: the clock

ASSUME BootAssumption ==
    /\ DefaultNodes \cap CustomNodes = {}
    /\ {MaxQueried, MinNodes, StaleAfter, MaxAnnounces, MaxBootClock} \subseteq Nat
    /\ IsFiniteSet(DefaultNodes) /\ IsFiniteSet(CustomNodes)

VARIABLES
    bootClock,
    nodes,        \* node -> [seen, reliability], of the nodes in either list
    query,        \* node -> its query, of the call of discoverPeers under way
    found,        \* node -> the peers it answered with
    discovery,    \* "idle", "asking" or what the call returned
    toTell,       \* nodes that announce has still to tell, the first one being told
    told,         \* announcedTo
    announces     \* calls of announce

bootVars == <<bootClock, nodes, query, found, discovery, toTell, told, announces>>

BootNodes == DefaultNodes \cup CustomNodes

Unseen == MaxBootClock + 1

QueryStates == {"none", "opening", "asked", "unanswered", "answered", "rejected"}

BootTypeOK ==
    /\ bootClock \in 0..MaxBootClock
    /\ DefaultNodes \subseteq DOMAIN nodes /\ DOMAIN nodes \subseteq BootNodes
    /\ nodes \in [DOMAIN nodes -> [seen : 0..bootClock \cup {Unseen}, reliability : 0..1000]]
    /\ query \in [BootNodes -> QueryStates] /\ found \in [BootNodes -> SUBSET KnownPeers]
    /\ discovery \in {"idle", "asking", "success", "failure"}
    /\ toTell \in Seq(BootNodes) /\ Len(toTell) <= 3
    /\ told \subseteq BootNodes /\ announces \in 0..MaxAnnounces

BootInit ==
    /\ bootClock = 0
    /\ nodes = [n \in DefaultNodes |-> [seen |-> Unseen, reliability |-> 990]]
    /\ query = [n \in BootNodes |-> "none"] /\ found = [n \in BootNodes |-> {}]
    /\ discovery = "idle"
    /\ toTell = <<>> /\ told = {} /\ announces = 0

-----------------------------------------------------------------------------
(* BootstrapConfigManager                                                  *)

(* getNodes *)
GetNodes == {n \in DOMAIN nodes : nodes[n].seen = Unseen \/ bootClock - nodes[n].seen < StaleAfter}

(* getNodesByReliability, cut to its first ones: any order of equal ones.    *)
BestNodes(size) ==
    LET n == IF Cardinality(GetNodes) < size THEN Cardinality(GetNodes) ELSE size IN
    {s \in [1..n -> GetNodes] :
       /\ \A i, j \in 1..n : i < j => s[i] # s[j] /\ nodes[s[i]].reliability >= nodes[s[j]].reliability
       /\ \A m \in GetNodes : (\A i \in 1..n : s[i] # m) =>
            \A i \in 1..n : nodes[s[i]].reliability >= nodes[m].reliability}

AddNode(n) ==
    /\ n \in CustomNodes
    /\ nodes' = [m \in DOMAIN nodes \cup {n} |->
                   IF m = n THEN [seen |-> bootClock, reliability |-> 500] ELSE nodes[m]]
    /\ UNCHANGED <<bootClock, query, found, discovery, toTell, told, announces>>

RemoveNode(n) ==
    /\ n \in CustomNodes \cap DOMAIN nodes
    /\ nodes' = [m \in DOMAIN nodes \ {n} |-> nodes[m]]
    /\ UNCHANGED <<bootClock, query, found, discovery, toTell, told, announces>>

(* The exponential moving average, of weight one tenth. *)
Rated(r, success) == (9 * r + (IF success THEN 1000 ELSE 0)) \div 10

(* updateReliability: a failure counts as seen as well. *)
UpdateReliability(n, success) ==
    nodes' = IF n \notin DOMAIN nodes THEN nodes
             ELSE [nodes EXCEPT ![n] = [seen |-> bootClock, reliability |-> Rated(@.reliability, success)]]

-----------------------------------------------------------------------------
(* discoverPeers                                                           *)

Asked == {n \in BootNodes : query[n] # "none"}

(* The call begins: a query of each of the best nodes. *)
DiscoverPeers ==
    /\ discovery = "idle"
    /\ IF GetNodes = {} THEN discovery' = "failure" /\ UNCHANGED query
       ELSE \E best \in BestNodes(MaxQueried) :
              /\ discovery' = "asking"
              /\ query' = [n \in BootNodes |-> IF \E i \in DOMAIN best : best[i] = n
                                               THEN "opening" ELSE "none"]
    /\ UNCHANGED <<bootClock, nodes, found, toTell, told, announces>>

(* The query of n goes on to this state. *)
QueryBecomes(n, to) ==
    /\ query' = [query EXCEPT ![n] = to]
    /\ UNCHANGED <<bootClock, nodes, discovery, toTell, told, announces>>

QueryOpens(n) == query[n] = "opening" /\ QueryBecomes(n, "asked") /\ UNCHANGED found

(* A message of "peers". *)
Answers(n) ==
    /\ query[n] \in {"asked", "unanswered"} /\ QueryBecomes(n, "answered")
    /\ \E S \in SUBSET KnownPeers : found' = [found EXCEPT ![n] = S]

(* A message of "error" or no JSON, or an error of the socket. *)
Refuses(n) ==
    /\ query[n] \in {"opening", "asked", "unanswered"} /\ QueryBecomes(n, "rejected")
    /\ UNCHANGED found

(* A message of another type: it clears the timer and settles nothing. *)
SaysOtherwise(n) ==
    /\ query[n] \in {"asked", "unanswered"} /\ QueryBecomes(n, "unanswered") /\ UNCHANGED found

QueryTimesOut(n) ==
    /\ query[n] \in {"opening", "asked"} /\ QueryBecomes(n, "rejected") /\ UNCHANGED found

AllSettledOnceFound == \A n \in Asked : query[n] = "rejected" \/ \E m \in Asked : query[m] = "answered"

(* Promise.allSettled *)
AllSettled == \A n \in Asked : query[n] \in {"answered", "rejected"}

(* What the call returns; deduplicatePeers makes a set of the answers. *)
Discovered ==
    /\ discovery = "asking" /\ AllSettled
    /\ discovery' = IF Cardinality(UNION {found[n] : n \in Asked}) >= MinNodes
                    THEN "success" ELSE "failure"
    /\ UNCHANGED <<bootClock, nodes, query, found, toTell, told, announces>>

-----------------------------------------------------------------------------
(* announce                                                                *)

AnnounceToBest ==
    /\ toTell = <<>> /\ announces < MaxAnnounces
    /\ \E best \in BestNodes(3) : toTell' = best
    /\ announces' = announces + 1 /\ told' = {}
    /\ UNCHANGED <<bootClock, nodes, query, found, discovery>>

(* announceToNode settles for the node that is being told, by "announced",   *)
(* or by "error", an error of the socket or the timer; then comes the next.  *)
NodeTold(success) ==
    /\ toTell # <<>>
    /\ UpdateReliability(Head(toTell), success)
    /\ told' = IF success THEN told \cup {Head(toTell)} ELSE told
    /\ toTell' = Tail(toTell)
    /\ UNCHANGED <<bootClock, query, found, discovery, announces>>

BootTimePasses ==
    /\ bootClock < MaxBootClock /\ bootClock' = bootClock + 1
    /\ UNCHANGED <<nodes, query, found, discovery, toTell, told, announces>>

BootNext ==
    \/ DiscoverPeers \/ Discovered \/ AnnounceToBest \/ BootTimePasses
    \/ \E n \in BootNodes :
         \/ AddNode(n) \/ RemoveNode(n)
         \/ QueryOpens(n) \/ Answers(n) \/ Refuses(n) \/ SaysOtherwise(n) \/ QueryTimesOut(n)
    \/ \E success \in BOOLEAN : NodeTold(success)

BootSpec == BootInit /\ [][BootNext]_bootVars

(* Timers fire, and a call whose queries are settled goes on. *)
BootFairness ==
    /\ \A n \in BootNodes : WF_bootVars(QueryTimesOut(n))
    /\ WF_bootVars(Discovered)

-----------------------------------------------------------------------------
(* A call that returned has settled all its queries, and with them closed    *)
(* their sockets; and it is a success only if so many peers are named by     *)
(* nodes that answered.                                                      *)
SettledWhenReturned ==
    discovery \in {"success", "failure"} =>
      /\ \A n \in Asked : query[n] \notin {"opening", "asked", "unanswered"}
      /\ discovery = "success" =>
           Cardinality(UNION {found[n] : n \in {m \in Asked : query[m] = "answered"}}) >= MinNodes

(* Peers are named by a node that answered and by no other one, and nothing  *)
(* is asked before there is a call.                                          *)
NamedByAnswers ==
    /\ \A n \in BootNodes : found[n] # {} => query[n] = "answered"
    /\ discovery = "idle" => Asked = {}

(* A discovery that returned left nothing under way.                         *)
BootInv ==
    /\ BootTypeOK
    /\ SettledWhenReturned
    /\ NamedByAnswers

(* discoverPeers returns, unless a node answered with something that is      *)
(* neither peers nor an error: that clears the timer, and the call may wait  *)
(* for ever.                                                                 *)
DiscoveryReturns ==
    discovery = "asking" ~>
      \/ discovery # "asking"
      \/ \E n \in BootNodes : query[n] = "unanswered"

-----------------------------------------------------------------------------
(* Discovery on the local network, MDNSDiscovery of packages/p2p/src/        *)
(* discovery/mdns.ts: several services that announce themselves to a         *)
(* multicast group, answer requests, say goodbye and forget nodes of which   *)
(* nothing was heard.  Datagrams may be lost, delayed, reordered and         *)
(* delivered twice, and each service hears its own.                          *)

CONSTANTS
    Services,        \* the services, named by their nodeIds
    DiscoveryTTL,    \* config.discoveryTTL, in ticks
    MaxStarts,       \* bound: starts of a service
    MaxLocalClock,   \* bound: the clock
    MaxDatagrams     \* bound: datagrams under way

ASSUME LocalAssumption ==
    {DiscoveryTTL, MaxStarts, MaxLocalClock, MaxDatagrams} \subseteq Nat

VARIABLES
    localClock,
    marked,      \* services whose flag `running` is set
    socket,       \* service -> "none", "binding", "bound" or "failed"
    nextCleanup,  \* service -> when its cleanup timer fires, Off when not set
    announcing,   \* service -> when its announcement timer was set, Off when not
    heardAt,      \* service -> its discoveredNodes: node -> discoveredAt
    datagrams,    \* datagrams under way: [type, from, to]
    started       \* service -> starts

localVars == <<localClock, marked, socket, nextCleanup, announcing, heardAt, datagrams, started>>

Off == MaxLocalClock + DiscoveryTTL + 1

Datagrams == [type : {"announce", "discover", "response", "goodbye"}, from : Services, to : Services]

LocalTypeOK ==
    /\ localClock \in 0..MaxLocalClock
    /\ marked \subseteq Services /\ announcing \in [Services -> 0..MaxLocalClock \cup {Off}]
    /\ socket \in [Services -> {"none", "binding", "bound", "failed"}]
    /\ nextCleanup \in [Services -> 0..Off]
    /\ DOMAIN heardAt = Services
    /\ \A s \in Services :
         DOMAIN heardAt[s] \subseteq Services /\ heardAt[s] \in [DOMAIN heardAt[s] -> 0..localClock]
    /\ datagrams \subseteq Datagrams
    /\ started \in [Services -> 0..MaxStarts]

LocalInit ==
    /\ localClock = 0 /\ marked = {} /\ datagrams = {}
    /\ socket = [s \in Services |-> "none"]
    /\ nextCleanup = [s \in Services |-> Off] /\ announcing = [s \in Services |-> Off]
    /\ heardAt = [s \in Services |-> [t \in {} |-> 0]]
    /\ started = [s \in Services |-> 0]

-----------------------------------------------------------------------------
(* send: to the group, where any of the datagrams may be lost. *)
Sent(s, types) == {d \in Datagrams : d.from = s /\ d.type \in types}

SendBeside(others, s, types) ==
    \E lost \in SUBSET Sent(s, types) :
      LET under == others \cup (Sent(s, types) \ lost) IN
      Cardinality(under) <= MaxDatagrams /\ datagrams' = under

SendAll(s, types) == SendBeside(datagrams, s, types)

(* start, up to the await of bind. *)
StartService(s) ==
    /\ s \notin marked /\ started[s] < MaxStarts
    /\ started' = [started EXCEPT ![s] = @ + 1]
    /\ marked' = marked \cup {s}
    /\ socket' = [socket EXCEPT ![s] = "binding"]
    /\ UNCHANGED <<localClock, nextCleanup, announcing, heardAt, datagrams>>

(* The socket is bound: the timers, and what is sent at once.                *)
Bound(s) ==
    /\ socket[s] = "binding"
    /\ socket' = [socket EXCEPT ![s] = "bound"]
    /\ announcing' = [announcing EXCEPT ![s] = localClock]
    /\ nextCleanup' = [nextCleanup EXCEPT ![s] = localClock + DiscoveryTTL]
    /\ SendAll(s, {"announce", "discover"})
    /\ UNCHANGED <<localClock, marked, heardAt, started>>

(* start is rejected, and the service remains marked as running. *)
BindFails(s) ==
    /\ socket[s] = "binding"
    /\ socket' = [socket EXCEPT ![s] = "failed"]
    /\ UNCHANGED <<localClock, marked, nextCleanup, announcing, heardAt, datagrams, started>>

TimersCleared(s) ==
    /\ announcing' = [announcing EXCEPT ![s] = Off]
    /\ nextCleanup' = [nextCleanup EXCEPT ![s] = Off]

(* stop.  What was discovered is kept; a start that awaits its bind waits    *)
(* for ever.                                                                 *)
StopService(s) ==
    /\ s \in marked
    /\ marked' = marked \ {s}
    /\ socket' = [socket EXCEPT ![s] = "none"]
    /\ TimersCleared(s)
    /\ SendAll(s, {"goodbye"})
    /\ UNCHANGED <<localClock, heardAt, started>>

(* The announcement timer. *)
AnnounceLocally(s) ==
    /\ announcing[s] # Off /\ SendAll(s, {"announce"})
    /\ UNCHANGED <<localClock, marked, socket, nextCleanup, announcing, heardAt, started>>

-----------------------------------------------------------------------------
(* addNode *)
HeardNow(s, t) ==
    [heardAt EXCEPT ![s] = [u \in DOMAIN @ \cup {t} |-> IF u = t THEN localClock ELSE @[u]]]

HeardExcept(s, gone) ==
    [heardAt EXCEPT ![s] = [u \in DOMAIN @ \ gone |-> @[u]]]

(* Our own datagrams are ignored. *)
Ours(s, d) == d.from = s

(* handleMessage, of a datagram that is under way again or not.  A response   *)
(* goes to the whole group.                                                  *)
HandleMessage(d, others) ==
    LET s == d.to IN
    /\ d \in datagrams /\ socket[s] = "bound"
    /\ IF Ours(s, d) THEN UNCHANGED heardAt /\ datagrams' = others
       ELSE CASE d.type \in {"announce", "response"} ->
                   heardAt' = HeardNow(s, d.from) /\ datagrams' = others
              [] d.type = "discover" -> SendBeside(others, s, {"response"}) /\ UNCHANGED heardAt
              [] d.type = "goodbye" ->
                   heardAt' = HeardExcept(s, {d.from}) /\ datagrams' = others
    /\ UNCHANGED <<localClock, marked, socket, nextCleanup, announcing, started>>

(* The network forgets a datagram. *)
DatagramGone(d) ==
    /\ d \in datagrams /\ datagrams' = datagrams \ {d}
    /\ UNCHANGED <<localClock, marked, socket, nextCleanup, announcing, heardAt, started>>

IsExpiredLate(s, t) == localClock - heardAt[s][t] > 2 * DiscoveryTTL

IsExpired(s, t) == localClock - heardAt[s][t] > DiscoveryTTL

(* cleanup, every DiscoveryTTL. *)
Cleanup(s) ==
    /\ nextCleanup[s] = localClock
    /\ heardAt' = HeardExcept(s, {t \in DOMAIN heardAt[s] : IsExpired(s, t)})
    /\ nextCleanup' = [nextCleanup EXCEPT ![s] = @ + DiscoveryTTL]
    /\ UNCHANGED <<localClock, marked, socket, announcing, datagrams, started>>

(* Timers that are due fire before time goes on. *)
LocalTimePasses ==
    /\ localClock < MaxLocalClock
    /\ \A s \in Services : nextCleanup[s] # localClock
    /\ localClock' = localClock + 1
    /\ UNCHANGED <<marked, socket, nextCleanup, announcing, heardAt, datagrams, started>>

LocalNext ==
    \/ \E s \in Services :
         StartService(s) \/ Bound(s) \/ BindFails(s) \/ StopService(s) \/ AnnounceLocally(s) \/ Cleanup(s)
    \/ \E d \in datagrams :
         HandleMessage(d, datagrams) \/ HandleMessage(d, datagrams \ {d}) \/ DatagramGone(d)
    \/ LocalTimePasses

LocalSpec == LocalInit /\ [][LocalNext]_localVars

-----------------------------------------------------------------------------
(* No node is in the list of a running service that was not heard of for     *)
(* twice the TTL, whatever was lost or came late; only one that started anew *)
(* may remember older ones until its first cleanup.                          *)
ForgottenInTime ==
    \A s \in Services : \A t \in DOMAIN heardAt[s] :
      \/ announcing[s] = Off
      \/ localClock - heardAt[s][t] <= 2 * DiscoveryTTL
      \/ started[s] > 1 /\ localClock - announcing[s] <= DiscoveryTTL

(* No service discovers itself, though the group delivers what it sent, even *)
(* after it was started again.                                               *)
NeverItself == \A s \in Services : s \notin DOMAIN heardAt[s]

(* A service has timers exactly while its socket is bound, and one that is   *)
(* stopped has neither: nothing of a start or a stop in the middle of the    *)
(* other is left over.                                                       *)
TimersNeedSocket ==
    \A s \in Services :
      /\ announcing[s] # Off <=> socket[s] = "bound"
      /\ nextCleanup[s] # Off <=> announcing[s] # Off
      /\ s \notin marked => socket[s] = "none"

(* While the timers run, the next cleanup comes within the TTL, and for each *)
(* node of the list within twice the TTL after it was heard of; or it is the *)
(* first one since the timers were set, by a start that is not the first.    *)
CleanupsComeInTime ==
    \A s \in Services :
      /\ announcing[s] # Off =>
           /\ announcing[s] <= localClock
           /\ localClock <= nextCleanup[s] /\ nextCleanup[s] <= localClock + DiscoveryTTL
           /\ \A t \in DOMAIN heardAt[s] :
                \/ nextCleanup[s] <= heardAt[s][t] + 2 * DiscoveryTTL
                \/ started[s] > 1 /\ nextCleanup[s] = announcing[s] + DiscoveryTTL
      /\ socket[s] # "none" \/ DOMAIN heardAt[s] # {} => started[s] > 0
      /\ socket[s] = "binding" /\ DOMAIN heardAt[s] # {} => started[s] > 1

(* The list of a service is of others and of late, and its timers are its own. *)
LocalInv ==
    /\ LocalTypeOK
    /\ ForgottenInTime
    /\ NeverItself
    /\ TimersNeedSocket
    /\ CleanupsComeInTime
=============================================================================
