------------------------------- MODULE ClawNode -------------------------------
(* The node that puts the parts together, apps/claw-node/src/node.ts, with   *)
(* its health server, health.ts.  start and stop await one part after        *)
(* another, and several calls of them may be under way: those of the program *)
(* that embeds the node, and the handlers of SIGTERM and SIGINT.  The parts  *)
(* are up or not; the relay server is there in relay mode only.              *)
EXTENDS Naturals, Sequences, FiniteSets

CONSTANTS
    Starters,      \* calls of start
    Stoppers,      \* calls of stop
    Optional,      \* the optional parts that the configuration asks for
    Contexts,      \* contextIds of received messages
    NoContext,     \* a message that has none
    MaxReceived    \* bound: received messages

ASSUME NodeAssumption ==
    /\ IsFiniteSet(Starters)
    /\ Optional \subseteq {"dht", "relay"} /\ NoContext \notin Contexts
    /\ MaxReceived \in Nat

VARIABLES
    nodeState,    \* state
    made,         \* whether init has made the parts
    storageOpen,  \* whether the database is open
    up,           \* the parts that run: the client when it is connected
    closedOnce,   \* the Fastify servers that listened and were closed
    handlers,     \* process handlers that are registered
    startAt,      \* call of start -> the part it awaits
    stopAt,       \* call of stop -> the part it awaits
    crossed,      \* whether a stop ran while a start was under way
    received      \* messages that came: [id, kept]

nodeVars == <<nodeState, made, storageOpen, up, closedOnce, handlers, startAt, stopAt,
              crossed, received>>

StartUnderWay == {"init", "client", "cut", "health"} \cup Optional

StopUnderWay == {"health", "relay", "dht"}

NodeTypeOK ==
    /\ nodeState \in {"uninitialized", "initializing", "initialized", "running", "stopping", "stopped"}
    /\ made \in BOOLEAN /\ storageOpen \in BOOLEAN /\ crossed \in BOOLEAN
    /\ up \subseteq {"retry", "client", "health"} \cup Optional
    /\ closedOnce \subseteq {"relay", "health"}
    /\ handlers \in Nat
    /\ handlers <= Cardinality({s \in Starters : startAt[s] \notin {"idle", "init"}})
    /\ startAt \in [Starters -> {"idle", "done", "failed"} \cup StartUnderWay]
    /\ stopAt \in [Stoppers -> {"idle", "done", "failed"} \cup StopUnderWay]
    /\ received \in Seq([id : (Contexts \cup {NoContext}) \X Nat, kept : BOOLEAN])

NodeInit ==
    /\ nodeState = "uninitialized" /\ made = FALSE /\ storageOpen = FALSE
    /\ up = {} /\ closedOnce = {} /\ handlers = 0 /\ crossed = FALSE
    /\ startAt = [s \in Starters |-> "idle"] /\ stopAt = [t \in Stoppers |-> "idle"]
    /\ received = <<>>

StartBecomes(s, at) == startAt' = [startAt EXCEPT ![s] = at]

-----------------------------------------------------------------------------
(* start                                                                   *)

(* From the handlers of signals to the first await. *)
Begin(s) ==
    /\ handlers' = handlers + 1
    /\ up' = up \cup {"retry"}
    /\ StartBecomes(s, "client")

(* start, or start after init as in bin.ts: init opens the storage and       *)
(* awaits the identity.                                                      *)
StartNode(s) ==
    /\ startAt[s] = "idle"
    /\ CASE nodeState = "uninitialized" ->
              /\ nodeState' = "initializing" /\ storageOpen' = TRUE
              /\ StartBecomes(s, "init") /\ UNCHANGED <<up, handlers>>
         [] nodeState = "initialized" -> Begin(s) /\ UNCHANGED <<nodeState, storageOpen>>
         [] OTHER -> StartBecomes(s, "failed") /\ UNCHANGED <<nodeState, storageOpen, up, handlers>>
    /\ UNCHANGED <<made, closedOnce, stopAt, crossed, received>>

(* The rest of init, whatever the state has become. *)
Initialized(s) ==
    /\ startAt[s] = "init"
    /\ made' = TRUE /\ nodeState' = "initialized"
    /\ Begin(s)
    /\ UNCHANGED <<storageOpen, closedOnce, stopAt, crossed, received>>

(* The identity cannot be read or created. *)
InitFails(s) ==
    /\ startAt[s] = "init" /\ StartBecomes(s, "failed")
    /\ UNCHANGED <<nodeState, made, storageOpen, up, closedOnce, handlers, stopAt, crossed, received>>

(* What start awaits next: the parts in their order that are configured.     *)
After(at) ==
    IF at \in {"client", "cut"} /\ "dht" \in Optional THEN "dht"
    ELSE IF at # "relay" /\ "relay" \in Optional THEN "relay" ELSE "health"

(* A part of start succeeds or fails; a failure is caught, and the health    *)
(* endpoint tells.                                                           *)
PartStarted(s, success) ==
    LET at == startAt[s] IN
    /\ at \in {"client", "cut", "dht", "relay"}
    /\ success => at # "cut" /\ (at = "relay" => "relay" \notin up \cup closedOnce)
    /\ up' = IF success THEN up \cup {at} ELSE up
    /\ StartBecomes(s, After(at))
    /\ UNCHANGED <<nodeState, made, storageOpen, closedOnce, handlers, stopAt, crossed, received>>

(* The health server listens: it is not listening and was never closed.      *)
HealthStarts(s) ==
    /\ startAt[s] = "health" /\ "health" \notin up \cup closedOnce
    /\ up' = up \cup {"health"}
    /\ nodeState' = "running"
    /\ StartBecomes(s, "done")
    /\ UNCHANGED <<made, storageOpen, closedOnce, handlers, stopAt, crossed, received>>

(* It cannot, which is not caught. *)
HealthFails(s) ==
    /\ startAt[s] = "health" /\ StartBecomes(s, "failed")
    /\ UNCHANGED <<nodeState, made, storageOpen, up, closedOnce, handlers, stopAt, crossed, received>>

-----------------------------------------------------------------------------
(* stop                                                                    *)

MayStop == nodeState \notin {"stopped", "stopping"}

(* Fastify's close: only one that listens is closed for good. *)
CloseServer(part) ==
    /\ up' = up \ {part}
    /\ closedOnce' = closedOnce \cup (up \cap {part} \cap {"relay", "health"})

StopBecomes(t, at) == stopAt' = [stopAt EXCEPT ![t] = at]

StopNode(t) ==
    /\ stopAt[t] = "idle"
    /\ IF MayStop
       THEN /\ nodeState' = "stopping" /\ StopBecomes(t, "health")
            /\ crossed' = (crossed \/ \E s \in Starters : startAt[s] \in StartUnderWay)
            /\ CloseServer("health")
       ELSE StopBecomes(t, "done") /\ UNCHANGED <<nodeState, crossed, up, closedOnce>>
    /\ UNCHANGED <<made, storageOpen, handlers, startAt, received>>

(* Once the health server is closed, the relay server, and then the DHT.     *)
NextStops(t) ==
    /\ stopAt[t] \in {"health", "relay"}
    /\ LET next == IF stopAt[t] = "health" THEN "relay" ELSE "dht" IN
       CloseServer(next) /\ StopBecomes(t, next)
    /\ UNCHANGED <<nodeState, made, storageOpen, handlers, startAt, crossed, received>>

FinishKeepingRetry(t) ==
    /\ up' = up \ {"client"} /\ storageOpen' = FALSE
    /\ handlers' = 0 /\ nodeState' = "stopped" /\ StopBecomes(t, "done")

(* What follows the awaits.  A client that is connecting gives it up.        *)
Finish(t) ==
    /\ up' = up \ {"client", "retry"} /\ storageOpen' = FALSE
    /\ handlers' = 0 /\ nodeState' = "stopped" /\ StopBecomes(t, "done")

(* Before init has made the parts, stopRetryProcessor of nothing throws.     *)
Stops(t) ==
    /\ stopAt[t] = "dht"
    /\ IF made THEN Finish(t)
       ELSE StopBecomes(t, "failed") /\ UNCHANGED <<up, storageOpen, handlers, nodeState>>
    /\ startAt' = [s \in Starters |-> IF made /\ startAt[s] = "client" THEN "cut" ELSE startAt[s]]
    /\ UNCHANGED <<made, closedOnce, crossed, received>>

-----------------------------------------------------------------------------
KeptIds == {received[i].id : i \in {j \in DOMAIN received : received[j].kept}}

(* The id of the row: the contextId, or a random one. *)
RowId(context) == <<context, IF context = NoContext THEN Len(received) ELSE 0>>

(* The relay delivers a message, and onMessage stores it.  The id is the     *)
(* primary key, and an error of the database is only logged.                 *)
Receive(context) ==
    /\ "client" \in up /\ Len(received) < MaxReceived
    /\ LET id == RowId(context) IN
       received' = Append(received, [id |-> id, kept |-> storageOpen /\ id \notin KeptIds])
    /\ UNCHANGED <<nodeState, made, storageOpen, up, closedOnce, handlers, startAt, stopAt, crossed>>

NodeNext ==
    \/ \E s \in Starters :
         \/ StartNode(s) \/ Initialized(s) \/ InitFails(s) \/ HealthStarts(s) \/ HealthFails(s)
         \/ \E success \in BOOLEAN : PartStarted(s, success)
    \/ \E t \in Stoppers : StopNode(t) \/ NextStops(t) \/ Stops(t)
    \/ \E context \in Contexts \cup {NoContext} : Receive(context)

NodeSpec == NodeInit /\ [][NodeNext]_nodeVars

-----------------------------------------------------------------------------
(* A node that was stopped while no start was under way is down: nothing     *)
(* runs, no handler is registered and the storage is closed, however many    *)
(* calls of stop there were.                                                 *)
StoppedIsDown ==
    nodeState = "stopped" /\ ~crossed => up = {} /\ handlers = 0 /\ ~storageOpen

(* A node that runs, and that nobody stops, has its storage open, retries    *)
(* deliveries and answers about its health, also when start was called twice.*)
RunningIsUp ==
    nodeState = "running" /\ (\A t \in Stoppers : stopAt[t] = "idle") =>
      storageOpen /\ {"retry", "health"} \subseteq up

(* Of several calls of stop, as of two signals, one does the work.           *)
OneStops ==
    crossed \/ \A t, u \in Stoppers : stopAt[t] \in StopUnderWay /\ stopAt[u] \in StopUnderWay => t = u

(* A message that is lost has the id of one that was kept: the first of each *)
(* conversation, and every one that belongs to none, is stored, unless a     *)
(* stop crossed the start that connected the client.                         *)
LostIsRepeated ==
    crossed \/ \A i \in DOMAIN received : ~received[i].kept =>
      \E j \in 1..(i - 1) : received[j].kept /\ received[j].id = received[i].id /\ received[i].id[1] # NoContext

(* No part runs before init has made the parts.                              *)
MadeBeforeUse ==
    (\/ up # {}
     \/ nodeState \in {"initialized", "running"}
     \/ \E s \in Starters : startAt[s] \in StartUnderWay \ {"init"}) => made

(* A stop that crossed no start has the node to itself until it is done, and *)
(* the servers it has closed stay closed.                                    *)
StopsAlone ==
    ~crossed =>
      /\ nodeState \in {"stopping", "stopped"} =>
           \A s \in Starters : startAt[s] \notin StartUnderWay
      /\ \A t \in Stoppers :
           /\ stopAt[t] \in StopUnderWay => nodeState = "stopping" /\ "health" \notin up
           /\ stopAt[t] \in {"relay", "dht"} => "relay" \notin up
           /\ stopAt[t] = "dht" => "dht" \notin up

(* The storage is open as long as anything may use it.                       *)
OpenWhileUsed ==
    (\/ up # {}
     \/ nodeState = "initialized"
     \/ \E s \in Starters : startAt[s] \in StartUnderWay) => storageOpen \/ crossed

(* Until a stop is called, a node that was initialized retries deliveries.   *)
UpUntilStopped ==
    (\A t \in Stoppers : stopAt[t] = "idle") =>
      /\ ~crossed
      /\ (\/ nodeState \in {"initialized", "running"}
          \/ \E s \in Starters : startAt[s] \in StartUnderWay \ {"init"}) => "retry" \in up
      /\ nodeState = "running" => "health" \in up

(* A random id, which a message has that belongs to no conversation, is new. *)
RandomIdsAreNew ==
    \A i \in DOMAIN received : received[i].id[1] = NoContext => received[i].id[2] = i - 1

(* Starts and stops leave the node up or down, over any that cross.          *)
NodeInv ==
    /\ NodeTypeOK
    /\ MadeBeforeUse
    /\ StopsAlone
    /\ OpenWhileUsed
    /\ UpUntilStopped
    /\ RandomIdsAreNew
    /\ StoppedIsDown
    /\ RunningIsUp
    /\ OneStops
    /\ LostIsRepeated

(* node.ts:91: "Wire incoming messages to storage".  So what the client      *)
(* receives while the storage is open is stored.                             *)
ReceivedIsStored == crossed \/ \A i \in DOMAIN received : received[i].kept
=============================================================================
