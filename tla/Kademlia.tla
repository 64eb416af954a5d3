------------------------------ MODULE Kademlia ------------------------------
(* Nodes of the DHT, packages/dht/src/kademlia/node.ts: they join through    *)
(* bootstrap nodes, look ids up in rounds of alpha requests, store a value   *)
(* at the nodes a lookup names, publish it again and forget it.  A request   *)
(* is a RemoteCall of KademliaRpc: it is answered, or fails although it was  *)
(* handled, or fails.  One key is followed, and a node runs one operation at *)
(* a time.                                                                   *)
EXTENDS KBuckets

CONSTANTS
    DhtNodes,       \* ids of the nodes
    BootstrapNodes, \* node -> its bootstrapNodes
    Alpha,          \* requests of a round
    Key,            \* the key that is stored and found
    Values,         \* what is stored under it
    EmptyValues,    \* those of them that have no bytes
    Targets,        \* ids that are looked up
    MaxEvents,      \* bound: calls, timers and stops of all nodes together
    Nothing

ASSUME KademliaAssumption ==
    /\ DhtNodes \subseteq NodeIDs /\ Key \in NodeIDs /\ Targets \subseteq NodeIDs
    /\ BootstrapNodes \in [DhtNodes -> Seq(DhtNodes)]
    /\ Alpha \in Nat \ {0} /\ MaxEvents \in Nat
    /\ Nothing \notin Values /\ EmptyValues \subseteq Values

VARIABLES
    running,    \* nodes whose rpc answers
    maintained, \* nodes whose three intervals are set
    tables,     \* node -> its buckets
    storage,    \* node -> its entry for Key, or Nothing
    task,       \* node -> the operation it runs, or last ran
    events      \* calls, timers and stops so far, up to MaxEvents

dhtVars == <<running, maintained, tables, storage, task, events>>

(* An operation: phase tells what it waits for, asked the requests that are  *)
(* out, closest and contacted are LookupState, named what the answers held,  *)
(* found the values, acked the nodes that confirmed a store, heard every     *)
(* node it learned of, rounds the rounds of requests.                        *)
NoTask == [kind |-> "none", phase |-> "done", target |-> Key, value |-> Nothing, todo |-> <<>>,
           asked |-> <<>>, closest |-> <<>>, contacted |-> {}, named |-> <<>>, found |-> <<>>,
           acks |-> 0, acked |-> {}, heard |-> {}, rounds |-> 0, ok |-> FALSE]

LookingUp(n, buckets, t) ==
    LET nearest == ClosestNodes(buckets, n, t.target, BucketSize)
    IN  [t EXCEPT !.phase = "lookup", !.closest = nearest, !.heard = ToSet(nearest)]

Happens == events < MaxEvents /\ events' = events + 1

Begin(n, kind, target, value, buckets) ==
    /\ task[n].phase = "done" /\ Happens
    /\ tables' = [tables EXCEPT ![n] = buckets]
    /\ task' = [task EXCEPT ![n] =
                  LookingUp(n, buckets, [NoTask EXCEPT !.kind = kind, !.target = target, !.value = value])]

DhtInit ==
    /\ running = {} /\ maintained = {}
    /\ tables = [n \in DhtNodes |-> EmptyBuckets]
    /\ storage = [n \in DhtNodes |-> Nothing]
    /\ task = [n \in DhtNodes |-> NoTask]
    /\ events = 0

(* start: the rpc is bound, then the bootstrap nodes are asked in turn. *)
StartNode(n) ==
    /\ n \notin running /\ task[n].phase = "done" /\ Happens
    /\ running' = running \cup {n}
    /\ IF BootstrapNodes[n] = <<>>
       THEN maintained' = maintained \cup {n} /\ UNCHANGED task
       ELSE /\ task' = [task EXCEPT ![n] = [NoTask EXCEPT !.kind = "bootstrap", !.phase = "ping",
                                             !.target = n, !.todo = BootstrapNodes[n]]]
            /\ UNCHANGED maintained
    /\ UNCHANGED <<tables, storage>>

(* stop clears the intervals and the storage; an operation that runs goes on *)
(* and its requests fail.                                                    *)
StopNode(n) ==
    /\ Happens
    /\ n \in running
    /\ running' = running \ {n}
    /\ maintained' = maintained \ {n}
    /\ storage' = [storage EXCEPT ![n] = Nothing]
    /\ UNCHANGED <<tables, task>>

LookupNode(n) == \E target \in Targets :
    /\ n \in running
    /\ Begin(n, "lookup", target, Nothing, tables[n])
    /\ UNCHANGED <<running, maintained, storage>>

FindValue(n) ==
    /\ n \in running
    /\ Begin(n, "find", Key, Nothing, tables[n])
    /\ UNCHANGED <<running, maintained, storage>>

StoreValue(n) == \E v \in Values :
    /\ n \in running
    /\ Begin(n, "store", Key, v, tables[n])
    /\ UNCHANGED <<running, maintained, storage>>

(* The intervals: stale nodes are dropped and some id is looked up; what has *)
(* expired is deleted; what has time left is stored again.                   *)
RefreshBuckets(n) == \E target \in Targets :
    /\ n \in maintained
    /\ Begin(n, "lookup", target, Nothing, WithoutStale(tables[n]))
    /\ UNCHANGED <<running, maintained, storage>>

CleanupStorage(n) ==
    /\ n \in maintained /\ storage[n] # Nothing /\ storage[n].expired
    /\ storage' = [storage EXCEPT ![n] = Nothing]
    /\ UNCHANGED <<running, maintained, tables, task, events>>

ReplicateData(n) ==
    /\ n \in maintained /\ storage[n] # Nothing /\ ~storage[n].expired
    /\ Begin(n, "store", Key, storage[n].value, tables[n])
    /\ UNCHANGED <<running, maintained, storage>>

(* What a request does: answered, handled and its answer lost, or neither.   *)
Outcomes(n, m) == {"failed"} \cup (IF {n, m} \subseteq running THEN {"answered", "unanswered"} ELSE {})

(* Every handler adds the sender to the table of the node that handles. *)
Handled(n, m, outcome) ==
    IF outcome = "failed" THEN tables ELSE [tables EXCEPT ![m] = WithNode(@, m, n)]

WithNodes(buckets, n, ids) ==
    FoldLeft(LAMBDA bs, id : IF id = n THEN bs ELSE WithNode(bs, n, id), buckets, ids)

(* bootstrap: a node that answers the ping is added; after the last one the  *)
(* node looks itself up.                                                     *)
Pinged(n) ==
    /\ task[n].phase = "ping"
    /\ \E outcome \in Outcomes(n, Head(task[n].todo)) :
          LET m == Head(task[n].todo)
              rest == Tail(task[n].todo)
              reached == Handled(n, m, outcome)
              known == IF outcome = "answered" THEN WithNode(reached[n], n, m) ELSE reached[n]
          IN  /\ tables' = [reached EXCEPT ![n] = known]
              /\ task' = [task EXCEPT ![n] =
                            IF rest = <<>> THEN LookingUp(n, known, [@ EXCEPT !.todo = rest])
                            ELSE [@ EXCEPT !.todo = rest]]
    /\ UNCHANGED <<running, maintained, storage, events>>

(* The nearest nodes that were not asked, up to alpha. *)
ToContact(t) ==
    LET open == AtPlaces(t.closest, {i \in DOMAIN t.closest : t.closest[i] \notin t.contacted})
    IN  SubSeq(open, 1, Min({Alpha, Len(open)}))

Searching(t) == t.phase = "lookup" /\ t.asked = <<>>
LookupOver(t) == Searching(t) /\ (t.found # <<>> \/ ToContact(t) = <<>>)

NextRound(n) ==
    /\ Searching(task[n]) /\ ~LookupOver(task[n])
    /\ task' = [task EXCEPT ![n].asked = ToContact(task[n]), ![n].rounds = @ + 1]
    /\ UNCHANGED <<running, maintained, tables, storage, events>>

(* What a node answers once it has added the sender: to findNode its nearest *)
(* nodes, to findValue the value it holds and otherwise its nearest nodes.   *)
Reply(m, t, table) ==
    IF t.kind = "find" /\ storage[m] # Nothing /\ ~storage[m].expired
    THEN [value |-> storage[m].value, nodes |-> <<>>]
    ELSE [value |-> Nothing, nodes |-> ClosestNodes(table, m, t.target, BucketSize)]

(* A response as JSON: an empty value becomes "" and is read as no value.    *)
Received(reply) == IF reply.value \in EmptyValues THEN [reply EXCEPT !.value = Nothing] ELSE reply

NoReply == [value |-> Nothing, nodes |-> <<>>]

(* The new nodes join the list, each once, but not the node itself. *)
WithNew(list, n, nodes) ==
    FoldLeft(LAMBDA l, id : IF id = n \/ id \in ToSet(l) THEN l ELSE Append(l, id), list, nodes)

NearestUnsorted(n, t, nodes) ==
    LET longer == WithNew(t.closest, n, nodes)
    IN  SubSeq(longer, 1, Min({BucketSize, Len(longer)}))

(* The list with the new nodes, nearest first, cut to the K nearest. *)
NearestOf(n, t, nodes) ==
    LET sorted == NearestFirst(t.target, WithNew(t.closest, n, nodes))
    IN  SubSeq(sorted, 1, Min({BucketSize, Len(sorted)}))

(* A failure is an empty answer, and the node counts as contacted. *)
Contacted(t, m, outcome) == t.contacted \cup {m}

(* One request of a round ends. *)
LookupAnswered(n) ==
    /\ task[n].phase = "lookup"
    /\ \E i \in DOMAIN task[n].asked : \E outcome \in Outcomes(n, task[n].asked[i]) :
          LET t == task[n]
              m == t.asked[i]
              reached == Handled(n, m, outcome)
              reply == IF outcome = "answered" THEN Received(Reply(m, t, reached[m])) ELSE NoReply
          IN  /\ tables' = [reached EXCEPT ![n] = WithNodes(@, n, reply.nodes)]
              /\ task' = [task EXCEPT ![n] =
                    [t EXCEPT !.asked = RemoveAt(@, i),
                              !.contacted = Contacted(t, m, outcome),
                              !.closest = NearestOf(n, t, reply.nodes),
                              !.named = @ \o reply.nodes,
                              !.heard = @ \cup (ToSet(reply.nodes) \ {n}),
                              !.found = IF reply.value = Nothing THEN @ ELSE Append(@, reply.value)]]
    /\ UNCHANGED <<running, maintained, storage, events>>

(* store gives up when the lookup named nobody. *)
NobodyToAsk(t) == t.named = <<>>

(* The lookup is over: a bootstrap sets the intervals, a store asks every    *)
(* node the answers named, as often as they named it.                        *)
EndLookup(n) ==
    /\ LookupOver(task[n])
    /\ task' = [task EXCEPT ![n] =
                  IF task[n].kind = "store" /\ ~NobodyToAsk(task[n])
                  THEN [@ EXCEPT !.phase = "store", !.asked = task[n].named]
                  ELSE [@ EXCEPT !.phase = "done"]]
    /\ maintained' = IF task[n].kind = "bootstrap" THEN maintained \cup {n} ELSE maintained
    /\ UNCHANGED <<running, tables, storage, events>>

(* One STORE ends.  The node that handles it replaces what it held. *)
StoreAnswered(n) ==
    /\ task[n].phase = "store"
    /\ \E i \in DOMAIN task[n].asked : \E outcome \in Outcomes(n, task[n].asked[i]) :
          LET t == task[n]
              m == t.asked[i]
              reached == Handled(n, m, outcome)
              answered == outcome = "answered"
          IN  /\ tables' = IF answered THEN [reached EXCEPT ![n] = WithNode(@, n, m)] ELSE reached
              /\ storage' = IF outcome = "failed" THEN storage
                            ELSE [storage EXCEPT ![m] = [value |-> t.value, expired |-> FALSE]]
              /\ task' = [task EXCEPT ![n] =
                    [t EXCEPT !.asked = RemoveAt(@, i),
                              !.acks = IF answered THEN @ + 1 ELSE @,
                              !.acked = IF answered THEN @ \cup {m} ELSE @]]
    /\ UNCHANGED <<running, maintained, events>>

(* A majority of the requests, not of the nodes. *)
EndStore(n) ==
    /\ task[n].phase = "store" /\ task[n].asked = <<>>
    /\ task' = [task EXCEPT ![n].phase = "done",
                            ![n].ok = task[n].acks >= (Len(task[n].named) + 1) \div 2]
    /\ UNCHANGED <<running, maintained, tables, storage, events>>

(* Time: the ttl of an entry passes, the timeout of the entries of a table.  *)
ValueExpires(n) ==
    /\ storage[n] # Nothing /\ ~storage[n].expired
    /\ storage' = [storage EXCEPT ![n].expired = TRUE]
    /\ UNCHANGED <<running, maintained, tables, task, events>>

NodesGoStale(n) ==
    /\ Happens
    /\ tables' = [tables EXCEPT ![n] = AllStale(@)]
    /\ UNCHANGED <<running, maintained, storage, task>>

DhtStep(n) == NextRound(n) \/ LookupAnswered(n) \/ EndLookup(n) \/ StoreAnswered(n) \/ EndStore(n) \/ Pinged(n)

(* The bound is used up and everything has ended. *)
DhtBoundReached ==
    /\ events = MaxEvents /\ \A n \in DhtNodes : task[n].phase = "done"
    /\ UNCHANGED dhtVars

DhtNext ==
    \/ \E n \in DhtNodes :
          \/ StartNode(n) \/ StopNode(n)
          \/ LookupNode(n) \/ FindValue(n) \/ StoreValue(n)
          \/ RefreshBuckets(n) \/ CleanupStorage(n) \/ ReplicateData(n)
          \/ DhtStep(n)
          \/ ValueExpires(n) \/ NodesGoStale(n)
    \/ DhtBoundReached

DhtSpec == DhtInit /\ [][DhtNext]_dhtVars

----------------------------------------------------------------------------

DhtEntry == [value : Values, expired : BOOLEAN] \cup {Nothing}

DhtTypeOK ==
    /\ running \subseteq DhtNodes /\ maintained \subseteq DhtNodes
    /\ storage \in [DhtNodes -> DhtEntry]
    /\ events \in 0..MaxEvents
    /\ \A n \in DhtNodes :
          /\ tables[n] \in [BucketIndexes -> Seq([id : DhtNodes, fresh : BOOLEAN])]
          /\ task[n].phase \in {"ping", "lookup", "store", "done"}
          /\ Len(task[n].closest) <= BucketSize
          /\ task[n].acks <= Len(task[n].named)

(* A lookup that ends without a value has asked every node it heard of,      *)
(* except those its list has no room for, and those are no nearer than any   *)
(* in the list: no answer and no failure makes it stop short.                *)
LookupExhaustive ==
    \A n \in DhtNodes : LET t == task[n] IN
        t.phase \in {"store", "done"} /\ t.found = <<>> =>
            \A out \in t.heard \ t.contacted :
                Len(t.closest) = BucketSize /\ \A in \in ToSet(t.closest) : ~Nearer(t.target, out, in)

(* store says the value was stored only if some node confirmed it, also when *)
(* nobody was found.                                                         *)
SuccessIsConfirmed ==
    \A n \in DhtNodes : task[n].phase = "done" /\ task[n].ok => task[n].acked # {}

(* A value that was stored is at one other node at least: the nodes store    *)
(* asks are "the k nodes nearest to the key".                                *)
StoredElsewhere ==
    \A n \in DhtNodes : task[n].phase = "done" /\ task[n].ok => task[n].acked \ {n} # {}

(* A lookup comes to an end: each of its rounds asks somebody it has not     *)
(* asked before, for a node that does not answer counts as contacted.        *)
RoundsBounded == \A n \in DhtNodes : task[n].rounds <= Cardinality(DhtNodes)

(* A lookup ends, having asked whoever it should, and a store says what was  *)
(* confirmed.                                                                *)
DhtInv ==
    /\ DhtTypeOK
    /\ LookupExhaustive
    /\ SuccessIsConfirmed
    /\ RoundsBounded
=============================================================================
