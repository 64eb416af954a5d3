---------------------------- MODULE RoutingTable ----------------------------
(* The routing table of one Kademlia node, packages/dht/src/kademlia/        *)
(* routing-table.ts: nodes are added, seen, removed and dropped when stale,  *)
(* and searched for the ones nearest to a target.                            *)
EXTENDS KBuckets

CONSTANTS
    LocalId,   \* localNodeId
    OtherIds   \* the nodes it hears of

ASSUME TableAssumption == LocalId \in NodeIDs /\ OtherIds \subseteq NodeIDs

VARIABLE buckets   \* index -> entries

tableVars == <<buckets>>

TableInit == buckets = EmptyBuckets

AddNode(id) == buckets' = WithNode(buckets, LocalId, id)
RemoveNode(id) == buckets' = WithoutNode(buckets, LocalId, id)
UpdateNodeLastSeen(id) == buckets' = WithNodeSeen(buckets, LocalId, id)
RemoveStaleNodes == buckets' = WithoutStale(buckets)

(* The timeout of 15 minutes passes. *)
TableTimeout == buckets' = AllStale(buckets)

TableNext ==
    \/ \E id \in OtherIds \cup {LocalId} :
          AddNode(id) \/ RemoveNode(id) \/ UpdateNodeLastSeen(id)
    \/ RemoveStaleNodes
    \/ TableTimeout

TableSpec == TableInit /\ [][TableNext]_tableVars

TableEntries == [id : OtherIds \cup {LocalId}, fresh : BOOLEAN]

(* Every bucket is a sequence of entries, no more than k. *)
TableTypeOK ==
    /\ buckets \in [BucketIndexes -> Seq(TableEntries)]
    /\ \A b \in BucketIndexes : Len(buckets[b]) <= BucketSize

(* A node is kept in the bucket of its distance, and once: what findNode,    *)
(* removeNode and the search rely on when they look in one bucket and take   *)
(* the first match.                                                          *)
BucketsSound ==
    \A b \in BucketIndexes : \A i, j \in DOMAIN buckets[b] :
        /\ BucketIndex(LocalId, buckets[b][i].id) = b
        /\ buckets[b][i].id = buckets[b][j].id => i = j

(* A node that is in the table is the first one found by a search for its    *)
(* id, whatever else is in the table: a lookup of a known node reaches it.   *)
FindsKnownNode ==
    \A id \in KnownNodes(buckets) :
        ClosestNodes(buckets, LocalId, id, 1) = <<id>>

(* When the bucket of the target holds another node, the first node of the   *)
(* answer is the nearest of all that are known.                              *)
NearestIsFirst ==
    \A target \in NodeIDs \ {LocalId} : \A count \in 1..BucketSize :
        (\E i \in DOMAIN buckets[BucketIndex(LocalId, target)] :
            buckets[BucketIndex(LocalId, target)][i].id # LocalId) =>
        \A id \in KnownNodes(buckets) :
            ~Nearer(target, id, ClosestNodes(buckets, LocalId, target, count)[1])

(* Nodes are where a search looks for them, and it finds them.               *)
TableInv ==
    /\ TableTypeOK
    /\ BucketsSound
    /\ FindsKnownNode
    /\ NearestIsFirst

(* findClosestNodes returns "the K nodes nearest to the target": as many     *)
(* different nodes as it can, none of those left out nearer than one of them.*)
FindsTheClosest ==
    \A target \in OtherIds :
        LET answer == ToSet(ClosestNodes(buckets, LocalId, target, BucketSize))
            known == KnownNodes(buckets)
        IN  /\ Cardinality(answer) = Min({BucketSize, Cardinality(known)})
            /\ \A out \in known \ answer, in \in answer : ~Nearer(target, out, in)
=============================================================================
