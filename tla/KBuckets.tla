------------------------------ MODULE KBuckets ------------------------------
(* The buckets of a Kademlia routing table as values: where a node is kept   *)
(* (addNode, removeNode, updateNodeLastSeen, removeStaleNodes) and which     *)
(* nodes a search returns (findClosestNodes).  packages/dht/src/kademlia/    *)
(* routing-table.ts.  An id is a vector of IdBits bits, most significant     *)
(* first; the code has 160.                                                  *)
EXTENDS Integers, Sequences, SequencesExt, FiniteSetsExt

CONSTANTS
    IdBits,     \* NODE_ID_BITS
    BucketSize  \* k: capacity of a bucket and length of an answer

ASSUME KBucketsAssumption ==
    /\ IdBits \in Nat \ {0}
    /\ BucketSize \in Nat \ {0}

NodeIDs == [1..IdBits -> {0, 1}]
BucketIndexes == 0..(IdBits - 1)

(* An entry of a bucket; fresh while no timeout has passed since lastUpdated. *)
Entry(id) == [id |-> id, fresh |-> TRUE]

(* The first bit in which two ids differ. *)
FirstDifference(a, b) == Min({i \in 1..IdBits : a[i] # b[i]})

(* The bucket of id in the table of local; distance 0 has index 0. *)
BucketIndex(local, id) == IF local = id THEN 0 ELSE FirstDifference(local, id) - 1

(* a is nearer to target than b in the XOR metric. *)
Nearer(target, a, b) ==
    a # b /\ a[FirstDifference(a, b)] = target[FirstDifference(a, b)]

EmptyBuckets == [b \in BucketIndexes |-> <<>>]

(* The members of a list at some places, in their order: filter. *)
AtPlaces(list, places) ==
    [k \in 1..Cardinality(places) |->
        list[CHOOSE i \in places : Cardinality({j \in places : j < i}) = k - 1]]

(* A list with the nearest to the target first: sort. *)
NearestFirst(target, list) ==
    LET earlier == [i \in DOMAIN list |->
                       Cardinality({j \in DOMAIN list : \/ Nearer(target, list[j], list[i])
                                                        \/ list[j] = list[i] /\ j < i})]
    IN  [k \in DOMAIN list |-> list[CHOOSE i \in DOMAIN list : earlier[i] = k - 1]]

(* The positions of a node in a bucket. *)
PlacesOf(bucket, id) == {i \in DOMAIN bucket : bucket[i].id = id}

HasRoom(bucket) == Len(bucket) < BucketSize

(* A node that is known is made fresh, a new one is appended while there is  *)
(* room, and refused when the bucket is full.                                *)
WithNode(buckets, local, id) ==
    LET b == BucketIndex(local, id)
        places == PlacesOf(buckets[b], id)
    IN  CASE places # {} -> [buckets EXCEPT ![b][Min(places)] = Entry(id)]
          [] places = {} /\ HasRoom(buckets[b]) ->
                 [buckets EXCEPT ![b] = Append(@, Entry(id))]
          [] OTHER -> buckets

WithoutNode(buckets, local, id) ==
    LET b == BucketIndex(local, id)
        places == PlacesOf(buckets[b], id)
    IN  IF places = {} THEN buckets
        ELSE [buckets EXCEPT ![b] = RemoveAt(@, Min(places))]

WithNodeSeen(buckets, local, id) ==
    LET b == BucketIndex(local, id)
        places == PlacesOf(buckets[b], id)
    IN  IF places = {} THEN buckets
        ELSE [buckets EXCEPT ![b][Min(places)].fresh = TRUE]

WithoutStale(buckets) ==
    [b \in BucketIndexes |-> AtPlaces(buckets[b], {i \in DOMAIN buckets[b] : buckets[b][i].fresh})]

AllStale(buckets) ==
    [b \in BucketIndexes |->
        [i \in DOMAIN buckets[b] |-> [buckets[b][i] EXCEPT !.fresh = FALSE]]]

KnownNodes(buckets) ==
    UNION {{buckets[b][i].id : i \in DOMAIN buckets[b]} : b \in BucketIndexes}

SearchBeside(centre, i) == IF i % 2 = 0 THEN centre + 1 + (i \div 2) ELSE centre - (i \div 2)

(* The bucket the i-th turn of the search looks at: the one of the target,   *)
(* then to both sides of it.  Turn 1 is the centre once more.                *)
SearchIndex(centre, i) == IF i % 2 = 0 THEN centre + (i \div 2) ELSE centre - (i \div 2)

(* The nodes a search collects; it stops once it has twice as many as asked. *)
Collected(buckets, centre, count) ==
    FoldLeft(LAMBDA found, i :
                IF SearchIndex(centre, i) \notin BucketIndexes \/ Len(found) >= 2 * count
                THEN found
                ELSE found \o [j \in DOMAIN buckets[SearchIndex(centre, i)] |->
                                  buckets[SearchIndex(centre, i)][j].id],
             <<>>, [i \in 1..IdBits |-> i - 1])

(* findClosestNodes: what was collected, nearest first, cut to count. *)
ClosestNodes(buckets, local, target, count) ==
    LET found == NearestFirst(target, Collected(buckets, BucketIndex(local, target), count))
    IN  SubSeq(found, 1, Min({count, Len(found)}))
=============================================================================
