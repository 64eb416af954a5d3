-------------------------- MODULE ConversationShard --------------------------
(* A shard of conversations, packages/core/src/intervention/performance/     *)
(* sharding.ts: recent messages, chunks of older ones, and a count of        *)
(* messages that triggers the eviction of chunks.  The messages of a         *)
(* conversation are numbered in the order they were added.  Which chunk is   *)
(* the oldest depends on reads and the clock, and so does which conversation *)
(* is inactive: any may be.                                                  *)
EXTENDS Integers, Sequences, FiniteSets, SequencesExt

CONSTANTS
    ShardOf,      \* conversation -> its shard, getShardKey
    MaxMessages,  \* config.maxMessagesPerShard
    ChunkSize,    \* config.historyChunkSize
    MaxAdded      \* bound: messages added

ASSUME ShardAssumption ==
    /\ IsFiniteSet(DOMAIN ShardOf)
    /\ MaxMessages \in Nat /\ ChunkSize \in Nat \ {0} /\ MaxAdded \in Nat

Convs == DOMAIN ShardOf

Shards == Range(ShardOf)

VARIABLES
    stored,         \* conversations that exist
    activeMessages, \* conversation -> its recent messages
    historyChunks,  \* conversation -> its chunks
    messageTotal,   \* conversation -> state.messageCount
    messageCount,   \* shard -> its messageCount
    evicted         \* conversations that lost a chunk

shardVars == <<stored, activeMessages, historyChunks, messageTotal, messageCount, evicted>>

ShardTypeOK ==
    /\ stored \subseteq Convs /\ evicted \subseteq Convs
    /\ \A c \in Convs :
         /\ activeMessages[c] \in Seq(1..MaxAdded)
         /\ \A i \in DOMAIN historyChunks[c] : historyChunks[c][i].messages # <<>>
    /\ messageTotal \in [Convs -> 0..MaxAdded]
    /\ messageCount \in [Shards -> 0..MaxAdded]

ShardInit ==
    /\ stored = {} /\ evicted = {}
    /\ activeMessages = [c \in Convs |-> <<>>]
    /\ historyChunks = [c \in Convs |-> <<>>]
    /\ messageTotal = [c \in Convs |-> 0]
    /\ messageCount = [s \in Shards |-> 0]

Chunk(start, ms) == [start |-> start, end |-> start + Len(ms) - 1, messages |-> ms]

NextIndex(chunks) == IF chunks = <<>> THEN 0 ELSE Last(chunks).end + 1

(* The sum of f over S, as the number of units of its members. *)
Sum(f, S) == Cardinality(UNION {{x} \X (1..f[x]) : x \in S})

SizeOf(chunks) == Sum([i \in DOMAIN chunks |-> Len(chunks[i].messages)], DOMAIN chunks)

Concatenated(chunks) == FoldLeft(LAMBDA ms, chunk : ms \o chunk.messages, <<>>, chunks)

GetOrCreate(c) ==
    /\ c \notin stored
    /\ stored' = stored \cup {c}
    /\ UNCHANGED <<activeMessages, historyChunks, messageTotal, messageCount, evicted>>

OffloadedToFront(ms, chunks) ==
    LET n == IF ChunkSize < Len(ms) THEN ChunkSize ELSE Len(ms) IN
    [chunks |-> <<Chunk(NextIndex(chunks), SubSeq(ms, 1, n))>> \o chunks,
     messages |-> SubSeq(ms, n + 1, Len(ms))]

(* offloadHistory: the chunk and the messages that stay. *)
Offloaded(ms, chunks) ==
    LET n == IF ChunkSize < Len(ms) THEN ChunkSize ELSE Len(ms) IN
    [chunks |-> Append(chunks, Chunk(NextIndex(chunks), SubSeq(ms, 1, n))),
     messages |-> SubSeq(ms, n + 1, Len(ms))]

TooMany(n) == n > MaxMessages

(* The chunks of a shard that evictOldestHistory may find the oldest: a      *)
(* fifth of them.                                                            *)
Evictions(shard, chunksOf) ==
    LET all == UNION {{c} \X DOMAIN chunksOf[c] : c \in {d \in Convs : ShardOf[d] = shard}}
    IN {gone \in SUBSET all : Cardinality(gone) = (Cardinality(all) + 4) \div 5}

Kept(c, chunks, gone) ==
    LET left == {i \in DOMAIN chunks : <<c, i>> \notin gone} IN
    [k \in 1..Cardinality(left) |->
        chunks[CHOOSE i \in left : Cardinality({j \in left : j < i}) = k - 1]]

SizeOfGone(chunksOf, gone) ==
    Sum([g \in gone |-> Len(chunksOf[g[1]][g[2]].messages)], gone)

(* addMessage, which offloads and then evicts. *)
AddMessage(c) ==
    LET ms == Append(activeMessages[c], messageTotal[c] + 1)
        off == IF Len(ms) * 10 > MaxMessages THEN Offloaded(ms, historyChunks[c])
               ELSE [chunks |-> historyChunks[c], messages |-> ms]
        chunksOf == [historyChunks EXCEPT ![c] = off.chunks]
        shard == ShardOf[c]
        n == messageCount[shard] + 1
    IN
    /\ c \in stored /\ messageTotal[c] < MaxAdded /\ n <= MaxAdded
    /\ activeMessages' = [activeMessages EXCEPT ![c] = off.messages]
    /\ messageTotal' = [messageTotal EXCEPT ![c] = @ + 1]
    /\ \E gone \in IF TooMany(n) THEN Evictions(shard, chunksOf) ELSE {{}} :
         /\ historyChunks' = [d \in Convs |-> Kept(d, chunksOf[d], gone)]
         /\ messageCount' = [messageCount EXCEPT ![shard] = n - SizeOfGone(chunksOf, gone)]
         /\ evicted' = evicted \cup {g[1] : g \in gone}
    /\ UNCHANGED stored

(* delete counts off what is in the chunks, not what is active. *)
CountedOff(c) == SizeOf(historyChunks[c])

DeleteAll(S) ==
    /\ stored' = stored \ S
    /\ activeMessages' = [c \in Convs |-> IF c \in S THEN <<>> ELSE activeMessages[c]]
    /\ historyChunks' = [c \in Convs |-> IF c \in S THEN <<>> ELSE historyChunks[c]]
    /\ messageTotal' = [c \in Convs |-> IF c \in S THEN 0 ELSE messageTotal[c]]
    /\ messageCount' = [s \in Shards |->
         messageCount[s] - Sum([c \in Convs |-> CountedOff(c)], {c \in S : ShardOf[c] = s})]
    /\ evicted' = evicted \ S

(* delete of one conversation, or evictInactive of all shards. *)
EvictInactive == \E S \in SUBSET stored : S # {} /\ DeleteAll(S)

ShardBoundReached ==
    /\ \E s \in Shards : messageCount[s] = MaxAdded
    /\ UNCHANGED shardVars

ShardNext ==
    \/ \E c \in Convs : GetOrCreate(c) \/ AddMessage(c)
    \/ EvictInactive
    \/ ShardBoundReached

ShardSpec == ShardInit /\ [][ShardNext]_shardVars

-----------------------------------------------------------------------------
(* getMessages                                                             *)

Least(a, b) == IF a < b THEN a ELSE b

Most(a, b) == IF a > b THEN a ELSE b

(* One turn of the loop over the chunks: what was found so far and where the *)
(* next message is expected.                                                 *)
TakeFrom(chunk, found, limit) ==
    LET from == Most(0, found.at - chunk.start)
        n == Least(limit - Len(found.messages), Len(chunk.messages) - from)
    IN IF chunk.start <= found.at + limit - 1 /\ chunk.end >= found.at
            /\ Len(found.messages) < limit
       THEN [messages |-> found.messages \o SubSeq(chunk.messages, from + 1, from + n),
             at |-> found.at + n]
       ELSE found

LoadFromHistory(c, offset, limit) ==
    LET older == messageTotal[c] - Len(activeMessages[c])
        found == IF offset < older
                 THEN FoldLeft(LAMBDA f, chunk : TakeFrom(chunk, f, limit),
                              [messages |-> <<>>, at |-> offset], historyChunks[c]).messages
                 ELSE <<>>
        from == Most(0, offset - older)
    IN found \o SubSeq(activeMessages[c], from + 1,
                       Least(Len(activeMessages[c]), from + limit - Len(found)))

IsRecent(c, offset, limit) == offset = 0 /\ limit <= Len(activeMessages[c])

GetMessages(c, offset, limit) ==
    IF IsRecent(c, offset, limit)
    THEN SubSeq(activeMessages[c], 1, limit)
    ELSE LoadFromHistory(c, offset, limit)

Slice(c, offset, limit) ==
    SubSeq([i \in 1..messageTotal[c] |-> i], offset + 1, Least(messageTotal[c], offset + limit))

-----------------------------------------------------------------------------
StoredOf(c) == SizeOf(historyChunks[c]) + Len(activeMessages[c])

(* The count of a shard never falls below what it stores, so that its limit  *)
(* is on what it stores; it may be above, as deletion does not count off the *)
(* active messages.                                                          *)
CountCoversStored ==
    \A s \in Shards :
      /\ Sum([c \in Convs |-> StoredOf(c)], {c \in Convs : ShardOf[c] = s}) <= messageCount[s]
      /\ messageCount[s] <= MaxMessages \/
           \A c \in Convs : ShardOf[c] = s => historyChunks[c] = <<>>

(* The chunks and the active messages of a conversation are its messages in  *)
(* their order, without the evicted ones.                                    *)
StoredInOrder ==
    \A c \in Convs :
      LET all == Concatenated(historyChunks[c]) \o activeMessages[c] IN
      /\ \A i \in 1..(Len(all) - 1) : all[i] < all[i + 1]
      /\ c \notin evicted => all = [i \in 1..messageTotal[c] |-> i]

(* A page that is not taken for one of recent messages is the slice of the   *)
(* conversation that offset and limit name, over any chunks, as long as none *)
(* was evicted.                                                              *)
PageIsSlice ==
    \A c \in stored \ evicted : \A offset \in 0..MaxAdded, limit \in 1..MaxAdded :
      ~IsRecent(c, offset, limit) => GetMessages(c, offset, limit) = Slice(c, offset, limit)

(* The chunks and the active messages are the conversation, and pages find it. *)
ShardInv ==
    /\ ShardTypeOK
    /\ CountCoversStored
    /\ StoredInOrder
    /\ PageIsSlice

(* sharding.ts, of messageCount: "Total message count (for pagination)".  So *)
(* a page at an offset does not depend on how many messages are active.      *)
PagesAreSlices ==
    \A c \in stored \ evicted : \A offset \in 0..MaxAdded, limit \in 1..MaxAdded :
      GetMessages(c, offset, limit) = Slice(c, offset, limit)
=============================================================================
