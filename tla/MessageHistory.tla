---------------------------- MODULE MessageHistory ----------------------------
(* The history of messages, packages/storage/src/history.ts, over the table  *)
(* of adapter.ts: a query counts the rows it selects, reads one page of them *)
(* and says whether there are more.  A reader asks for page after page while *)
(* messages are stored, with the time of their sender and so anywhere in the *)
(* order, marked as delivered and deleted.  Ids are numbered as the rows are *)
(* stored.                                                                   *)
EXTENDS Integers, FiniteSets

CONSTANTS
    HistoryContexts,   \* contextIds
    Timestamps,        \* timestamps of messages, and those deleteOlderThan is given
    PageLimit,         \* options.limit
    MaxRows            \* bound: messages ever stored

ASSUME HistoryAssumption ==
    /\ Timestamps \subseteq Nat /\ {"none", "undelivered"} \cap HistoryContexts = {}
    /\ PageLimit \in Nat \ {0} /\ MaxRows \in Nat

VARIABLES
    rows,       \* the table: id -> [context, timestamp, delivered]
    lastId,     \* messages stored so far
    reading,    \* the query of the reader, or NotReading
    offset,     \* options.offset of the next page
    rowsShown,  \* rows on the pages so far
    seen,       \* ids of the messages on them
    wanted,     \* ids the query selected when the reading began
    added,      \* rows the query selects that came since
    removed     \* rows it selected, and no longer does, since

historyVars == <<rows, lastId, reading, offset, rowsShown, seen, wanted, added, removed>>

Selections == HistoryContexts \cup {"undelivered"}

\* desc is the order by time; backwards, that of rows of one time.
Queries == [select : Selections, desc : BOOLEAN, backwards : BOOLEAN]

NotReading == [select |-> "none", desc |-> FALSE, backwards |-> FALSE]

HistoryTypeOK ==
    /\ lastId \in 0..MaxRows /\ DOMAIN rows \subseteq 1..lastId
    /\ rows \in [DOMAIN rows -> [context : HistoryContexts, timestamp : Timestamps, delivered : BOOLEAN]]
    /\ reading \in Queries \cup {NotReading}
    /\ {offset, rowsShown, added, removed} \subseteq Nat
    /\ seen \subseteq 1..lastId /\ wanted \subseteq 1..lastId

HistoryInit ==
    /\ rows = <<>> /\ lastId = 0 /\ reading = NotReading /\ offset = 0
    /\ rowsShown = 0 /\ seen = {} /\ wanted = {} /\ added = 0 /\ removed = 0

-----------------------------------------------------------------------------
(* WHERE *)
Selects(select, row) == IF select = "undelivered" THEN ~row.delivered ELSE row.context = select

Selected(select) == {i \in DOMAIN rows : Selects(select, rows[i])}

(* ORDER BY timestamp says nothing of equal ones: they come as they were     *)
(* stored, or backwards if the index is walked backwards.                    *)
Sooner(query, i, j) ==
    \/ IF query.desc THEN rows[i].timestamp > rows[j].timestamp
                     ELSE rows[i].timestamp < rows[j].timestamp
    \/ /\ rows[i].timestamp = rows[j].timestamp
       /\ IF query.backwards THEN i > j ELSE i < j

(* The number of rows that the query returns before the i-th.                *)
Place(query, i) == Cardinality({j \in Selected(query.select) : Sooner(query, j, i)})

PageWithOneMore(query, from, limit) ==
    {i \in Selected(query.select) : Place(query, i) \in from..(from + limit)}

(* LIMIT and OFFSET *)
PageOf(query, from, limit) ==
    {i \in Selected(query.select) : Place(query, i) \in from..(from + limit - 1)}

(* hasMore *)
HasMore(total, from, limit) == from + limit < total

(* The reader's query, one page of it: the count and the rows are read       *)
(* together.                                                                 *)
ReadPage ==
    /\ reading # NotReading
    /\ rowsShown' = rowsShown + Cardinality(PageOf(reading, offset, PageLimit))
    /\ seen' = seen \cup PageOf(reading, offset, PageLimit)
    /\ IF HasMore(Cardinality(Selected(reading.select)), offset, PageLimit)
       THEN offset' = offset + PageLimit /\ UNCHANGED reading
       ELSE offset' = 0 /\ reading' = NotReading
    /\ UNCHANGED <<rows, lastId, wanted, added, removed>>

BeginReading(select, desc, backwards) ==
    /\ reading = NotReading
    /\ reading' = [select |-> select, desc |-> desc, backwards |-> backwards]
    /\ wanted' = Selected(select)
    /\ seen' = {} /\ rowsShown' = 0 /\ offset' = 0 /\ added' = 0 /\ removed' = 0
    /\ UNCHANGED <<rows, lastId>>

IsSelected(row) == reading # NotReading /\ Selects(reading.select, row)

(* The table with another row. *)
StoredAs(id, row) == [i \in DOMAIN rows \cup {id} |-> IF i = id THEN row ELSE rows[i]]

StoreMessage(context, timestamp) ==
    LET row == [context |-> context, timestamp |-> timestamp, delivered |-> FALSE] IN
    /\ lastId < MaxRows /\ lastId' = lastId + 1
    /\ rows' = StoredAs(lastId + 1, row)
    /\ added' = IF IsSelected(row) THEN added + 1 ELSE added
    /\ UNCHANGED <<reading, offset, rowsShown, seen, wanted, removed>>

MarkDelivered(i) ==
    /\ rows' = [rows EXCEPT ![i].delivered = TRUE]
    /\ removed' = IF IsSelected(rows[i]) /\ reading.select = "undelivered"
                  THEN removed + 1 ELSE removed
    /\ UNCHANGED <<lastId, reading, offset, rowsShown, seen, wanted, added>>

DeleteOlderThan(timestamp) ==
    LET older == {i \in DOMAIN rows : rows[i].timestamp < timestamp} IN
    /\ rows' = [i \in DOMAIN rows \ older |-> rows[i]]
    /\ removed' = removed + Cardinality({i \in older : IsSelected(rows[i])})
    /\ UNCHANGED <<lastId, reading, offset, rowsShown, seen, wanted, added>>

HistoryNext ==
    \/ ReadPage
    \/ \E select \in Selections, desc \in BOOLEAN : \E backwards \in {FALSE, desc} :
          BeginReading(select, desc, backwards)
    \/ \E context \in HistoryContexts, timestamp \in Timestamps : StoreMessage(context, timestamp)
    \/ \E i \in DOMAIN rows : MarkDelivered(i)
    \/ \E timestamp \in Timestamps : DeleteOlderThan(timestamp)

HistorySpec == HistoryInit /\ [][HistoryNext]_historyVars

-----------------------------------------------------------------------------
(* The rows that the next pages would show, if nothing changed.              *)
Ahead == {i \in Selected(reading.select) : Place(reading, i) >= offset}

(* A row that was there at the start and is neither seen nor ahead is lost   *)
(* to a change: each removal makes the reader skip one at most.              *)
SkippedWereRemoved ==
    reading # NotReading => Cardinality(wanted \ (seen \cup Ahead)) <= removed

(* A reader who went through all the pages missed no more of what was there  *)
(* at the start than the rows that ceased to be selected meanwhile: without  *)
(* deletions and deliveries it misses nothing, in either order, whatever was *)
(* stored in between.                                                        *)
MissedWereRemoved ==
    reading = NotReading => Cardinality(wanted \ seen) <= removed

(* And it reads no row twice, but for as many as were stored meanwhile; what *)
(* it has seen and is ahead again counts as read twice already.              *)
RepeatedWereAdded ==
    /\ rowsShown - Cardinality(seen) <= added
    /\ reading # NotReading => rowsShown - Cardinality(seen) + Cardinality(seen \cap Ahead) <= added

(* Pages of a table that changes miss and repeat no more than it changed.    *)
HistoryInv ==
    /\ HistoryTypeOK
    /\ SkippedWereRemoved
    /\ MissedWereRemoved
    /\ RepeatedWereAdded
=============================================================================
