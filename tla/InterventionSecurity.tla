------------------------- MODULE InterventionSecurity -------------------------
(* The records of the intervention layer, packages/core/src/intervention/    *)
(* security: the audit log and the confirmations of sensitive operations.    *)
(* They share no state.                                                      *)
EXTENDS Integers, Sequences, FiniteSets

-----------------------------------------------------------------------------
(* The audit log, packages/core/src/intervention/security/audit.ts: the      *)
(* logger, the storage in memory with its limit, and the storage in a file,  *)
(* whose writers wait for one another on a chain of promises and whose       *)
(* readers do not.  The two storages get the same calls.  Entries are        *)
(* numbered in the order they were logged, which is the order of the Map in  *)
(* memory; of the lines of a file it counts how often each entry is there.   *)

CONSTANTS
    Writers,          \* calls of store and cleanup that may be under way
    MaxEntries,       \* config.maxEntries of the storage in memory
    RetentionPeriod,  \* config.retentionDays
    MaxLogged,        \* bound: entries
    MaxAuditTime      \* bound: the clock

ASSUME AuditAssumption ==
    /\ MaxEntries \in Nat \ {0} /\ RetentionPeriod \in Nat
    /\ MaxLogged \in Nat /\ MaxAuditTime \in Nat

VARIABLES
    auditTime,
    logged,       \* entries made so far
    loggedAt,     \* entry -> its timestamp
    memoryLog,    \* the entries of the storage in memory
    file,         \* entry -> how many lines of the file have it
    writeLock,    \* writers in the order they called withLock, the first runs
    writer,       \* writer -> what it does, and the lines it has to write
    kept,         \* history: entries a file store resolved and no cleanup removed
    forgotten     \* history: entries a cleanup in memory removed

auditVars == <<auditTime, logged, loggedAt, memoryLog, file, writeLock, writer, kept, forgotten>>

Lines == [1..MaxLogged -> Nat]

NoLines == [e \in 1..MaxLogged |-> 0]

LineOf(entry) == [e \in 1..MaxLogged |-> IF e = entry THEN 1 ELSE 0]

NotWriting == [op |-> "none", lines |-> NoLines, since |-> 0]

AuditTypeOK ==
    /\ auditTime \in 0..MaxAuditTime /\ logged \in 0..MaxLogged
    /\ loggedAt \in [1..MaxLogged -> 0..auditTime]
    /\ memoryLog \subseteq 1..logged /\ kept \subseteq 1..logged
    /\ forgotten \subseteq 1..logged
    /\ file \in Lines /\ writeLock \in Seq(Writers)
    /\ writer \in [Writers ->
         [op : {"none", "store", "cleanup", "truncate", "write"}, lines : Lines,
          since : 0..MaxAuditTime]]

AuditInit ==
    /\ auditTime = 0 /\ logged = 0 /\ loggedAt = [e \in 1..MaxLogged |-> 0]
    /\ memoryLog = {} /\ file = NoLines /\ writeLock = <<>>
    /\ writer = [w \in Writers |-> NotWriting]
    /\ kept = {} /\ forgotten = {}

Older(e, period) == loggedAt[e] < auditTime - period

(* The order of a sort by timestamp, which leaves those of a time in theirs. *)
LoggedBefore(e, f) == loggedAt[e] < loggedAt[f] \/ (loggedAt[e] = loggedAt[f] /\ e < f)

(* The oldest go, so that one more has room. *)
Room(entries) ==
    IF Cardinality(entries) >= MaxEntries
    THEN {e \in entries : Cardinality({f \in entries : LoggedBefore(f, e)}) >
                             Cardinality(entries) - MaxEntries}
    ELSE entries

(* log, with the storage in memory, and the call of store on that in a file. *)
Log(w) ==
    LET e == logged + 1 IN
    /\ logged < MaxLogged /\ writer[w].op = "none"
    /\ logged' = e
    /\ loggedAt' = [loggedAt EXCEPT ![e] = auditTime]
    /\ memoryLog' = Room(memoryLog) \cup {e}
    /\ writer' = [writer EXCEPT ![w] = [op |-> "store", lines |-> LineOf(e), since |-> auditTime]]
    /\ writeLock' = Append(writeLock, w)
    /\ UNCHANGED <<auditTime, file, kept, forgotten>>

(* cleanup of both; the one of the file takes the threshold when it runs. *)
CleanupLog(w) ==
    /\ writer[w].op = "none"
    /\ memoryLog' = {e \in memoryLog : ~Older(e, RetentionPeriod)}
    /\ forgotten' = forgotten \cup {e \in 1..logged : Older(e, RetentionPeriod)}
    /\ writer' = [writer EXCEPT ![w] = [op |-> "cleanup", lines |-> NoLines, since |-> auditTime]]
    /\ writeLock' = Append(writeLock, w)
    /\ UNCHANGED <<auditTime, logged, loggedAt, file, kept>>

RunsAtOnce(w) == writer[w].op # "none"

(* withLock: a writer runs when those before it have released the lock. *)
Runs(w) == writeLock # <<>> /\ Head(writeLock) = w

(* The lock without a writer, whose promise is resolved. *)
Remaining(w) ==
    LET at == CHOOSE i \in 1..Len(writeLock) : writeLock[i] = w IN
    [i \in 1..(Len(writeLock) - 1) |-> IF i < at THEN writeLock[i] ELSE writeLock[i + 1]]

(* finally: with or without an error. *)
Released(w, ok) == Remaining(w)

(* appendFile resolves, or fails. *)
Appended(w, ok) ==
    /\ Runs(w) /\ writer[w].op = "store"
    /\ file' = IF ok THEN [e \in 1..MaxLogged |-> file[e] + writer[w].lines[e]] ELSE file
    /\ kept' = IF ok THEN kept \cup {e \in 1..logged : writer[w].lines[e] > 0} ELSE kept
    /\ writer' = [writer EXCEPT ![w] = NotWriting]
    /\ writeLock' = Released(w, ok)
    /\ UNCHANGED <<auditTime, logged, loggedAt, memoryLog, forgotten>>

(* cleanup has read the file, or failed to. *)
FileRead(w, ok) ==
    /\ Runs(w) /\ writer[w].op = "cleanup"
    /\ IF ok
       THEN /\ writer' = [writer EXCEPT ![w] = [op |-> "truncate", since |-> auditTime, lines |->
                 [e \in 1..MaxLogged |-> IF Older(e, RetentionPeriod) THEN 0 ELSE file[e]]]]
            /\ UNCHANGED writeLock
       ELSE writer' = [writer EXCEPT ![w] = NotWriting] /\ writeLock' = Released(w, ok)
    /\ UNCHANGED <<auditTime, logged, loggedAt, memoryLog, file, kept, forgotten>>

(* writeFile opens the file, which empties it, and then writes. *)
Truncated(w) ==
    /\ writer[w].op = "truncate"
    /\ file' = NoLines
    /\ writer' = [writer EXCEPT ![w] = [op |-> "write", lines |-> writer[w].lines,
                                        since |-> writer[w].since]]
    /\ UNCHANGED <<auditTime, logged, loggedAt, memoryLog, writeLock, kept, forgotten>>

Written(w) ==
    /\ writer[w].op = "write"
    /\ file' = writer[w].lines
    /\ kept' = {e \in kept : loggedAt[e] >= writer[w].since - RetentionPeriod}
    /\ writer' = [writer EXCEPT ![w] = NotWriting]
    /\ writeLock' = Released(w, TRUE)
    /\ UNCHANGED <<auditTime, logged, loggedAt, memoryLog, forgotten>>

AuditTimePasses ==
    /\ auditTime < MaxAuditTime
    /\ auditTime' = auditTime + 1
    /\ UNCHANGED <<logged, loggedAt, memoryLog, file, writeLock, writer, kept, forgotten>>

AuditNext ==
    \/ \E w \in Writers :
         \/ Log(w) \/ CleanupLog(w) \/ Truncated(w) \/ Written(w)
         \/ \E ok \in BOOLEAN : Appended(w, ok) \/ FileRead(w, ok)
    \/ AuditTimePasses

AuditSpec == AuditInit /\ [][AuditNext]_auditVars

-----------------------------------------------------------------------------
(* The order of a query: the newest first, those of a time in theirs. *)
NewerFirst(e, f) == loggedAt[e] > loggedAt[f] \/ (loggedAt[e] = loggedAt[f] /\ e < f)

(* A page of a query has the entries whose turn in that order is on it. *)
Query(entries, offset, limit) ==
    {e \in entries : Cardinality({f \in entries : NewerFirst(f, e)}) \in
                       offset..(offset + limit - 1)}

(* query of the storage in a file reads it without the lock. *)
QueryFile(offset, limit) == Query({e \in 1..MaxLogged : file[e] > 0}, offset, limit)

Rewriting == \E w \in Writers : writer[w].op = "write"

(* What was stored in the file, and is not too old for a cleanup since, is   *)
(* in the file, once, unless a cleanup is between emptying and writing it:   *)
(* no append falls between the reading and the writing of a cleanup.         *)
StoredIsKept ==
    ~Rewriting => \A e \in 1..MaxLogged : file[e] = IF e \in kept THEN 1 ELSE 0

(* A cleanup writes what it read of the file, without what was too old when  *)
(* it read it, and that is what is left of what is kept.                     *)
RewritesTheRest ==
    \A w \in Writers : writer[w].op \in {"truncate", "write"} =>
      \A e \in 1..MaxLogged : writer[w].lines[e] =
        IF e \in kept /\ loggedAt[e] >= writer[w].since - RetentionPeriod THEN 1 ELSE 0

(* A call of store has the line of one entry, which no other has and which   *)
(* is not yet in the file.                                                   *)
StoresOneEach ==
    /\ \A w \in Writers : writer[w].op = "store" =>
         \E e \in (1..logged) \ kept : writer[w].lines = LineOf(e)
    /\ \A v, w \in Writers :
         writer[v].op = "store" /\ writer[w].op = "store" /\ v # w =>
           writer[v].lines # writer[w].lines

(* Who is at work has the lock or waits for it, once, and who rewrites the   *)
(* file has it.                                                              *)
LockIsHeld ==
    /\ \A w \in Writers : writer[w].op # "none" <=> \E i \in 1..Len(writeLock) : writeLock[i] = w
    /\ \A i, j \in 1..Len(writeLock) : writeLock[i] = writeLock[j] => i = j
    /\ \A w \in Writers : writer[w].op \in {"truncate", "write"} => Runs(w)

(* Who waits for the lock waits for one that is at work: none ends, whether  *)
(* its file operation succeeds or fails, and leaves the others waiting.      *)
LockIsPassedOn ==
    writeLock # <<>> => writer[Head(writeLock)].op # "none"

(* Entries are older the earlier they were logged, and so are the forgotten. *)
LoggedInOrder ==
    \A e, f \in 1..logged : e < f =>
      /\ loggedAt[e] <= loggedAt[f]
      /\ f \in forgotten => e \in forgotten

(* The storage in memory has the newest entries that no cleanup removed, and *)
(* no more than its limit.                                                   *)
MemoryKeepsNewest ==
    /\ memoryLog = {e \in (1..logged) \ forgotten : logged - e < MaxEntries}
    /\ Cardinality(memoryLog) <= MaxEntries

(* The pages of a query put together are the log, none has more than the     *)
(* limit, and what comes on a page is as new as all that comes on a later.   *)
PagesAreTheLog ==
    \A limit \in 1..MaxEntries :
      LET page == [i \in 0..(MaxEntries - 1) |-> Query(memoryLog, i * limit, limit)] IN
      /\ UNION {page[i] : i \in 0..(MaxEntries - 1)} = memoryLog
      /\ \A i \in 0..(MaxEntries - 1) : Cardinality(page[i]) <= limit
      /\ \A i, j \in 0..(MaxEntries - 1) : i < j =>
           \A e \in page[i], f \in page[j] : loggedAt[e] >= loggedAt[f]

(* Whoever writes and whatever is forgotten, both logs have what they should.*)
AuditInv ==
    /\ AuditTypeOK
    /\ StoredIsKept
    /\ RewritesTheRest
    /\ StoresOneEach
    /\ LockIsHeld
    /\ LockIsPassedOn
    /\ LoggedInOrder
    /\ MemoryKeepsNewest
    /\ PagesAreTheLog

(* audit.ts: "Records all intervention operations for compliance and         *)
(* debugging".  So a query of the file finds what was stored and not removed.*)
QueriesFindTheStored == kept \subseteq QueryFile(0, MaxLogged)

-----------------------------------------------------------------------------
(* The confirmations of sensitive operations, class ConfirmationManager of   *)
(* packages/core/src/intervention/security/auth.ts.                          *)

CONSTANTS
    Requests,       \* ids of requests
    Owners,         \* users
    ExpiryPeriod,   \* authentication.confirmationExpiryMs
    MaxConfirmTime  \* bound: the clock

ASSUME ConfirmationAssumption == ExpiryPeriod \in Nat /\ MaxConfirmTime \in Nat

VARIABLES
    confirmTime,
    pendingConfirmations, \* request -> [owner, expiresAt, confirmed]
    requested,            \* history: request -> [owner, at], once it was created
    confirmedBy,          \* history: request -> [owner, at] of the confirmation
    cancelled             \* history: requests that were cancelled

confirmationVars == <<confirmTime, pendingConfirmations, requested, confirmedBy, cancelled>>

ConfirmationTypeOK ==
    /\ confirmTime \in 0..MaxConfirmTime
    /\ DOMAIN requested \subseteq Requests /\ DOMAIN confirmedBy \subseteq DOMAIN requested
    /\ requested \in [DOMAIN requested -> [owner : Owners, at : 0..confirmTime]]
    /\ confirmedBy \in [DOMAIN confirmedBy -> [owner : Owners, at : 0..confirmTime]]
    /\ DOMAIN pendingConfirmations \subseteq DOMAIN requested
    /\ pendingConfirmations \in [DOMAIN pendingConfirmations ->
         [owner : Owners, expiresAt : Nat, confirmed : BOOLEAN]]
    /\ cancelled \subseteq DOMAIN requested

Nothing == [r \in {} |-> 0]

ConfirmationInit ==
    /\ confirmTime = 0 /\ cancelled = {}
    /\ pendingConfirmations = Nothing /\ requested = Nothing /\ confirmedBy = Nothing

Put(f, r, v) == [q \in DOMAIN f \cup {r} |-> IF q = r THEN v ELSE f[q]]

Dropped(S) == [r \in DOMAIN pendingConfirmations \ S |-> pendingConfirmations[r]]

ExpiresAt == confirmTime + ExpiryPeriod

CreateConfirmationRequest(r, owner) ==
    /\ r \notin DOMAIN requested
    /\ pendingConfirmations' = Put(pendingConfirmations, r,
         [owner |-> owner, expiresAt |-> ExpiresAt, confirmed |-> FALSE])
    /\ requested' = Put(requested, r, [owner |-> owner, at |-> confirmTime])
    /\ UNCHANGED <<confirmTime, confirmedBy, cancelled>>

Expired(r) == pendingConfirmations[r].expiresAt < confirmTime

Owned(r, user) == r \in DOMAIN pendingConfirmations /\ pendingConfirmations[r].owner = user

ConfirmRequest(r, user) ==
    /\ Owned(r, user)
    /\ IF Expired(r)
       THEN pendingConfirmations' = Dropped({r}) /\ UNCHANGED confirmedBy
       ELSE /\ pendingConfirmations' = [pendingConfirmations EXCEPT ![r].confirmed = TRUE]
            /\ confirmedBy' = Put(confirmedBy, r, [owner |-> user, at |-> confirmTime])
    /\ UNCHANGED <<confirmTime, requested, cancelled>>

IsConfirmed(r, user) == Owned(r, user) /\ ~Expired(r) /\ pendingConfirmations[r].confirmed

(* isConfirmed forgets a request that has expired. *)
AskConfirmed(r, user) ==
    /\ Owned(r, user) /\ Expired(r)
    /\ pendingConfirmations' = Dropped({r})
    /\ UNCHANGED <<confirmTime, requested, confirmedBy, cancelled>>

CancelRequest(r) ==
    /\ r \in DOMAIN pendingConfirmations
    /\ pendingConfirmations' = Dropped({r})
    /\ cancelled' = cancelled \cup {r}
    /\ UNCHANGED <<confirmTime, requested, confirmedBy>>

CleanupExpired ==
    /\ pendingConfirmations' = Dropped({r \in DOMAIN pendingConfirmations : Expired(r)})
    /\ UNCHANGED <<confirmTime, requested, confirmedBy, cancelled>>

ConfirmTimePasses ==
    /\ confirmTime < MaxConfirmTime
    /\ confirmTime' = confirmTime + 1
    /\ UNCHANGED <<pendingConfirmations, requested, confirmedBy, cancelled>>

ConfirmationNext ==
    \/ \E r \in Requests :
         \/ CancelRequest(r)
         \/ \E user \in Owners :
              CreateConfirmationRequest(r, user) \/ ConfirmRequest(r, user) \/ AskConfirmed(r, user)
    \/ CleanupExpired \/ ConfirmTimePasses

ConfirmationSpec == ConfirmationInit /\ [][ConfirmationNext]_confirmationVars

-----------------------------------------------------------------------------
(* A request that is pending is the one that was created, is not cancelled,  *)
(* and is confirmed if its owner did so, in its period.                      *)
PendingIsAsked ==
    \A r \in DOMAIN pendingConfirmations :
      /\ r \notin cancelled
      /\ pendingConfirmations[r].owner = requested[r].owner
      /\ pendingConfirmations[r].expiresAt = requested[r].at + ExpiryPeriod
      /\ pendingConfirmations[r].confirmed =>
           /\ r \in DOMAIN confirmedBy
           /\ confirmedBy[r].owner = requested[r].owner
           /\ confirmedBy[r].at <= requested[r].at + ExpiryPeriod

(* A request that is found confirmed was confirmed, by the user who made it, *)
(* and is neither cancelled nor older than its period, in whatever order the *)
(* calls, the cleanups and the clock come.                                   *)
ConfirmedByOwnerInTime ==
    \A r \in DOMAIN requested, user \in Owners : IsConfirmed(r, user) =>
      /\ user = requested[r].owner
      /\ r \in DOMAIN confirmedBy /\ confirmedBy[r].owner = user
      /\ confirmTime <= requested[r].at + ExpiryPeriod
      /\ r \notin cancelled

ConfirmationInv ==
    /\ ConfirmationTypeOK
    /\ PendingIsAsked
    /\ ConfirmedByOwnerInTime

(* The log keeps what was stored, and confirmations mean what they say; the  *)
(* two share no state.                                                       *)
SecurityInv == AuditInv /\ ConfirmationInv
===============================================================================
