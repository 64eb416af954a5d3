----------------------------- MODULE KeyRotation -----------------------------
(* The rotation of a node's key, packages/core/src/security/key-rotation.ts. *)
(* rotate checks the interval, awaits a new key, and then changes the state  *)
(* with the time it read before the await; several callers may be in it.     *)
(* Keys are numbered in the order they are generated, so the array of the    *)
(* history has an entry at most for each.                                    *)
EXTENDS Integers

CONSTANTS
    Callers,             \* callers of rotate
    GracePeriod,         \* config.gracePeriodMs
    MinRotationInterval, \* config.minRotationIntervalMs
    KeptAfterExpiry,     \* pruneExpired keeps an entry for a day
    MaxKeys,             \* bound: keys generated
    MaxKeyTime           \* bound: the clock

ASSUME KeyAssumption ==
    /\ GracePeriod \in Nat \ {0} /\ MinRotationInterval \in Nat
    /\ KeptAfterExpiry \in Nat /\ MaxKeys \in Nat \ {0} /\ MaxKeyTime \in Nat

VARIABLES
    keyTime,
    currentKey,
    previousKey,      \* 0: null
    gracePeriodEnds,
    lastRotation,
    keyHistory,       \* key -> its entry [createdAt, expiresAt, status]
    rotating,         \* caller -> the time its rotate read, or -1
    replacedAt,       \* history: key -> when it stopped being current, or -1
    overlapped        \* history: two calls of rotate were under way at a time

keyVars == <<keyTime, currentKey, previousKey, gracePeriodEnds, lastRotation,
             keyHistory, rotating, replacedAt, overlapped>>

KeyEntries ==
    [createdAt : 0..MaxKeyTime, expiresAt : -1..(MaxKeyTime + GracePeriod),
     status : {"active", "grace", "expired"}]

KeyTypeOK ==
    /\ keyTime \in 0..MaxKeyTime
    /\ currentKey \in 1..MaxKeys /\ previousKey \in 0..MaxKeys
    /\ gracePeriodEnds \in 0..(MaxKeyTime + GracePeriod)
    /\ lastRotation \in 0..keyTime
    /\ DOMAIN keyHistory \subseteq 1..currentKey
    /\ keyHistory \in [DOMAIN keyHistory -> KeyEntries]
    /\ rotating \in [Callers -> -1..keyTime]
    /\ replacedAt \in [1..MaxKeys -> -1..keyTime] /\ overlapped \in BOOLEAN

Entry(at) == [createdAt |-> at, expiresAt |-> -1, status |-> "active"]

KeyInit ==
    /\ keyTime = 0 /\ lastRotation = 0
    /\ currentKey = 1 /\ previousKey = 0 /\ gracePeriodEnds = 0
    /\ keyHistory = [k \in {1} |-> Entry(0)]
    /\ rotating = [c \in Callers |-> -1]
    /\ replacedAt = [k \in 1..MaxKeys |-> -1] /\ overlapped = FALSE

TooSoonNever == FALSE

TooSoon == keyTime - lastRotation < MinRotationInterval

(* rotate up to the await of generateKeyPair. *)
Rotate(c) ==
    /\ rotating[c] = -1 /\ ~TooSoon
    /\ rotating' = [rotating EXCEPT ![c] = keyTime]
    /\ overlapped' = (overlapped \/ \E d \in Callers : rotating[d] # -1)
    /\ UNCHANGED <<keyTime, currentKey, previousKey, gracePeriodEnds, lastRotation,
                   keyHistory, replacedAt>>

(* What a rotation makes of an entry: the previous key expires and the       *)
(* current one has its grace.                                                *)
Moved(k, now) ==
    IF k = previousKey
    THEN [keyHistory[k] EXCEPT !.status = "expired", !.expiresAt = now]
    ELSE IF k = currentKey
    THEN [keyHistory[k] EXCEPT !.status = "grace", !.expiresAt = now + GracePeriod]
    ELSE keyHistory[k]

(* The time of a rotation is the one its call read. *)
RotatedAt(started) == started

(* The rest of rotate, with a key that nobody has. *)
KeyGenerated(c) ==
    LET now == RotatedAt(rotating[c])
        newKey == currentKey + 1
    IN
    /\ rotating[c] # -1 /\ newKey <= MaxKeys
    /\ keyHistory' = [k \in DOMAIN keyHistory \cup {newKey} |->
                       IF k = newKey THEN Entry(now) ELSE Moved(k, now)]
    /\ previousKey' = currentKey
    /\ gracePeriodEnds' = now + GracePeriod
    /\ currentKey' = newKey
    /\ lastRotation' = now
    /\ rotating' = [rotating EXCEPT ![c] = -1]
    /\ replacedAt' = [replacedAt EXCEPT ![currentKey] = now]
    /\ UNCHANGED <<keyTime, overlapped>>

PrunedEntry(entry) ==
    entry.status = "expired" /\ entry.expiresAt <= keyTime - KeptAfterExpiry

PruneExpired ==
    /\ keyHistory' = [k \in {k \in DOMAIN keyHistory : ~PrunedEntry(keyHistory[k])} |->
                       keyHistory[k]]
    /\ UNCHANGED <<keyTime, currentKey, previousKey, gracePeriodEnds, lastRotation,
                   rotating, replacedAt, overlapped>>

KeyTimePasses ==
    /\ keyTime < MaxKeyTime
    /\ keyTime' = keyTime + 1
    /\ UNCHANGED <<currentKey, previousKey, gracePeriodEnds, lastRotation,
                   keyHistory, rotating, replacedAt, overlapped>>

KeyNext ==
    \/ \E c \in Callers : Rotate(c) \/ KeyGenerated(c)
    \/ PruneExpired \/ KeyTimePasses

KeySpec == KeyInit /\ [][KeyNext]_keyVars

-----------------------------------------------------------------------------
IsValidKey(k) ==
    \/ k = currentKey
    \/ k = previousKey /\ keyTime < gracePeriodEnds

GetKeyStatus(k) ==
    IF k \notin DOMAIN keyHistory THEN "unknown"
    ELSE IF keyHistory[k].status = "grace" /\ keyTime >= keyHistory[k].expiresAt THEN "expired"
    ELSE keyHistory[k].status

(* The two records of a key's standing agree, whatever rotations overlap and *)
(* whatever is pruned: the history has the status active for the current     *)
(* key, grace for the previous one as long as isValidKey accepts it, and     *)
(* neither for any other.                                                    *)
HistoryAgrees ==
    \A k \in 1..MaxKeys :
      /\ GetKeyStatus(k) = "active" <=> k = currentKey
      /\ GetKeyStatus(k) \in {"active", "grace"} <=> IsValidKey(k)

(* A rotation makes the current key the previous one and nothing else of it: *)
(* the history has both, the grace of the previous one ends when the state   *)
(* says, and what is older has expired, if it is still listed.               *)
EntriesFollowState ==
    /\ previousKey = currentKey - 1
    /\ {currentKey, previousKey} \ {0} \subseteq DOMAIN keyHistory
    /\ \A k \in DOMAIN keyHistory :
         keyHistory[k].status = CASE k = currentKey -> "active"
                                  [] k = previousKey -> "grace"
                                  [] OTHER -> "expired"
    /\ previousKey # 0 => /\ keyHistory[previousKey].expiresAt = gracePeriodEnds
                          /\ gracePeriodEnds = lastRotation + GracePeriod
                          /\ replacedAt[previousKey] = lastRotation
    /\ \A k \in currentKey..MaxKeys : replacedAt[k] = -1

(* A rotation that overlaps no other ends as long after the one before it as *)
(* the interval demands.                                                     *)
IntervalIsKept ==
    overlapped \/ \A c \in Callers : rotating[c] # -1 =>
      /\ rotating[c] - lastRotation >= MinRotationInterval
      /\ \A d \in Callers : rotating[d] # -1 => c = d

(* A key that was replaced is accepted for the whole grace period, if        *)
(* rotations may not come closer than that and no two of them overlapped.    *)
GraceIsGiven ==
    ~overlapped /\ MinRotationInterval >= GracePeriod =>
      \A k \in 1..MaxKeys :
        replacedAt[k] # -1 /\ keyTime < replacedAt[k] + GracePeriod => IsValidKey(k)

(* The records of the keys agree, and a grace period is kept.                *)
KeyInv ==
    /\ KeyTypeOK
    /\ EntriesFollowState
    /\ IntervalIsKept
    /\ HistoryAgrees
    /\ GraceIsGiven
=============================================================================
