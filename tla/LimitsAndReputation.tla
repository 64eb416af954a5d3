------------------------- MODULE LimitsAndReputation --------------------------
(* What an agent may do, packages/core/src/security: rate limits, and scores *)
(* that events earn and time takes.  They share no state.                    *)
EXTENDS Integers, Sequences

-----------------------------------------------------------------------------
(* The token buckets of packages/core/src/security/rate-limit.ts, which the  *)
(* relay consults in p2p/src/relay/middleware.ts.  A key stands for a key in *)
(* a category, as each category has a limiter of its own.  Time is counted   *)
(* in units in which Rate tokens come.                                       *)

CONSTANTS
    LimitedKeys,  \* keys of buckets
    Rate,         \* config.rate
    Burst,        \* config.burst
    Window,       \* config.windowMs
    MaxLimitTime  \* bound: the clock

ASSUME RateAssumption ==
    /\ Rate \in Nat \ {0} /\ Burst \in Nat \ {0} /\ Window \in Nat /\ MaxLimitTime \in Nat

VARIABLES
    limitTime,
    buckets,    \* key -> [tokens, lastUpdate], for the keys that have one
    granted,    \* history: key -> time -> the tokens it was given from that time on
    promised    \* history: key -> [at, tokens], the last refusal's resetIn

rateVars == <<limitTime, buckets, granted, promised>>

NothingGranted == [since \in 0..MaxLimitTime |-> 0]

NoPromise == [at |-> 0, tokens |-> 0]

RateTypeOK ==
    /\ limitTime \in 0..MaxLimitTime
    /\ DOMAIN buckets \subseteq LimitedKeys
    /\ buckets \in [DOMAIN buckets -> [tokens : 0..Burst, lastUpdate : 0..limitTime]]
    /\ granted \in [LimitedKeys -> [0..MaxLimitTime -> Nat]]
    /\ promised \in [LimitedKeys -> [at : Nat, tokens : 0..(Burst + 1)]]

RateInit ==
    /\ limitTime = 0
    /\ buckets = [k \in {} |-> NoPromise]
    /\ granted = [k \in LimitedKeys |-> NothingGranted]
    /\ promised = [k \in LimitedKeys |-> NoPromise]

Fresh == [tokens |-> Burst, lastUpdate |-> limitTime]

BucketOf(k) == IF k \in DOMAIN buckets THEN buckets[k] ELSE Fresh

Refilled(bucket) ==
    LET tokens == bucket.tokens + (limitTime - bucket.lastUpdate) * Rate IN
    IF tokens < Burst THEN tokens ELSE Burst

WithBucket(k, bucket) ==
    [j \in DOMAIN buckets \cup {k} |-> IF j = k THEN bucket ELSE buckets[j]]

(* The ceiling. *)
ResetIn(needed) == (needed + Rate - 1) \div Rate

GrantedMore(k, n) ==
    [since \in 0..MaxLimitTime |-> granted[k][since] + IF since <= limitTime THEN n ELSE 0]

Consume(k, n) ==
    LET tokens == Refilled(BucketOf(k)) IN
    /\ IF tokens >= n
       THEN /\ buckets' = WithBucket(k, [tokens |-> tokens - n, lastUpdate |-> limitTime])
            /\ granted' = [granted EXCEPT ![k] = GrantedMore(k, n)]
            /\ promised' = [promised EXCEPT ![k] = NoPromise]
       ELSE /\ buckets' = WithBucket(k, [tokens |-> tokens, lastUpdate |-> limitTime])
            /\ promised' = [promised EXCEPT ![k] =
                 [at |-> limitTime + ResetIn(n - tokens), tokens |-> n]]
            /\ UNCHANGED granted
    /\ UNCHANGED limitTime

(* peek leaves a bucket for a key that had none. *)
Peek(k) ==
    /\ buckets' = WithBucket(k, BucketOf(k))
    /\ UNCHANGED <<limitTime, granted, promised>>

Without(S) == [k \in DOMAIN buckets \ S |-> buckets[k]]

(* reset of a key, or clear of all. *)
ResetBuckets ==
    \E S \in {{k} : k \in LimitedKeys} \cup {LimitedKeys} :
      /\ buckets' = Without(S)
      /\ granted' = [k \in LimitedKeys |-> IF k \in S THEN NothingGranted ELSE granted[k]]
      /\ UNCHANGED <<limitTime, promised>>

StaleBucketEarly(bucket) == bucket.lastUpdate <= limitTime

StaleBucket(bucket) == bucket.lastUpdate < limitTime - Window

CleanupBuckets ==
    /\ buckets' = Without({k \in DOMAIN buckets : StaleBucket(buckets[k])})
    /\ UNCHANGED <<limitTime, granted, promised>>

LimitTimePasses ==
    /\ limitTime < MaxLimitTime
    /\ limitTime' = limitTime + 1
    /\ UNCHANGED <<buckets, granted, promised>>

RateNext ==
    \/ \E k \in LimitedKeys : Peek(k) \/ \E n \in 1..(Burst + 1) : Consume(k, n)
    \/ ResetBuckets \/ CleanupBuckets \/ LimitTimePasses

-----------------------------------------------------------------------------
RateSpec == RateInit /\ [][RateNext]_rateVars

(* In every span of time a key is given at most the burst and what came in   *)
(* that span, and it has no more left than the rest of that, though buckets  *)
(* are forgotten and made anew full: as long as a bucket that is forgotten   *)
(* had the time to fill.                                                     *)
WithinBudget ==
    (Window + 1) * Rate >= Burst =>
      \A k \in LimitedKeys : \A since \in 0..limitTime :
        granted[k][since] + Refilled(BucketOf(k)) <= Burst + Rate * (limitTime - since)

(* A caller that was refused and waits for the time it was told finds its    *)
(* tokens, unless it asked for more than the burst or took others meanwhile; *)
(* until then they are on their way.                                         *)
ResetInIsEnough ==
    \A k \in LimitedKeys : promised[k].tokens \in 1..Burst =>
      IF limitTime >= promised[k].at THEN Refilled(BucketOf(k)) >= promised[k].tokens
      ELSE Refilled(BucketOf(k)) + Rate * (promised[k].at - limitTime) >= promised[k].tokens

(* What a key is given counts from no time that is yet to come. *)
NothingAhead ==
    \A k \in LimitedKeys : \A since \in limitTime + 1..MaxLimitTime : granted[k][since] = 0

RateInv ==
    /\ RateTypeOK
    /\ NothingAhead
    /\ WithinBudget
    /\ ResetInIsEnough

-----------------------------------------------------------------------------
(* The scores of agents, packages/core/src/security/reputation.ts.  A score  *)
(* is counted in tenths, as the weights of events and the decay of an hour   *)
(* are.                                                                      *)

CONSTANTS
    Agents,
    EventTypes,    \* the types of events that happen
    InitialScore, MaxScore,  \* config, in tenths; the minimum is 0
    DecayPerHour,  \* config.decayPerHour, in tenths
    MaxEvents,     \* events that are kept, 100
    MaxRecorded,   \* bound: events of an agent
    MaxHours       \* bound: the clock

EVENT_WEIGHTS ==
    [message_valid |-> 1, message_invalid |-> -20, task_completed |-> 10, task_failed |-> -5,
     spam_detected |-> -100, auth_success |-> 5, auth_failure |-> -10,
     connection_dropped |-> -2, malicious_behavior |-> -250]

ASSUME ReputationAssumption ==
    /\ EventTypes \subseteq DOMAIN EVENT_WEIGHTS
    /\ InitialScore \in 0..MaxScore /\ MaxScore \in Nat /\ DecayPerHour \in Nat
    /\ MaxEvents \in Nat \ {0} /\ MaxRecorded \in Nat /\ MaxHours \in Nat

VARIABLES
    hour,
    reputations,  \* agent -> [score, events, lastUpdated, messages, successes, failures]
    undecayed,    \* history: agent -> its score if nothing decayed
    lost          \* history: agent -> what decay took since its last event

reputationVars == <<hour, reputations, undecayed, lost>>

ReputationTypeOK ==
    /\ hour \in 0..MaxHours
    /\ DOMAIN reputations \subseteq Agents
    /\ reputations \in [DOMAIN reputations ->
         [score : 0..MaxScore, events : Seq(EventTypes), lastUpdated : 0..hour,
          messages : Nat, successes : Nat, failures : Nat]]
    /\ \A a \in DOMAIN reputations : Len(reputations[a].events) <= MaxEvents
    /\ undecayed \in [Agents -> 0..MaxScore]

New == [score |-> InitialScore, events |-> <<>>, lastUpdated |-> hour,
        messages |-> 0, successes |-> 0, failures |-> 0]

ReputationInit ==
    /\ hour = 0
    /\ reputations = [a \in {} |-> New]
    /\ undecayed = [a \in Agents |-> InitialScore]
    /\ lost = [a \in Agents |-> 0]

GetOrCreateReputation(a) == IF a \in DOMAIN reputations THEN reputations[a] ELSE New

Clamped(n) == IF n < 0 THEN 0 ELSE IF n > MaxScore THEN MaxScore ELSE n

IsSuccess(type) == type \in {"message_valid", "task_completed"}

IsFailure(type) == type \in {"message_invalid", "task_failed"}

LastEvents(q) == IF Len(q) > MaxEvents THEN SubSeq(q, Len(q) - MaxEvents + 1, Len(q)) ELSE q

One(condition) == IF condition THEN 1 ELSE 0

RecordReputation(a, type) ==
    LET r == GetOrCreateReputation(a)
        weight == EVENT_WEIGHTS[type]
    IN
    /\ r.messages + r.successes + r.failures < MaxRecorded
    /\ reputations' = [b \in DOMAIN reputations \cup {a} |-> IF b # a THEN reputations[b] ELSE
         [score |-> Clamped(r.score + weight),
          events |-> LastEvents(Append(r.events, type)),
          lastUpdated |-> hour,
          messages |-> r.messages + One(type \in {"message_valid", "message_invalid"}),
          successes |-> r.successes + One(IsSuccess(type)),
          failures |-> r.failures + One(IsFailure(type))]]
    /\ undecayed' = [undecayed EXCEPT ![a] = Clamped(@ + weight)]
    /\ lost' = [lost EXCEPT ![a] = 0]
    /\ UNCHANGED hour

(* The score after applyDecay, which leaves lastUpdated. *)
Decayed(r) == Clamped(r.score - (hour - r.lastUpdated) * DecayPerHour)

ApplyDecay(S) ==
    /\ reputations' = [a \in DOMAIN reputations |->
         IF a \in S THEN [reputations[a] EXCEPT !.score = Decayed(reputations[a])]
         ELSE reputations[a]]
    /\ lost' = [a \in Agents |-> IF a \in S
                  THEN lost[a] + reputations[a].score - Decayed(reputations[a]) ELSE lost[a]]
    /\ UNCHANGED <<hour, undecayed>>

(* getReputation, getScore, isTrusted and isBlacklisted read one agent;      *)
(* getTopAgents, getLowReputationAgents and getStats read all.               *)
ReadReputation ==
    \E S \in {{a} : a \in DOMAIN reputations} \cup {DOMAIN reputations} : ApplyDecay(S)

(* reset of an agent, or clear. *)
ResetReputation ==
    \E S \in {{a} : a \in Agents} \cup {Agents} :
      /\ reputations' = [a \in DOMAIN reputations \ S |-> reputations[a]]
      /\ undecayed' = [a \in Agents |-> IF a \in S THEN InitialScore ELSE undecayed[a]]
      /\ lost' = [a \in Agents |-> IF a \in S THEN 0 ELSE lost[a]]
      /\ UNCHANGED hour

HourPasses ==
    /\ hour < MaxHours
    /\ hour' = hour + 1
    /\ UNCHANGED <<reputations, undecayed, lost>>

ReputationNext ==
    \/ \E a \in Agents, type \in EventTypes : RecordReputation(a, type)
    \/ ReadReputation \/ ResetReputation \/ HourPasses

ReputationSpec == ReputationInit /\ [][ReputationNext]_reputationVars

-----------------------------------------------------------------------------
(* Reads only lower a score, however often and when they come: an agent      *)
(* never stands better than its events alone would have it, and one without  *)
(* a record starts as if it had none.                                        *)
DecayOnlyLowers ==
    \A a \in Agents :
      IF a \in DOMAIN reputations THEN reputations[a].score <= undecayed[a]
      ELSE undecayed[a] = InitialScore

ReputationInv ==
    /\ ReputationTypeOK
    /\ DecayOnlyLowers

(* Limits hold and scores only fall by time; the two share no state.         *)
LimitsInv == RateInv /\ ReputationInv

(* reputation.ts, of decayPerHour: "Decay rate per hour (score reduction)".  *)
(* So since its last event an agent has lost at most that rate times the     *)
(* hours since.                                                              *)
DecaysByTheHour ==
    \A a \in DOMAIN reputations :
      lost[a] <= (hour - reputations[a].lastUpdated) * DecayPerHour
===============================================================================
