---------------------------- MODULE TaskClaiming ----------------------------
(***************************************************************************)
(* Claims on tasks, packages/task/src/claiming.ts: an agent claims a task  *)
(* for a time, and holds a limited number of claims.  Who holds a task is  *)
(* kept twice: in the claim of the task, and in a set of tasks per agent,  *)
(* whose size is what the limit is about.                                  *)
(*                                                                         *)
(* Every operation is synchronous.  What makes them hard is that a claim   *)
(* expires without anyone noticing: a claim past its time stays active     *)
(* until some operation looks at it, and three different ones may.         *)
(***************************************************************************)
EXTENDS Integers, FiniteSets

CONSTANTS
  ClaimableTasks,
  Claimants,                (* public keys                                    *)
  NoAgent,               (* the holder of a task never claimed             *)
  ClaimTimeout,          (* config.claimTimeout                            *)
  MaxClaimsPerAgent,     (* config.maxClaimsPerAgent                       *)
  EnableAutoExpiration,  (* config.enableAutoExpiration                    *)
  MaxClock               (* bound on the clock                             *)

ASSUME ClaimsAssumption ==
  /\ IsFiniteSet(ClaimableTasks)
  /\ NoAgent \notin Claimants
  /\ ClaimTimeout \in Nat
  /\ MaxClaimsPerAgent \in Nat
  /\ EnableAutoExpiration \in BOOLEAN
  /\ MaxClock \in Nat

VARIABLES
  holder,       (* holder[t]: agentPublicKey of t's claim                   *)
  status,       (* status[t]: its status, "none" without a claim            *)
  expires,      (* expires[t]: its expiresAt                                *)
  agentClaims,  (* agentClaims[a]: the tasks in a's set                     *)
  now           (* Date.now()                                               *)

claimsVars == <<holder, status, expires, agentClaims, now>>

ClaimsTypeOK ==
  /\ holder \in [ClaimableTasks -> Claimants \cup {NoAgent}]
  /\ status \in [ClaimableTasks -> {"none", "active", "completed", "expired",
                           "released"}]
  /\ \A t \in ClaimableTasks : status[t] = "none" <=> holder[t] = NoAgent
  /\ expires \in [ClaimableTasks -> Nat]
  /\ agentClaims \in [Claimants -> SUBSET ClaimableTasks]
  /\ now \in 0..MaxClock

-----------------------------------------------------------------------------
(* Reading the state                                                       *)

\* Marked active, but past its time
Overdue(t) == status[t] = "active" /\ now >= expires[t]

\* claim answers null: someone holds t
Taken(t) == status[t] = "active" /\ now < expires[t]

LimitOffByOne(a) == Cardinality(agentClaims[a]) > MaxClaimsPerAgent

\* claim answers null: a's set is full
LimitReached(a) == Cardinality(agentClaims[a]) >= MaxClaimsPerAgent

-----------------------------------------------------------------------------
(* Operations                                                              *)

ClaimAnyway(t, a) ==
  /\ ~LimitReached(a)
  /\ holder' = [holder EXCEPT ![t] = a]
  /\ status' = [status EXCEPT ![t] = "active"]
  /\ expires' = [expires EXCEPT ![t] = now + ClaimTimeout]
  /\ agentClaims' = [agentClaims EXCEPT ![a] = @ \cup {t}]
  /\ UNCHANGED now

\* The claim replaces an earlier one of t.  The set of its holder is left as
\* it is, also when that claim was overdue.
Claim(t, a) ==
  /\ ~Taken(t)
  /\ ~LimitReached(a)
  /\ holder' = [holder EXCEPT ![t] = a]
  /\ status' = [status EXCEPT ![t] = "active"]
  /\ expires' = [expires EXCEPT ![t] = now + ClaimTimeout]
  /\ agentClaims' = [agentClaims EXCEPT ![a] = @ \cup {t}]
  /\ UNCHANGED now

\* claim expires an overdue claim of t before it finds that a is at its limit
ClaimRefused(t, a) ==
  /\ Overdue(t)
  /\ LimitReached(a)
  /\ status' = [status EXCEPT ![t] = "expired"]
  /\ UNCHANGED <<holder, expires, agentClaims, now>>

\* release and complete, of a claim of any status
End(t, a, end) ==
  /\ holder[t] = a
  /\ status' = [status EXCEPT ![t] = end]
  /\ agentClaims' = [agentClaims EXCEPT ![a] = @ \ {t}]
  /\ UNCHANGED <<holder, expires, now>>

Release(t, a) == End(t, a, "released")

Complete(t, a) == End(t, a, "completed")

\* getClaim and isClaimed expire the claim they look at
GetClaim(t) ==
  /\ EnableAutoExpiration
  /\ Overdue(t)
  /\ status' = [status EXCEPT ![t] = "expired"]
  /\ agentClaims' = [agentClaims EXCEPT ![holder[t]] = @ \ {t}]
  /\ UNCHANGED <<holder, expires, now>>

\* Also of an overdue claim, which is then good again
ExtendClaim(t, a, additional) ==
  /\ holder[t] = a
  /\ status[t] = "active"
  /\ expires' = [expires EXCEPT ![t] = @ + additional]
  /\ UNCHANGED <<holder, status, agentClaims, now>>

CleanupExpired ==
  /\ status' = [t \in ClaimableTasks |-> IF Overdue(t) THEN "expired" ELSE status[t]]
  /\ agentClaims' = [a \in Claimants |->
                       agentClaims[a] \ {t \in ClaimableTasks : Overdue(t)
                                                       /\ holder[t] = a}]
  /\ UNCHANGED <<holder, expires, now>>

Tick ==
  /\ now < MaxClock
  /\ now' = now + 1
  /\ UNCHANGED <<holder, status, expires, agentClaims>>

-----------------------------------------------------------------------------
ClaimsInit ==
  /\ holder = [t \in ClaimableTasks |-> NoAgent]
  /\ status = [t \in ClaimableTasks |-> "none"]
  /\ expires = [t \in ClaimableTasks |-> 0]
  /\ agentClaims = [a \in Claimants |-> {}]
  /\ now = 0

\* Extensions past the end of the clock make no difference
Extensions(t) == {d \in 1..MaxClock : expires[t] + d <= MaxClock + 1}

ClaimsNext ==
  \/ \E t \in ClaimableTasks, a \in Claimants : Claim(t, a)
  \/ \E t \in ClaimableTasks, a \in Claimants : ClaimRefused(t, a)
  \/ \E t \in ClaimableTasks, a \in Claimants : Release(t, a)
  \/ \E t \in ClaimableTasks, a \in Claimants : Complete(t, a)
  \/ \E t \in ClaimableTasks : GetClaim(t)
  \/ \E t \in ClaimableTasks, a \in Claimants : \E d \in Extensions(t) : ExtendClaim(t, a, d)
  \/ CleanupExpired
  \/ Tick

ClaimsSpec == ClaimsInit /\ [][ClaimsNext]_claimsVars

-----------------------------------------------------------------------------
(* Safety                                                                  *)

ActiveClaims(a) == {t \in ClaimableTasks : holder[t] = a /\ status[t] = "active"}

\* The two records of a claim agree one way: an active claim takes a place in
\* its holder's set, though the set of another agent may have kept the task
\* from an earlier claim, and expiry is noticed in three places.
ActiveTakesPlace == \A a \in Claimants : ActiveClaims(a) \subseteq agentClaims[a]

\* No agent ever holds more active claims than maxClaimsPerAgent, though the
\* limit is tested on the set and not on the claims.
LimitRespected ==
  \A a \in Claimants : Cardinality(ActiveClaims(a)) <= MaxClaimsPerAgent

\* While a claim is active and not overdue nobody else gets the task, and the
\* claim ends only by its holder's release or complete, which are possible in
\* no other agent's name.
ClaimsExclusive ==
  [][\A t \in ClaimableTasks : status[t] = "active" /\ now < expires[t] =>
       /\ holder'[t] = holder[t]
       /\ status'[t] # "expired"
       /\ status'[t] = "active" => t \in agentClaims'[holder[t]]]_claimsVars

\* No set outgrows the limit.
SetsWithinLimit ==
  \A a \in Claimants : Cardinality(agentClaims[a]) <= MaxClaimsPerAgent

\* The inductive invariant from which the properties above follow.
ClaimsInv ==
  /\ ClaimsTypeOK
  /\ ActiveTakesPlace
  /\ SetsWithinLimit
=============================================================================
