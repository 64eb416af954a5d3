------------------------------ MODULE TaskProofs ------------------------------
(* Proofs about the claims on tasks, the hierarchy of tasks, the streams of  *)
(* the A2A server and the events of the task manager, for any tasks, agents, *)
(* clients, listeners and limits.                                            *)
EXTENDS TaskDecomposition, TaskClaiming, TaskManager, A2AServer, FiniteSetTheorems,
        SequenceTheorems, TLAPS

-----------------------------------------------------------------------------
(***************************************************************************)
(* Proofs about the claims on tasks, for any number of tasks and agents    *)
(* and any limit.  ClaimsInv is inductive: that an active claim takes a    *)
(* place in its holder's set and that no set outgrows the limit bounds the *)
(* active claims of an agent, which the code never counts.                 *)
(***************************************************************************)

-----------------------------------------------------------------------------
(* Lemmas                                                                  *)

\* Sets of tasks are finite, and taking tasks away makes them no larger.
LEMMA SubsetsOfTasks ==
  ASSUME NEW S \in SUBSET ClaimableTasks, NEW R \in SUBSET S
  PROVE  /\ IsFiniteSet(S)
         /\ Cardinality(S) \in Nat
         /\ Cardinality(R) \in Nat
         /\ Cardinality(R) <= Cardinality(S)
<1>1. IsFiniteSet(S)
  BY ClaimsAssumption, FS_Subset
<1> QED
  BY <1>1, FS_Subset, FS_CardinalityType

\* One more task takes at most one more place.
LEMMA OneMoreTask ==
  ASSUME NEW S \in SUBSET ClaimableTasks, NEW t \in ClaimableTasks,
         Cardinality(S) < MaxClaimsPerAgent
  PROVE  Cardinality(S \cup {t}) <= MaxClaimsPerAgent
<1>1. IsFiniteSet(S) /\ Cardinality(S) \in Nat
  BY SubsetsOfTasks
<1>2. Cardinality(S \cup {t}) \in {Cardinality(S), Cardinality(S) + 1}
  BY <1>1, FS_AddElement
<1> QED
  BY <1>1, <1>2, ClaimsAssumption

\* The sets that lose tasks stay within the limit.
LEMMA SmallerSetsWithinLimit ==
  ASSUME ClaimsTypeOK, SetsWithinLimit,
         \A a \in Claimants : agentClaims'[a] \subseteq agentClaims[a]
  PROVE  SetsWithinLimit'
<1> SUFFICES ASSUME NEW a \in Claimants
             PROVE  Cardinality(agentClaims'[a]) <= MaxClaimsPerAgent
  BY DEF SetsWithinLimit
<1>1. agentClaims[a] \in SUBSET ClaimableTasks
  BY DEF ClaimsTypeOK
<1>2. Cardinality(agentClaims[a]) <= MaxClaimsPerAgent
  BY DEF SetsWithinLimit
<1>3. /\ Cardinality(agentClaims[a]) \in Nat
      /\ Cardinality(agentClaims'[a]) \in Nat
      /\ Cardinality(agentClaims'[a]) <= Cardinality(agentClaims[a])
  BY <1>1, SubsetsOfTasks
<1> QED
  BY <1>2, <1>3, ClaimsAssumption

-----------------------------------------------------------------------------
(* Every operation keeps the invariant                                     *)

\* A new claim takes a place in a set that had one free.
LEMMA ClaimStep ==
  ASSUME ClaimsInv, NEW t \in ClaimableTasks, NEW a \in Claimants, Claim(t, a)
  PROVE  ClaimsInv'
<1> USE DEF ClaimsInv
<1>1. ClaimsTypeOK'
  <2>1. now + ClaimTimeout \in Nat
    BY ClaimsAssumption DEF ClaimsTypeOK
  <2> QED
    BY <2>1, ClaimsAssumption DEF ClaimsTypeOK, Claim
<1>2. ActiveTakesPlace'
  BY DEF ClaimsTypeOK, Claim, ActiveTakesPlace, ActiveClaims
<1>3. SetsWithinLimit'
  <2> SUFFICES ASSUME NEW b \in Claimants
               PROVE  Cardinality(agentClaims'[b]) <= MaxClaimsPerAgent
    BY DEF SetsWithinLimit
  <2>1. CASE b = a
    <3>1. agentClaims'[b] = agentClaims[a] \cup {t}
      BY <2>1 DEF Claim, ClaimsTypeOK
    <3>2. agentClaims[a] \in SUBSET ClaimableTasks
      BY DEF ClaimsTypeOK
    <3>3. Cardinality(agentClaims[a]) \in Nat
      BY <3>2, SubsetsOfTasks
    <3>4. Cardinality(agentClaims[a]) < MaxClaimsPerAgent
      BY <3>3, ClaimsAssumption DEF Claim, LimitReached
    <3> QED
      BY <3>1, <3>2, <3>4, OneMoreTask
  <2>2. CASE b # a
    BY <2>2 DEF Claim, ClaimsTypeOK, SetsWithinLimit
  <2> QED
    BY <2>1, <2>2
<1> QED
  BY <1>1, <1>2, <1>3

\* release and complete give the place back.
LEMMA EndStep ==
  ASSUME ClaimsInv, NEW t \in ClaimableTasks, NEW a \in Claimants,
         NEW end \in {"released", "completed"}, End(t, a, end)
  PROVE  ClaimsInv'
<1> USE DEF ClaimsInv
<1>1. ClaimsTypeOK'
  BY ClaimsAssumption DEF ClaimsTypeOK, End
<1>2. ActiveTakesPlace'
  BY DEF ClaimsTypeOK, End, ActiveTakesPlace, ActiveClaims
<1>3. \A b \in Claimants : agentClaims'[b] \subseteq agentClaims[b]
  BY DEF ClaimsTypeOK, End
<1> QED
  BY <1>1, <1>2, <1>3, SmallerSetsWithinLimit

\* A refused claim only marks the overdue one.
LEMMA ClaimRefusedStep ==
  ASSUME ClaimsInv, NEW t \in ClaimableTasks, NEW a \in Claimants, ClaimRefused(t, a)
  PROVE  ClaimsInv'
<1> USE DEF ClaimsInv
<1>1. ClaimsTypeOK'
  BY DEF ClaimsTypeOK, ClaimRefused, Overdue
<1>2. ActiveTakesPlace'
  BY DEF ClaimsTypeOK, ClaimRefused, ActiveTakesPlace, ActiveClaims
<1>3. SetsWithinLimit'
  BY DEF ClaimRefused, SetsWithinLimit
<1> QED
  BY <1>1, <1>2, <1>3

\* getClaim gives the place of an overdue claim back to its holder.
LEMMA GetClaimStep ==
  ASSUME ClaimsInv, NEW t \in ClaimableTasks, GetClaim(t)
  PROVE  ClaimsInv'
<1> USE DEF ClaimsInv
<1>1. holder[t] \in Claimants
  BY DEF ClaimsTypeOK, GetClaim, Overdue
<1>2. ClaimsTypeOK'
  BY <1>1 DEF ClaimsTypeOK, GetClaim, Overdue
<1>3. ActiveTakesPlace'
  BY <1>1 DEF ClaimsTypeOK, GetClaim, ActiveTakesPlace, ActiveClaims
<1>4. \A b \in Claimants : agentClaims'[b] \subseteq agentClaims[b]
  BY <1>1 DEF ClaimsTypeOK, GetClaim
<1> QED
  BY <1>2, <1>3, <1>4, SmallerSetsWithinLimit

\* The clean-up does so for all overdue claims at once.
LEMMA CleanupStep ==
  ASSUME ClaimsInv, CleanupExpired
  PROVE  ClaimsInv'
<1> USE DEF ClaimsInv
<1>1. ClaimsTypeOK'
  BY DEF ClaimsTypeOK, CleanupExpired, Overdue
<1>2. ActiveTakesPlace'
  BY DEF ClaimsTypeOK, CleanupExpired, Overdue, ActiveTakesPlace, ActiveClaims
<1>3. \A b \in Claimants : agentClaims'[b] \subseteq agentClaims[b]
  BY DEF ClaimsTypeOK, CleanupExpired
<1> QED
  BY <1>1, <1>2, <1>3, SmallerSetsWithinLimit

\* Extensions and time change neither record.
LEMMA ExtendAndTickStep ==
  ASSUME ClaimsInv,
         \/ Tick
         \/ \E t \in ClaimableTasks, a \in Claimants : \E d \in Extensions(t) :
              ExtendClaim(t, a, d)
  PROVE  ClaimsInv'
<1> USE DEF ClaimsInv
<1>1. CASE Tick
  <2>1. now' \in 0 .. MaxClock
    BY <1>1, ClaimsAssumption DEF ClaimsTypeOK, Tick
  <2> QED
    BY <1>1, <2>1 DEF ClaimsTypeOK, Tick, ActiveTakesPlace, ActiveClaims,
                      SetsWithinLimit
<1>2. ASSUME NEW t \in ClaimableTasks, NEW a \in Claimants, NEW d \in Extensions(t),
             ExtendClaim(t, a, d)
      PROVE  ClaimsInv'
  <2>1. expires[t] + d \in Nat
    BY ClaimsAssumption DEF Extensions, ClaimsTypeOK
  <2> QED
    BY <1>2, <2>1 DEF ClaimsTypeOK, ExtendClaim, ActiveTakesPlace, ActiveClaims,
                      SetsWithinLimit
<1> QED
  BY <1>1, <1>2

-----------------------------------------------------------------------------
(* The theorems                                                            *)

\* The inductive invariant holds in every reachable state.
THEOREM ClaimsInvariance == ClaimsSpec => []ClaimsInv
<1>1. ClaimsInit => ClaimsInv
  <2> SUFFICES ASSUME ClaimsInit PROVE ClaimsInv
    OBVIOUS
  <2>1. ClaimsTypeOK
    BY ClaimsAssumption DEF ClaimsInit, ClaimsTypeOK
  <2>2. ActiveTakesPlace
    BY DEF ClaimsInit, ActiveTakesPlace, ActiveClaims
  <2>3. SetsWithinLimit
    BY ClaimsAssumption, FS_EmptySet DEF ClaimsInit, SetsWithinLimit
  <2> QED
    BY <2>1, <2>2, <2>3 DEF ClaimsInv
<1>2. ClaimsInv /\ [ClaimsNext]_claimsVars => ClaimsInv'
  <2> SUFFICES ASSUME ClaimsInv, [ClaimsNext]_claimsVars PROVE ClaimsInv'
    OBVIOUS
  <2>1. CASE ClaimsNext
    BY <2>1, ClaimStep, ClaimRefusedStep, EndStep, GetClaimStep, CleanupStep,
       ExtendAndTickStep DEF ClaimsNext, Release, Complete
  <2>2. CASE UNCHANGED claimsVars
    BY <2>2 DEF claimsVars, ClaimsInv, ClaimsTypeOK, ActiveTakesPlace, ActiveClaims,
                SetsWithinLimit
  <2> QED
    BY <2>1, <2>2
<1> QED
  BY <1>1, <1>2, PTL DEF ClaimsSpec

\* The two records of the claims keep their types, and a task has a holder
\* exactly when it has a status.
THEOREM ClaimsTypeCorrect == ClaimsSpec => []ClaimsTypeOK
BY ClaimsInvariance, PTL DEF ClaimsInv

\* An active claim takes a place in its holder's set.
THEOREM ActiveClaimsTakePlaces == ClaimsSpec => []ActiveTakesPlace
BY ClaimsInvariance, PTL DEF ClaimsInv

\* No agent has more active claims than maxClaimsPerAgent.
THEOREM ClaimLimit == ClaimsSpec => []LimitRespected
<1>1. ClaimsInv => LimitRespected
  <2> SUFFICES ASSUME ClaimsInv, NEW a \in Claimants
               PROVE  Cardinality(ActiveClaims(a)) <= MaxClaimsPerAgent
    BY DEF LimitRespected
  <2>1. /\ agentClaims[a] \in SUBSET ClaimableTasks
        /\ ActiveClaims(a) \in SUBSET agentClaims[a]
        /\ Cardinality(agentClaims[a]) <= MaxClaimsPerAgent
    BY DEF ClaimsInv, ClaimsTypeOK, ActiveTakesPlace, SetsWithinLimit
  <2>2. /\ Cardinality(agentClaims[a]) \in Nat
        /\ Cardinality(ActiveClaims(a)) \in Nat
        /\ Cardinality(ActiveClaims(a)) <= Cardinality(agentClaims[a])
    BY <2>1, SubsetsOfTasks
  <2> QED
    BY <2>1, <2>2, ClaimsAssumption
<1> QED
  BY <1>1, ClaimsInvariance, PTL

\* A claim that is active and not overdue is nobody else's until its holder
\* ends it.
THEOREM ClaimsAreExclusive == ClaimsSpec => ClaimsExclusive
<1> DEFINE Kept(t) ==
      status[t] = "active" /\ now < expires[t] =>
        /\ holder'[t] = holder[t]
        /\ status'[t] # "expired"
        /\ status'[t] = "active" => t \in agentClaims'[holder[t]]
<1>1. ClaimsInv /\ [ClaimsNext]_claimsVars => \A t \in ClaimableTasks : Kept(t)
  <2> SUFFICES ASSUME ClaimsInv, [ClaimsNext]_claimsVars, NEW t \in ClaimableTasks,
                      status[t] = "active", now < expires[t]
               PROVE  /\ holder'[t] = holder[t]
                      /\ status'[t] # "expired"
                      /\ status'[t] = "active" => t \in agentClaims'[holder[t]]
    OBVIOUS
  <2>1. /\ ClaimsTypeOK
        /\ holder[t] \in Claimants
        /\ t \in agentClaims[holder[t]]
    BY DEF ClaimsInv, ClaimsTypeOK, ActiveTakesPlace, ActiveClaims
  <2>2. ~Overdue(t) /\ Taken(t)
    BY <2>1 DEF Overdue, Taken, ClaimsTypeOK
  <2>3. ASSUME NEW s \in ClaimableTasks, NEW a \in Claimants, Claim(s, a)
        PROVE  /\ holder'[t] = holder[t]
               /\ status'[t] = status[t]
               /\ t \in agentClaims'[holder[t]]
    BY <2>1, <2>2, <2>3 DEF Claim, ClaimsTypeOK
  <2>4. ASSUME NEW s \in ClaimableTasks, NEW a \in Claimants, ClaimRefused(s, a)
        PROVE  /\ holder'[t] = holder[t]
               /\ status'[t] = status[t]
               /\ t \in agentClaims'[holder[t]]
    BY <2>1, <2>2, <2>4 DEF ClaimRefused, ClaimsTypeOK
  <2>5. ASSUME NEW s \in ClaimableTasks, NEW a \in Claimants,
               NEW end \in {"released", "completed"}, End(s, a, end)
        PROVE  /\ holder'[t] = holder[t]
               /\ status'[t] # "expired"
               /\ status'[t] = "active" => t \in agentClaims'[holder[t]]
    BY <2>1, <2>5 DEF End, ClaimsTypeOK
  <2>6. ASSUME NEW s \in ClaimableTasks, GetClaim(s)
        PROVE  /\ holder'[t] = holder[t]
               /\ status'[t] = status[t]
               /\ t \in agentClaims'[holder[t]]
    <3>1. s # t
      BY <2>2, <2>6 DEF GetClaim
    <3> QED
      BY <2>1, <2>6, <3>1 DEF GetClaim, ClaimsTypeOK
  <2>7. ASSUME CleanupExpired
        PROVE  /\ holder'[t] = holder[t]
               /\ status'[t] = status[t]
               /\ t \in agentClaims'[holder[t]]
    BY <2>1, <2>2, <2>7 DEF CleanupExpired, ClaimsTypeOK
  <2>8. ASSUME \/ Tick
               \/ UNCHANGED claimsVars
               \/ \E s \in ClaimableTasks, a \in Claimants : \E d \in Extensions(s) :
                    ExtendClaim(s, a, d)
        PROVE  /\ holder'[t] = holder[t]
               /\ status'[t] = status[t]
               /\ t \in agentClaims'[holder[t]]
    BY <2>1, <2>8 DEF Tick, claimsVars, ExtendClaim
  <2> QED
    BY <2>3, <2>4, <2>5, <2>6, <2>7, <2>8 DEF ClaimsNext, Release, Complete
<1> QED
  BY <1>1, ClaimsInvariance, PTL DEF ClaimsSpec, ClaimsExclusive

-----------------------------------------------------------------------------
(***************************************************************************)
(* Proofs about the hierarchy of tasks, for any set of task ids.  The      *)
(* invariant is inductive as it stands; what a removal needs is that the   *)
(* descendants are closed under children and hold no task whose parent is  *)
(* elsewhere.                                                              *)
(***************************************************************************)

-----------------------------------------------------------------------------
(* Descendants                                                             *)

\* The descendants have the children of t and of every one of them.
LEMMA DescendantsClosed ==
  ASSUME HierarchyInv, NEW t \in nodes
  PROVE  /\ children[t] \subseteq Descendants(t)
         /\ \A d \in Descendants(t) : children[d] \subseteq Descendants(t)
BY DEF HierarchyInv, ChildrenAreLinked, Descendants

\* Every descendant of t has t or a descendant of t for its parent.
LEMMA DescendantsHangTogether ==
  ASSUME HierarchyInv, NEW t \in nodes, NEW c \in Descendants(t)
  PROVE  parent[c] \in {t} \cup Descendants(t)
<1> SUFFICES ASSUME parent[c] \notin {t} \cup Descendants(t)
             PROVE  FALSE
  OBVIOUS
<1> DEFINE D == Descendants(t) \ {c}
<1>1. D \in SUBSET nodes
  BY DEF Descendants
<1>2. children[t] \subseteq D
  BY DescendantsClosed DEF HierarchyInv, ChildrenAreLinked
<1>3. ASSUME NEW d \in D PROVE children[d] \subseteq D
  BY <1>1, DescendantsClosed DEF HierarchyInv, ChildrenAreLinked
<1>4. c \in D
  BY <1>1, <1>2, <1>3 DEF Descendants
<1> QED
  BY <1>4

-----------------------------------------------------------------------------
(* Every operation keeps the invariant                                     *)

\* New nodes are linked to a parent that is registered.
LEMMA LinkStep ==
  ASSUME HierarchyInv, NEW S \in SUBSET (Tasks \ nodes),
         NEW p \in Tasks \cup {NoTask}, Link(S, p)
  PROVE  HierarchyInv'
<1> USE DEF HierarchyInv
<1>1. TypeOK'
  BY ConstantsAssumption DEF TypeOK, Link
<1>2. ChildrenAreLinked'
  <2> SUFFICES ASSUME NEW q \in nodes', NEW c \in children'[q]
               PROVE  c \in nodes' /\ parent'[c] = q /\ depth'[c] = depth'[q] + 1
    BY DEF ChildrenAreLinked
  <2>1. q \in nodes /\ q \in Tasks
    BY DEF TypeOK, Link
  <2>2. CASE c \in children[q]
    BY <2>1, <2>2 DEF TypeOK, Link, ChildrenAreLinked
  <2>3. CASE c \notin children[q]
    <3>1. q = p /\ c \in S
      BY <2>1, <2>3 DEF Link
    <3> QED
      BY <2>1, <3>1 DEF Link
  <2> QED
    BY <2>2, <2>3
<1>3. NoOrphans'
  <2> SUFFICES ASSUME NEW t \in nodes', depth'[t] > 0
               PROVE  parent'[t] \in nodes' /\ t \in children'[parent'[t]]
    BY DEF NoOrphans
  <2>1. CASE t \in S
    <3>1. p \in nodes
      BY <2>1 DEF Link, TypeOK
    <3> QED
      BY <2>1, <3>1 DEF Link, TypeOK
  <2>2. CASE t \in nodes
    <3>1. t \notin S /\ t \in Tasks
      BY <2>2 DEF TypeOK
    <3>2. parent'[t] = parent[t] /\ depth'[t] = depth[t]
      BY <3>1 DEF Link
    <3>3. parent[t] \in nodes /\ t \in children[parent[t]]
      BY <2>2, <3>2 DEF NoOrphans
    <3> QED
      BY <3>2, <3>3 DEF Link, TypeOK
  <2> QED
    BY <2>1, <2>2 DEF Link
<1> QED
  BY <1>1, <1>2, <1>3

\* A removal cuts a whole subtree out.
LEMMA RemoveStep ==
  ASSUME HierarchyInv, NEW t \in Tasks, Remove(t)
  PROVE  HierarchyInv'
<1> USE DEF HierarchyInv
<1> DEFINE removed == {t} \cup Descendants(t)
<1>1. /\ t \in nodes
      /\ nodes' = nodes \ removed
      /\ \A n \in nodes' : /\ n \in Tasks
                           /\ parent'[n] = parent[n]
                           /\ depth'[n] = depth[n]
                           /\ children'[n] = IF n = parent[t]
                                             THEN children[n] \ {t}
                                             ELSE children[n]
  BY DEF Remove, TypeOK
<1>2. TypeOK'
  BY ConstantsAssumption DEF TypeOK, Remove
<1>3. ChildrenAreLinked'
  <2> SUFFICES ASSUME NEW q \in nodes', NEW c \in children'[q]
               PROVE  c \in nodes' /\ parent'[c] = q /\ depth'[c] = depth'[q] + 1
    BY DEF ChildrenAreLinked
  <2>1. c \in children[q] /\ q \in nodes /\ q \notin removed
    BY <1>1
  <2>2. c \in nodes /\ parent[c] = q /\ depth[c] = depth[q] + 1
    BY <2>1 DEF ChildrenAreLinked
  <2>3. c # t
    BY <1>1, <2>2
  <2>4. c \notin Descendants(t)
    BY <1>1, <2>1, <2>2, DescendantsHangTogether
  <2> QED
    BY <1>1, <2>2, <2>3, <2>4
<1>4. NoOrphans'
  <2> SUFFICES ASSUME NEW n \in nodes', depth'[n] > 0
               PROVE  parent'[n] \in nodes' /\ n \in children'[parent'[n]]
    BY DEF NoOrphans
  <2>1. n \in nodes /\ n \notin removed /\ depth[n] > 0
    BY <1>1
  <2>2. parent[n] \in nodes /\ n \in children[parent[n]]
    BY <2>1 DEF NoOrphans
  <2>3. parent[n] \notin removed
    BY <1>1, <2>1, <2>2, DescendantsClosed
  <2> QED
    BY <1>1, <2>1, <2>2, <2>3
<1> QED
  BY <1>2, <1>3, <1>4

-----------------------------------------------------------------------------
(* The theorems                                                            *)

\* The inductive invariant holds in every reachable state.
THEOREM HierarchyInvariance == Spec => []HierarchyInv
<1>1. Init => HierarchyInv
  BY DEF Init, HierarchyInv, TypeOK, ChildrenAreLinked, NoOrphans
<1>2. HierarchyInv /\ [Next]_vars => HierarchyInv'
  <2> SUFFICES ASSUME HierarchyInv, [Next]_vars PROVE HierarchyInv'
    OBVIOUS
  <2>1. ASSUME NEW t \in Tasks, NEW p \in Tasks \cup {NoTask},
               RegisterTask(t, p)
        PROVE  HierarchyInv'
    BY <2>1, LinkStep DEF RegisterTask
  <2>2. ASSUME NEW p \in Tasks, NEW S \in SUBSET (Tasks \ {p}), Decompose(p, S)
        PROVE  HierarchyInv'
    <3>1. S \ nodes \in SUBSET (Tasks \ nodes)
      OBVIOUS
    <3> QED
      BY <2>2, <3>1, LinkStep DEF Decompose
  <2>3. ASSUME NEW t \in Tasks, Remove(t) PROVE HierarchyInv'
    BY <2>3, RemoveStep
  <2>4. CASE UNCHANGED vars
    BY <2>4 DEF vars, HierarchyInv, TypeOK, ChildrenAreLinked, NoOrphans
  <2> QED
    BY <2>1, <2>2, <2>3, <2>4 DEF Next
<1> QED
  BY <1>1, <1>2, PTL DEF Spec

\* The nodes keep their types, and what is not registered left nothing behind.
THEOREM HierarchyTypeCorrect == Spec => []TypeOK
BY HierarchyInvariance, PTL DEF HierarchyInv

\* The lists of children name registered tasks that are one deeper and name
\* the same parent.
THEOREM ChildrenLinked == Spec => []ChildrenAreLinked
BY HierarchyInvariance, PTL DEF HierarchyInv

\* No removal leaves a task below depth 0 without its parent.
THEOREM NoneOrphaned == Spec => []NoOrphans
BY HierarchyInvariance, PTL DEF HierarchyInv

-----------------------------------------------------------------------------
(***************************************************************************)
(* Proofs about the A2A server, for any ids and clients.  That the streams *)
(* are current is inductive once a client has no more than one stream:     *)
(* then what updateTask writes to the streams of one task is no client's   *)
(* last word of another.                                                   *)
(***************************************************************************)

\* What changes no stream and changes no task without noting who missed it.
LEMMA TasksSetQuietly ==
  ASSUME A2AServerInv, NEW k \in AllIds, NEW task \in ServedTasks,
         SetQuietly(k, task), k \in DOMAIN serverTasks,
         UNCHANGED <<streams, lastSeen>>
  PROVE  /\ serverTasks' \in [DOMAIN serverTasks -> ServedTasks]
         /\ missed' \subseteq StreamClients
         /\ StreamsAreCurrent'
<1> USE DEF A2AServerInv
<1>1. serverTasks' \in [DOMAIN serverTasks -> ServedTasks]
  BY DEF A2AServerTypeOK, SetQuietly, SetTask
<1>2. missed' \subseteq StreamClients
  BY DEF A2AServerTypeOK, SetQuietly
<1>3. StreamsAreCurrent'
  BY DEF A2AServerTypeOK, SetQuietly, SetTask, StreamsAreCurrent
<1> QED
  BY <1>1, <1>2, <1>3

\* message/send opens a task that no stream reads yet.
LEMMA MessageSendStep ==
  ASSUME A2AServerInv, NEW k \in GeneratedIds, NEW b \in BOOLEAN, HandleMessageSend(k, b)
  PROVE  A2AServerInv'
<1> USE DEF A2AServerInv
<1>1. k \in AllIds /\ [id |-> k, state |-> "submitted"] \in ServedTasks
  BY DEF AllIds, ServedTasks, ServedStates
<1>2. DOMAIN serverTasks' = DOMAIN serverTasks \cup {k}
  BY DEF HandleMessageSend, SetTask
<1>3. serverTasks' \in [DOMAIN serverTasks' -> ServedTasks]
  BY <1>1 DEF A2AServerTypeOK, HandleMessageSend, SetTask
<1>4. sends' \subseteq [key : GeneratedIds \cap DOMAIN serverTasks', streams : BOOLEAN]
  BY <1>2 DEF A2AServerTypeOK, HandleMessageSend
<1>5. A2AServerTypeOK'
  BY <1>1, <1>2, <1>3, <1>4 DEF A2AServerTypeOK, HandleMessageSend
<1>6. OneStreamEach'
  BY DEF HandleMessageSend, OneStreamEach
<1>7. StreamsAreCurrent'
  BY DEF A2AServerTypeOK, HandleMessageSend, SetTask, StreamsAreCurrent
<1> QED
  BY <1>5, <1>6, <1>7

\* The answer of onMessageSend sets the task that message/send opened.
LEMMA MessageAnsweredStep ==
  ASSUME A2AServerInv, NEW s \in sends, NEW task \in ServedTasks \cup {NoTaskSeen},
         MessageAnswered(s, task)
  PROVE  A2AServerInv'
<1> USE DEF A2AServerInv
<1>1. s.key \in AllIds /\ s.key \in DOMAIN serverTasks /\ s.streams \in BOOLEAN
  BY DEF A2AServerTypeOK
<1>2. /\ serverTasks' \in [DOMAIN serverTasks -> ServedTasks]
      /\ missed' \subseteq StreamClients
      /\ StreamsAreCurrent'
  <2>1. CASE task = NoTaskSeen
    BY <2>1 DEF MessageAnswered, A2AServerTypeOK, StreamsAreCurrent
  <2>2. CASE task # NoTaskSeen
    BY <1>1, <2>2, TasksSetQuietly DEF MessageAnswered
  <2> QED
    BY <2>1, <2>2
<1>3. streaming' \subseteq AllIds
  BY <1>1 DEF MessageAnswered, A2AServerTypeOK, ServedTasks
<1>4. A2AServerTypeOK'
  BY <1>2, <1>3 DEF MessageAnswered, A2AServerTypeOK
<1>5. OneStreamEach'
  BY DEF MessageAnswered, OneStreamEach
<1> QED
  BY <1>2, <1>4, <1>5

\* A rejection leaves tasks and streams as they are.
LEMMA MessageRejectedStep ==
  ASSUME A2AServerInv, NEW s \in sends, MessageRejected(s)
  PROVE  A2AServerInv'
BY DEF A2AServerInv, MessageRejected, A2AServerTypeOK, OneStreamEach, StreamsAreCurrent

\* An update reaches every stream of its task and no stream of another.
LEMMA UpdateTaskStep ==
  ASSUME A2AServerInv, NEW task \in ServedTasks, UpdateTask(task)
  PROVE  A2AServerInv'
<1> USE DEF A2AServerInv
<1>1. task.id \in AllIds /\ task # NoTaskSeen
  BY A2AServerAssumption DEF ServedTasks
<1>2. DOMAIN serverTasks' = DOMAIN serverTasks \cup {task.id}
  BY DEF UpdateTask, SetTask
<1>3. serverTasks' \in [DOMAIN serverTasks' -> ServedTasks]
  BY DEF A2AServerTypeOK, UpdateTask, SetTask
<1>4. A2AServerTypeOK'
  BY <1>1, <1>2, <1>3 DEF A2AServerTypeOK, UpdateTask
<1>5. OneStreamEach'
  BY <1>1 DEF UpdateTask, OneStreamEach
<1>6. StreamsAreCurrent'
  <2> SUFFICES ASSUME NEW i \in AllIds, NEW c \in streams[i], c \notin missed'
               PROVE  lastSeen'[c] = serverTasks'[i]
    BY DEF UpdateTask, StreamsAreCurrent
  <2>1. c \in StreamClients /\ i \in DOMAIN serverTasks
    BY DEF A2AServerTypeOK
  <2>2. CASE i = task.id
    BY <2>1, <2>2 DEF UpdateTask, SetTask, SubscribersOf
  <2>3. CASE i # task.id
    <3>1. c \notin streams[task.id]
      BY <1>1, <2>1, <2>3 DEF OneStreamEach
    <3>2. c \notin missed
      BY <3>1 DEF UpdateTask
    <3> QED
      BY <2>1, <2>3, <3>1, <3>2 DEF UpdateTask, SetTask, SubscribersOf, StreamsAreCurrent
  <2> QED
    BY <2>2, <2>3
<1> QED
  BY <1>4, <1>5, <1>6

\* A cancellation changes the task without telling, and is noted.
LEMMA TaskCancelStep ==
  ASSUME A2AServerInv, NEW k \in AllIds, HandleTaskCancel(k)
  PROVE  A2AServerInv'
<1> USE DEF A2AServerInv
<1>1. Canceled(k) \in ServedTasks
  BY DEF A2AServerTypeOK, HandleTaskCancel, Canceled, ServedTasks, ServedStates
<1>2. /\ serverTasks' \in [DOMAIN serverTasks -> ServedTasks]
      /\ missed' \subseteq StreamClients
      /\ StreamsAreCurrent'
  BY <1>1, TasksSetQuietly DEF HandleTaskCancel
<1>3. A2AServerTypeOK'
  BY <1>2 DEF HandleTaskCancel, A2AServerTypeOK
<1>4. OneStreamEach'
  BY DEF HandleTaskCancel, OneStreamEach
<1> QED
  BY <1>2, <1>3, <1>4

\* A stream begins with the task as it is, and ends with nothing owed.
LEMMA StreamStep ==
  ASSUME A2AServerInv, NEW c \in StreamClients,
         StreamCloses(c) \/ \E i \in AllIds : HandleSSE(c, i)
  PROVE  A2AServerInv'
<1> USE DEF A2AServerInv
<1>1. ASSUME NEW i \in AllIds, HandleSSE(c, i) PROVE A2AServerInv'
  <2>1. serverTasks[i] \in ServedTasks /\ serverTasks[i] # NoTaskSeen
    BY <1>1, A2AServerAssumption DEF HandleSSE, A2AServerTypeOK
  <2>2. A2AServerTypeOK'
    BY <1>1, <2>1 DEF HandleSSE, A2AServerTypeOK
  <2>3. \A j \in AllIds : c \notin streams[j]
    BY <1>1 DEF HandleSSE, OneStreamEach
  <2>4. OneStreamEach'
    BY <1>1, <2>1, <2>3 DEF HandleSSE, A2AServerTypeOK, OneStreamEach
  <2>5. StreamsAreCurrent'
    BY <1>1, <2>3 DEF HandleSSE, A2AServerTypeOK, StreamsAreCurrent
  <2> QED
    BY <2>2, <2>4, <2>5
<1>2. CASE StreamCloses(c)
  BY <1>2 DEF StreamCloses, A2AServerTypeOK, OneStreamEach, StreamsAreCurrent
<1> QED
  BY <1>1, <1>2

\* Whatever the agent answers and whenever, an open stream of the A2A server
\* has written its task as it is stored, unless the answer of onMessageSend
\* or a cancellation changed it since; and a client reads one task at most.
THEOREM A2AServerInvariance == A2AServerSpec => []A2AServerInv
<1>1. A2AServerInit => A2AServerInv
  BY DEF A2AServerInit, A2AServerInv, A2AServerTypeOK, OneStreamEach, StreamsAreCurrent
<1>2. A2AServerInv /\ [A2AServerNext]_a2aServerVars => A2AServerInv'
  <2> SUFFICES ASSUME A2AServerInv, [A2AServerNext]_a2aServerVars PROVE A2AServerInv'
    OBVIOUS
  <2>1. CASE A2AServerNext
    BY <2>1, MessageSendStep, MessageAnsweredStep, MessageRejectedStep, UpdateTaskStep,
       TaskCancelStep, StreamStep DEF A2AServerNext
  <2>2. CASE UNCHANGED a2aServerVars
    BY <2>2 DEF a2aServerVars, A2AServerInv, A2AServerTypeOK, OneStreamEach,
                StreamsAreCurrent
  <2> QED
    BY <2>1, <2>2
<1> QED
  BY <1>1, <1>2, PTL DEF A2AServerSpec

-----------------------------------------------------------------------------
(***************************************************************************)
(* Proofs about the task manager, for any ids, contexts and listeners and  *)
(* any nesting of the calls that listeners make.  Every end is told        *)
(* because whoever has still to hear of one is subscribed and is passed    *)
(* over by some call of emit that is under way (OwedIsUnderWay); that the  *)
(* status follows the machine needs that no two ids share a task object.   *)
(***************************************************************************)

ManagerFrames ==
  [type : EventTypes, object : DOMAIN objects, told : SUBSET Listeners, begun : BOOLEAN]

\* What the type invariant says, one fact at a time.
LEMMA ManagerFacts ==
  ASSUME ManagerTypeOK
  PROVE  /\ Len(objects) \in Nat /\ DOMAIN objects = 1..Len(objects)
         /\ Len(subscribers) \in Nat /\ DOMAIN subscribers = 1..Len(subscribers)
         /\ Len(emitting) \in Nat /\ DOMAIN emitting = 1..Len(emitting)
         /\ \A o \in DOMAIN objects : objects[o] \in TaskObjects
         /\ \A i \in DOMAIN emitting : emitting[i] \in ManagerFrames
         /\ \A i \in DOMAIN subscribers : subscribers[i] \in Listeners
         /\ \A t \in DOMAIN table :
              t \in TaskIds /\ table[t] \in DOMAIN objects /\ machines[t] \in TaskStates
         /\ DOMAIN machines = DOMAIN table
BY LenProperties, ElementOfSeq DEF ManagerTypeOK, ManagerFrames

\* A new call of emit is the innermost, has told no one and changes no other.
LEMMA EmitsOne ==
  ASSUME ManagerTypeOK, Len(emitting) < MaxNesting,
         NEW type \in EventTypes, NEW o, Emit(type, o)
  PROVE  /\ Len(emitting') = Len(emitting) + 1 /\ Len(emitting') <= MaxNesting
         /\ DOMAIN emitting' = 1..(Len(emitting) + 1)
         /\ \A i \in DOMAIN emitting : emitting'[i] = emitting[i]
         /\ emitting'[Len(emitting) + 1]
              = [type |-> type, object |-> o, told |-> {}, begun |-> FALSE]
<1> DEFINE frame == [type |-> type, object |-> o, told |-> {}, begun |-> FALSE]
<1>1. emitting \in Seq(ManagerFrames \cup {frame})
  BY LenProperties, ElementOfSeq, IsASeq, ManagerFacts DEF ManagerTypeOK, ManagerFrames
<1>2. emitting' = Append(emitting, frame) /\ frame \in ManagerFrames \cup {frame}
  BY DEF Emit
<1> HIDE DEF frame
<1>3. /\ Len(emitting') = Len(emitting) + 1
      /\ \A i \in 1..Len(emitting) : emitting'[i] = emitting[i]
      /\ emitting'[Len(emitting) + 1] = frame
      /\ emitting' \in Seq(ManagerFrames \cup {frame})
  BY <1>1, <1>2, AppendProperties
<1>4. Len(emitting) \in Nat /\ DOMAIN emitting = 1..Len(emitting)
      /\ DOMAIN emitting' = 1..Len(emitting')
  BY <1>1, <1>3, LenProperties
<1> QED
  BY <1>3, <1>4, ManagerAssumption DEF frame

\* The frames stay frames as long as no object is forgotten.
LEMMA EmitsFrames ==
  ASSUME ManagerTypeOK, Len(emitting) < MaxNesting,
         NEW type \in EventTypes, NEW o \in DOMAIN objects', Emit(type, o),
         DOMAIN objects \subseteq DOMAIN objects'
  PROVE  /\ emitting' \in Seq(ManagerFrames')
         /\ Len(emitting') <= MaxNesting
<1>1. /\ Len(emitting') = Len(emitting) + 1 /\ Len(emitting') <= MaxNesting
      /\ DOMAIN emitting' = 1..(Len(emitting) + 1)
      /\ \A i \in DOMAIN emitting : emitting'[i] = emitting[i]
      /\ emitting'[Len(emitting) + 1]
           = [type |-> type, object |-> o, told |-> {}, begun |-> FALSE]
  BY EmitsOne
<1>2. /\ Len(emitting) \in Nat /\ DOMAIN emitting = 1..Len(emitting)
      /\ \A i \in DOMAIN emitting : emitting[i] \in ManagerFrames
  BY ManagerFacts
<1>3. ManagerFrames \subseteq ManagerFrames'
  BY DEF ManagerFrames
<1>4. emitting'[Len(emitting) + 1] \in ManagerFrames'
  BY <1>1 DEF ManagerFrames
<1>5. \A i \in 1..(Len(emitting) + 1) : emitting'[i] \in ManagerFrames'
  BY <1>1, <1>2, <1>3, <1>4
<1>6. emitting' = [i \in 1..(Len(emitting) + 1) |-> emitting'[i]]
  BY <1>1 DEF Emit
<1> QED
  BY <1>1, <1>2, <1>5, <1>6, IsASeq

\* The new object is the last, and no other one changes.
LEMMA AppendsObject ==
  ASSUME ManagerTypeOK, NEW x \in TaskObjects, objects' = Append(objects, x)
  PROVE  /\ objects' \in Seq(TaskObjects)
         /\ Len(objects') = Len(objects) + 1
         /\ DOMAIN objects' = 1..(Len(objects) + 1)
         /\ \A o \in DOMAIN objects : objects'[o] = objects[o]
         /\ objects'[Len(objects) + 1] = x
<1>1. objects \in Seq(TaskObjects)
  BY DEF ManagerTypeOK
<1>2. /\ Len(objects') = Len(objects) + 1
      /\ \A i \in 1..Len(objects) : objects'[i] = objects[i]
      /\ objects'[Len(objects) + 1] = x
      /\ objects' \in Seq(TaskObjects)
  BY <1>1, AppendProperties
<1>3. DOMAIN objects = 1..Len(objects) /\ DOMAIN objects' = 1..Len(objects')
  BY <1>1, <1>2, LenProperties
<1> QED
  BY <1>2, <1>3

\* A new task has an object of its own, and no one has to hear of its end.
LEMMA CreateStep ==
  ASSUME ManagerInv, NEW t \in TaskIds, NEW c \in Contexts, Create(t, c)
  PROVE  ManagerInv'
<1> USE DEF ManagerInv
<1> DEFINE o == Len(objects) + 1
           x == [id |-> t, context |-> c, state |-> "submitted", worked |-> FALSE]
<1>1. x \in TaskObjects /\ "created" \in EventTypes
  BY DEF TaskObjects, TaskStates, EventTypes
<1>2. /\ Len(emitting) < MaxNesting
      /\ t \notin DOMAIN table /\ o <= MaxObjects
      /\ objects' = Append(objects, x)
      /\ table' = With(table, t, o)
      /\ machines' = With(machines, t, "submitted")
      /\ contextIndex' = With(contextIndex, c,
           IF c \in DOMAIN contextIndex THEN contextIndex[c] \cup {t} ELSE {t})
      /\ Emit("created", o)
      /\ subscribers' = subscribers /\ owed' = owed
  BY DEF Create, CanCall
<1> HIDE DEF x
<1>3. /\ objects' \in Seq(TaskObjects)
      /\ Len(objects') = o
      /\ DOMAIN objects' = 1..o
      /\ \A n \in DOMAIN objects : objects'[n] = objects[n]
      /\ objects'[o] = x
  BY <1>1, <1>2, AppendsObject
<1>4. Len(objects) \in Nat /\ DOMAIN objects = 1..Len(objects)
  BY ManagerFacts
<1>5. DOMAIN objects \subseteq DOMAIN objects' /\ o \in DOMAIN objects' /\ o \notin DOMAIN objects
  BY <1>3, <1>4
<1>6. /\ emitting' \in Seq(ManagerFrames')
      /\ Len(emitting') <= MaxNesting
  BY <1>1, <1>2, <1>5, EmitsFrames
<1>7. /\ Len(emitting') = Len(emitting) + 1
      /\ DOMAIN emitting' = 1..(Len(emitting) + 1)
      /\ \A i \in DOMAIN emitting : emitting'[i] = emitting[i]
      /\ emitting'[Len(emitting) + 1]
           = [type |-> "created", object |-> o, told |-> {}, begun |-> FALSE]
      /\ Len(emitting) \in Nat /\ DOMAIN emitting = 1..Len(emitting)
  BY <1>1, <1>2, EmitsOne, ManagerFacts
<1>8. /\ DOMAIN table' = DOMAIN table \cup {t} /\ table'[t] = o
      /\ \A u \in DOMAIN table : table'[u] = table[u] /\ table[u] \in DOMAIN objects
      /\ DOMAIN machines' = DOMAIN table' /\ machines'[t] = "submitted"
      /\ \A u \in DOMAIN table : machines'[u] = machines[u]
  BY <1>2, ManagerFacts DEF With
<1>9. x.id = t /\ x.context = c /\ x.state = "submitted" /\ x.worked = FALSE
  BY DEF x
<1>10. /\ DOMAIN contextIndex' = DOMAIN contextIndex \cup {c}
       /\ t \in contextIndex'[c]
       /\ \A d \in DOMAIN contextIndex : contextIndex[d] \subseteq contextIndex'[d]
       /\ \A d \in DOMAIN contextIndex' : \A u \in contextIndex'[d] :
            \/ u = t /\ d = c
            \/ d \in DOMAIN contextIndex /\ u \in contextIndex[d]
  BY <1>2 DEF With
<1>11. ManagerTypeOK'
  <2>1. table' \in [DOMAIN table' -> DOMAIN objects'] /\ DOMAIN table' \subseteq TaskIds
    <3>1. table' = [u \in DOMAIN table' |-> table'[u]]
      BY <1>2 DEF With
    <3> QED
      BY <1>5, <1>8, <3>1 DEF ManagerTypeOK
  <2>2. machines' \in [DOMAIN table' -> TaskStates]
    <3>1. machines' = [u \in DOMAIN machines' |-> machines'[u]]
      BY <1>2 DEF With
    <3>2. \A u \in DOMAIN table' : machines'[u] \in TaskStates
      BY <1>8, ManagerFacts DEF TaskStates
    <3> QED
      BY <1>8, <3>1, <3>2
  <2>3. /\ DOMAIN contextIndex' \subseteq Contexts
        /\ contextIndex' \in [DOMAIN contextIndex' -> SUBSET TaskIds]
    BY <1>2 DEF With, ManagerTypeOK
  <2> QED
    BY <1>2, <1>3, <1>6, <2>1, <2>2, <2>3 DEF ManagerTypeOK, ManagerFrames
<1>12. IndexAgrees'
  <2>1. ASSUME NEW u \in DOMAIN table'
        PROVE  LET d == objects'[table'[u]].context IN
                 d \in DOMAIN contextIndex' /\ u \in contextIndex'[d]
    <3>1. CASE u = t
      BY <1>3, <1>8, <1>9, <1>10, <3>1
    <3>2. CASE u # t
      BY <1>3, <1>8, <1>10, <3>2 DEF IndexAgrees
    <3> QED
      BY <3>1, <3>2
  <2>2. ASSUME NEW d \in DOMAIN contextIndex'
        PROVE  contextIndex'[d] # {}
    BY <1>10 DEF IndexAgrees
  <2>3. ASSUME NEW d \in DOMAIN contextIndex', NEW u \in contextIndex'[d]
        PROVE  u \in DOMAIN table' /\ objects'[table'[u]].context = d
    BY <1>3, <1>8, <1>9, <1>10 DEF IndexAgrees
  <2> QED
    BY <2>1, <2>2, <2>3 DEF IndexAgrees
<1>13. StatusFollowsMachine'
  <2>1. ASSUME NEW u \in DOMAIN table'
        PROVE  objects'[table'[u]].id = u /\ objects'[table'[u]].state = machines'[u]
    BY <1>3, <1>8, <1>9 DEF StatusFollowsMachine
  <2>2. ASSUME NEW n \in DOMAIN objects',
               objects'[n].state \in {"working", "completed", "failed"}
        PROVE  objects'[n].worked
    <3>1. n # o
      BY <1>3, <1>9, <2>2
    <3> QED
      BY <1>3, <1>4, <2>2, <3>1 DEF StatusFollowsMachine
  <2> QED
    BY <2>1, <2>2 DEF StatusFollowsMachine
<1>14. \A i \in DOMAIN emitting : emitting[i].object \in DOMAIN objects
  BY ManagerFacts DEF ManagerFrames
<1>15. EndEventsAreTrue'
  BY <1>3, <1>7, <1>14 DEF EndEventsAreTrue
<1>16. OwedIsUnderWay'
  BY <1>2, <1>3, <1>5, <1>7 DEF OwedIsUnderWay
<1>17. EndIsTold'
  BY <1>7 DEF EndIsTold
<1> QED
  BY <1>11, <1>12, <1>13, <1>15, <1>16, <1>17

\* A change of state is told to everyone if it ends the task, and a task that
\* is not at its end owes nothing and is in no event that says it is.
LEMMA UpdateStateStep ==
  ASSUME ManagerInv, NEW t \in TaskIds, NEW s \in TaskStates, UpdateState(t, s)
  PROVE  ManagerInv'
<1> USE DEF ManagerInv
<1> DEFINE o == table[t]
           type == GetEventType(s)
           Ends == {"completed", "failed", "canceled"}
<1>1. /\ Len(emitting) < MaxNesting
      /\ t \in DOMAIN table /\ CanTransitionTo(machines[t], s)
      /\ machines' = [machines EXCEPT ![t] = s]
      /\ objects' = [objects EXCEPT ![o].state = s, ![o].worked = @ \/ s = "working"]
      /\ Emit(type, o)
      /\ owed' = IF type = "updated" THEN owed
                 ELSE [owed EXCEPT ![o] = Range(subscribers)]
      /\ table' = table /\ contextIndex' = contextIndex /\ subscribers' = subscribers
  BY DEF UpdateState, CanCall
<1>2. /\ type \in EventTypes
      /\ type # "updated" => type = s /\ s \in Ends
      /\ type = "updated" => s \notin Ends
      /\ type \in Ends => type = s
  BY DEF GetEventType, EventTypes, TaskStates
<1>3. /\ o \in DOMAIN objects /\ o \in 1..Len(objects) /\ Len(objects) \in Nat
      /\ DOMAIN objects = 1..Len(objects)
      /\ objects[o] \in TaskObjects /\ objects[o].state = machines[t]
      /\ objects[o].id = t
      /\ DOMAIN machines = DOMAIN table
  BY <1>1, ManagerFacts DEF StatusFollowsMachine
<1>4. /\ DOMAIN objects' = DOMAIN objects /\ Len(objects') = Len(objects)
      /\ objects' \in Seq(TaskObjects)
      /\ \A n \in DOMAIN objects \ {o} : objects'[n] = objects[n]
      /\ objects'[o].state = s
      /\ objects'[o].worked = (objects[o].worked \/ s = "working")
      /\ \A n \in DOMAIN objects : /\ objects'[n].id = objects[n].id
                                   /\ objects'[n].context = objects[n].context
  <2> DEFINE y == [objects[o] EXCEPT !.state = s, !.worked = @ \/ s = "working"]
  <2>1. y \in TaskObjects /\ y.state = s /\ y.id = objects[o].id
        /\ y.context = objects[o].context
        /\ y.worked = (objects[o].worked \/ s = "working")
    BY <1>3 DEF TaskObjects
  <2>2. objects' = [objects EXCEPT ![o] = y]
    BY <1>1, <1>3
  <2> HIDE DEF y
  <2>3. objects \in Seq(TaskObjects)
    BY DEF ManagerTypeOK
  <2>4. /\ objects' \in Seq(TaskObjects) /\ Len(objects') = Len(objects)
        /\ \A i \in 1..Len(objects) : objects'[i] = IF i = o THEN y ELSE objects[i]
    BY <1>3, <2>1, <2>2, <2>3, ExceptSeq
  <2>5. DOMAIN objects' = 1..Len(objects')
    BY <2>4, LenProperties
  <2> QED
    BY <1>3, <2>1, <2>4, <2>5
<1>5. \A u \in DOMAIN table : table[u] = o => u = t
  BY <1>3 DEF StatusFollowsMachine
<1>6. machines[t] \notin TERMINAL_STATES /\ s \in VALID_TRANSITIONS[machines[t]]
  BY <1>1 DEF CanTransitionTo
<1>7. s \in {"completed", "failed"} => objects[o].worked
  <2>1. machines[t] \in TaskStates
    BY <1>1, ManagerFacts
  <2>2. s \in {"completed", "failed"} => machines[t] = "working"
    BY <1>6, <2>1 DEF VALID_TRANSITIONS, TERMINAL_STATES, TaskStates
  <2> QED
    BY <1>3, <2>2 DEF StatusFollowsMachine
<1>8. /\ emitting' \in Seq(ManagerFrames') /\ Len(emitting') <= MaxNesting
  BY <1>1, <1>2, <1>3, <1>4, EmitsFrames
<1>9. /\ Len(emitting') = Len(emitting) + 1
      /\ DOMAIN emitting' = 1..(Len(emitting) + 1)
      /\ \A i \in DOMAIN emitting : emitting'[i] = emitting[i]
      /\ emitting'[Len(emitting) + 1]
           = [type |-> type, object |-> o, told |-> {}, begun |-> FALSE]
      /\ Len(emitting) \in Nat /\ DOMAIN emitting = 1..Len(emitting)
  BY <1>1, <1>2, EmitsOne, ManagerFacts
<1>10. \A i \in DOMAIN emitting : emitting[i] \in ManagerFrames
  BY ManagerFacts
<1>11. objects[o].state \notin Ends
  BY <1>3, <1>6 DEF TERMINAL_STATES
<1>12. owed[o] = {}
  <2> SUFFICES ASSUME NEW l \in owed[o] PROVE FALSE
    OBVIOUS
  <2>1. o \in DOMAIN owed
    BY <1>3, ManagerAssumption DEF ManagerTypeOK
  <2>2. PICK i \in DOMAIN emitting : emitting[i].type = objects[o].state
    BY <2>1 DEF OwedIsUnderWay
  <2>3. emitting[i].type \in EventTypes /\ objects[o].state \in TaskStates
    BY <1>3, <1>10 DEF ManagerFrames, TaskObjects
  <2> QED
    BY <1>11, <2>2, <2>3 DEF EventTypes, TaskStates
<1>13. /\ owed' \in [1..MaxObjects -> SUBSET Listeners] /\ DOMAIN owed' = DOMAIN owed
       /\ \A n \in DOMAIN owed \ {o} : owed'[n] = owed[n]
       /\ owed'[o] = IF type = "updated" THEN {} ELSE Range(subscribers)
  <2>1. o \in 1..MaxObjects
    BY <1>3, ManagerAssumption DEF ManagerTypeOK
  <2>2. Range(subscribers) \subseteq Listeners
    BY ManagerFacts DEF Range
  <2> QED
    BY <1>1, <1>12, <2>1, <2>2 DEF ManagerTypeOK
<1> HIDE DEF type
<1>14. ManagerTypeOK'
  <2>1. machines' \in [DOMAIN table' -> TaskStates] /\ DOMAIN objects' = DOMAIN objects
    BY <1>1, <1>4 DEF ManagerTypeOK
  <2> QED
    BY <1>1, <1>4, <1>8, <1>13, <2>1 DEF ManagerTypeOK, ManagerFrames
<1>15. IndexAgrees'
  BY <1>1, <1>4, ManagerFacts DEF IndexAgrees
<1>16. StatusFollowsMachine'
  <2>1. ASSUME NEW u \in DOMAIN table'
        PROVE  objects'[table'[u]].id = u /\ objects'[table'[u]].state = machines'[u]
    <3>1. CASE u = t
      BY <1>1, <1>3, <1>4, <3>1
    <3>2. CASE u # t
      <4>1. table[u] # o /\ table[u] \in DOMAIN objects
        BY <1>1, <1>5, <3>2, ManagerFacts
      <4> QED
        BY <1>1, <1>4, <3>2, <4>1 DEF StatusFollowsMachine
    <3> QED
      BY <3>1, <3>2
  <2>2. ASSUME NEW n \in DOMAIN objects',
               objects'[n].state \in {"working", "completed", "failed"}
        PROVE  objects'[n].worked
    <3>1. CASE n = o
      BY <1>4, <1>7, <2>2, <3>1
    <3>2. CASE n # o
      BY <1>4, <2>2, <3>2 DEF StatusFollowsMachine
    <3> QED
      BY <3>1, <3>2
  <2> QED
    BY <2>1, <2>2 DEF StatusFollowsMachine
<1>17. EndEventsAreTrue'
  <2> SUFFICES ASSUME NEW i \in DOMAIN emitting', emitting'[i].type \in Ends
               PROVE  objects'[emitting'[i].object].state = emitting'[i].type
    BY DEF EndEventsAreTrue
  <2>1. CASE i = Len(emitting) + 1
    BY <1>2, <1>4, <1>9, <2>1
  <2>2. CASE i # Len(emitting) + 1
    <3>1. i \in DOMAIN emitting /\ emitting'[i] = emitting[i]
      BY <1>9, <2>2
    <3>2. emitting[i].object \in DOMAIN objects
      BY <1>10, <3>1 DEF ManagerFrames
    <3>3. objects[emitting[i].object].state = emitting[i].type
      BY <3>1 DEF EndEventsAreTrue
    <3>4. emitting[i].object # o
      BY <1>11, <3>1, <3>3
    <3> QED
      BY <1>4, <3>1, <3>2, <3>3, <3>4
  <2> QED
    BY <2>1, <2>2
<1>18. OwedIsUnderWay'
  <2> SUFFICES ASSUME NEW n \in DOMAIN owed', NEW l \in owed'[n]
               PROVE  /\ n \in DOMAIN objects' /\ l \in Range(subscribers')
                      /\ \E i \in DOMAIN emitting' :
                           /\ emitting'[i].object = n
                           /\ emitting'[i].type = objects'[n].state
                           /\ l \notin emitting'[i].told
    BY DEF OwedIsUnderWay
  <2>1. CASE n = o
    <3>1. type # "updated" /\ l \in Range(subscribers)
      BY <1>13, <2>1
    <3> DEFINE i == Len(emitting) + 1
    <3>2. i \in DOMAIN emitting' /\ emitting'[i].object = o
          /\ emitting'[i].type = type /\ emitting'[i].told = {}
      BY <1>9
    <3>3. type = objects'[o].state /\ o \in DOMAIN objects' /\ l \in Range(subscribers')
      BY <1>1, <1>2, <1>3, <1>4, <3>1
    <3> HIDE DEF i
    <3> QED
      BY <2>1, <3>2, <3>3
  <2>2. CASE n # o
    <3>1. n \in DOMAIN owed /\ l \in owed[n]
      BY <1>13, <2>2
    <3>2. n \in DOMAIN objects /\ l \in Range(subscribers)
      BY <3>1 DEF OwedIsUnderWay
    <3>3. PICK i \in DOMAIN emitting : /\ emitting[i].object = n
                                       /\ emitting[i].type = objects[n].state
                                       /\ l \notin emitting[i].told
      BY <3>1 DEF OwedIsUnderWay
    <3>4. i \in DOMAIN emitting' /\ emitting'[i] = emitting[i]
      BY <1>9
    <3> QED
      BY <1>1, <1>4, <2>2, <3>2, <3>3, <3>4
  <2> QED
    BY <2>1, <2>2
<1>19. EndIsTold'
  BY <1>9 DEF EndIsTold
<1> QED
  BY <1>14, <1>15, <1>16, <1>17, <1>18, <1>19

\* An update of the content repeats the event of the state, which is true.
LEMMA UpdateContentStep ==
  ASSUME ManagerInv, NEW t \in TaskIds, UpdateContent(t)
  PROVE  ManagerInv'
<1> USE DEF ManagerInv
<1> DEFINE o == table[t]
           type == GetEventType(objects[o].state)
<1>1. /\ Len(emitting) < MaxNesting /\ t \in DOMAIN table
      /\ Emit(type, o)
      /\ objects' = objects /\ table' = table /\ machines' = machines
      /\ contextIndex' = contextIndex /\ subscribers' = subscribers /\ owed' = owed
  BY DEF UpdateContent, CanCall
<1>2. o \in DOMAIN objects
  BY <1>1, ManagerFacts
<1>3. /\ type \in EventTypes
      /\ type \in {"completed", "failed", "canceled"} => type = objects[o].state
  BY DEF GetEventType, EventTypes
<1>4. /\ emitting' \in Seq(ManagerFrames') /\ Len(emitting') <= MaxNesting
  BY <1>1, <1>2, <1>3, EmitsFrames
<1>5. /\ Len(emitting') = Len(emitting) + 1
      /\ DOMAIN emitting' = 1..(Len(emitting) + 1)
      /\ \A i \in DOMAIN emitting : emitting'[i] = emitting[i]
      /\ emitting'[Len(emitting) + 1]
           = [type |-> type, object |-> o, told |-> {}, begun |-> FALSE]
      /\ Len(emitting) \in Nat /\ DOMAIN emitting = 1..Len(emitting)
  BY <1>1, <1>3, EmitsOne, ManagerFacts
<1> HIDE DEF type
<1>6. ManagerTypeOK'
  BY <1>1, <1>4 DEF ManagerTypeOK, ManagerFrames
<1>7. IndexAgrees' /\ StatusFollowsMachine'
  BY <1>1 DEF IndexAgrees, StatusFollowsMachine
<1>8. EndEventsAreTrue'
  BY <1>1, <1>3, <1>5 DEF EndEventsAreTrue
<1>9. OwedIsUnderWay'
  BY <1>1, <1>5 DEF OwedIsUnderWay
<1>10. EndIsTold'
  BY <1>5 DEF EndIsTold
<1> QED
  BY <1>6, <1>7, <1>8, <1>9, <1>10

\* A deletion leaves the index without the task and without empty contexts.
LEMMA DeleteStep ==
  ASSUME ManagerInv, NEW t \in TaskIds, Delete(t)
  PROVE  ManagerInv'
<1> USE DEF ManagerInv
<1> DEFINE c == objects[table[t]].context
<1>1. /\ t \in DOMAIN table
      /\ table' = DropFrom(table, t) /\ machines' = DropFrom(machines, t)
      /\ contextIndex' = IndexWithout(c, t)
      /\ objects' = objects /\ subscribers' = subscribers
      /\ emitting' = emitting /\ owed' = owed
  BY DEF Delete
<1>2. /\ DOMAIN machines = DOMAIN table
      /\ \A u \in DOMAIN table : table[u] \in DOMAIN objects /\ u \in TaskIds
                                 /\ machines[u] \in TaskStates
  BY ManagerFacts
<1>3. /\ DOMAIN table' = DOMAIN table \ {t} /\ DOMAIN machines' = DOMAIN table \ {t}
      /\ \A u \in DOMAIN table \ {t} : table'[u] = table[u] /\ machines'[u] = machines[u]
      /\ table' = [u \in DOMAIN table \ {t} |-> table[u]]
      /\ machines' = [u \in DOMAIN table \ {t} |-> machines[u]]
  BY <1>1, <1>2 DEF DropFrom
<1>4. c \in DOMAIN contextIndex /\ t \in contextIndex[c]
  BY <1>1 DEF IndexAgrees
<1>5. /\ DOMAIN contextIndex' \subseteq DOMAIN contextIndex
      /\ \A d \in DOMAIN contextIndex' :
           /\ contextIndex'[d] # {}
           /\ contextIndex'[d] \subseteq contextIndex[d]
           /\ d = c => t \notin contextIndex'[d]
      /\ \A d \in DOMAIN contextIndex, u \in TaskIds :
           u # t /\ u \in contextIndex[d] =>
             d \in DOMAIN contextIndex' /\ u \in contextIndex'[d]
  BY <1>1, <1>4 DEF IndexWithout, DropFrom, IndexAgrees
<1>6. ManagerTypeOK'
  <2>1. contextIndex' = [d \in DOMAIN contextIndex' |-> contextIndex'[d]]
    BY <1>1 DEF IndexWithout, DropFrom, ManagerTypeOK
  <2>2. \A d \in DOMAIN contextIndex : contextIndex[d] \subseteq TaskIds
    BY DEF ManagerTypeOK
  <2>3. contextIndex' \in [DOMAIN contextIndex' -> SUBSET TaskIds]
    BY <1>5, <2>1, <2>2
  <2>4. /\ table' \in [DOMAIN table' -> DOMAIN objects']
        /\ machines' \in [DOMAIN table' -> TaskStates]
    BY <1>1, <1>2, <1>3
  <2> QED
    BY <1>1, <1>2, <1>3, <1>5, <2>3, <2>4 DEF ManagerTypeOK
<1>7. IndexAgrees'
  <2>1. ASSUME NEW u \in DOMAIN table'
        PROVE  LET d == objects'[table'[u]].context IN
                 d \in DOMAIN contextIndex' /\ u \in contextIndex'[d]
    BY <1>1, <1>2, <1>3, <1>5 DEF IndexAgrees
  <2>2. ASSUME NEW d \in DOMAIN contextIndex', NEW u \in contextIndex'[d]
        PROVE  u \in DOMAIN table' /\ objects'[table'[u]].context = d
    <3>1. u \in contextIndex[d] /\ d \in DOMAIN contextIndex
      BY <1>5
    <3>2. u \in DOMAIN table /\ objects[table[u]].context = d
      BY <3>1 DEF IndexAgrees
    <3>3. u # t
      BY <1>5, <3>2
    <3> QED
      BY <1>1, <1>3, <3>2, <3>3
  <2> QED
    BY <1>5, <2>1, <2>2 DEF IndexAgrees
<1>8. StatusFollowsMachine'
  BY <1>1, <1>3 DEF StatusFollowsMachine
<1>9. EndEventsAreTrue' /\ OwedIsUnderWay' /\ EndIsTold'
  BY <1>1 DEF EndEventsAreTrue, OwedIsUnderWay, EndIsTold
<1> QED
  BY <1>6, <1>7, <1>8, <1>9

\* A new listener is owed nothing.
LEMMA SubscribeStep ==
  ASSUME ManagerInv, NEW l \in Listeners, Subscribe(l)
  PROVE  ManagerInv'
<1> USE DEF ManagerInv
<1>1. /\ l \notin Range(subscribers) /\ subscribers' = Append(subscribers, l)
      /\ objects' = objects /\ table' = table /\ machines' = machines
      /\ contextIndex' = contextIndex /\ emitting' = emitting /\ owed' = owed
  BY DEF Subscribe
<1>2. /\ Len(subscribers') = Len(subscribers) + 1
      /\ \A i \in 1..Len(subscribers) : subscribers'[i] = subscribers[i]
      /\ subscribers'[Len(subscribers) + 1] = l
      /\ subscribers' \in Seq(Listeners)
      /\ Len(subscribers) \in Nat /\ DOMAIN subscribers = 1..Len(subscribers)
      /\ DOMAIN subscribers' = 1..Len(subscribers')
  <2>1. subscribers \in Seq(Listeners)
    BY DEF ManagerTypeOK
  <2>2. /\ Len(subscribers') = Len(subscribers) + 1
        /\ \A i \in 1..Len(subscribers) : subscribers'[i] = subscribers[i]
        /\ subscribers'[Len(subscribers) + 1] = l
        /\ subscribers' \in Seq(Listeners)
    BY <1>1, <2>1, AppendProperties
  <2> QED
    BY <2>1, <2>2, LenProperties
<1>3. IsInjective(subscribers')
  BY <1>1, <1>2 DEF IsInjective, Range, ManagerTypeOK
<1>4. Range(subscribers) \subseteq Range(subscribers')
  BY <1>2 DEF Range
<1>5. ManagerTypeOK'
  BY <1>1, <1>2, <1>3 DEF ManagerTypeOK
<1>6. OwedIsUnderWay'
  BY <1>1, <1>4 DEF OwedIsUnderWay
<1>7. IndexAgrees' /\ StatusFollowsMachine' /\ EndEventsAreTrue' /\ EndIsTold'
  BY <1>1 DEF IndexAgrees, StatusFollowsMachine, EndEventsAreTrue, EndIsTold
<1> QED
  BY <1>5, <1>6, <1>7

\* Taking the i-th listener out keeps the others, each once.
LEMMA SubscribersWithoutOne ==
  ASSUME ManagerTypeOK, NEW i \in DOMAIN subscribers
  PROVE  /\ SubscribersWithout(i) \in Seq(Listeners)
         /\ IsInjective(SubscribersWithout(i))
         /\ Range(subscribers) \ {subscribers[i]} \subseteq Range(SubscribersWithout(i))
<1> DEFINE n == Len(subscribers)
           rest == SubscribersWithout(i)
           From(j) == IF j < i THEN j ELSE j + 1
<1>1. /\ n \in Nat /\ DOMAIN subscribers = 1..n /\ i \in 1..n
      /\ \A j \in 1..n : subscribers[j] \in Listeners
  BY ManagerFacts
<1>2. \A j \in 1..(n - 1) : From(j) \in 1..n
  BY <1>1
<1>3. rest = [j \in 1..(n - 1) |-> subscribers[From(j)]]
  BY DEF SubscribersWithout
<1> HIDE DEF rest
<1>4. rest \in Seq(Listeners)
  <2>1. n - 1 \in Nat
    BY <1>1
  <2>2. \A j \in 1..(n - 1) : rest[j] \in Listeners
    BY <1>1, <1>2, <1>3
  <2> HIDE DEF From
  <2> QED
    BY <1>3, <2>1, <2>2, IsASeq
<1>5. IsInjective(rest)
  BY <1>1, <1>2, <1>3 DEF IsInjective, ManagerTypeOK
<1>6. ASSUME NEW l \in Range(subscribers), l # subscribers[i] PROVE l \in Range(rest)
  <2>1. PICK j \in 1..n : subscribers[j] = l /\ j # i
    BY <1>1, <1>6 DEF Range
  <2> DEFINE k == IF j < i THEN j ELSE j - 1
  <2>2. k \in 1..(n - 1) /\ From(k) = j
    BY <1>1, <2>1
  <2> QED
    BY <1>3, <2>1, <2>2 DEF Range
<1> QED
  BY <1>4, <1>5, <1>6 DEF rest

\* Whoever leaves is owed nothing, and no one else is passed over for it.
LEMMA UnsubscribeStep ==
  ASSUME ManagerInv, NEW l \in Listeners, Unsubscribe(l)
  PROVE  ManagerInv'
<1> USE DEF ManagerInv
<1>1. PICK i \in DOMAIN subscribers :
        subscribers[i] = l /\ subscribers' = SubscribersWithout(i)
  BY DEF Unsubscribe
<1>2. /\ emitting' = [n \in DOMAIN emitting |-> [emitting[n] EXCEPT !.told = @ \ {l}]]
      /\ owed' = [o \in DOMAIN owed |-> owed[o] \ {l}]
      /\ objects' = objects /\ table' = table /\ machines' = machines
      /\ contextIndex' = contextIndex
  BY DEF Unsubscribe
<1>3. /\ subscribers' \in Seq(Listeners) /\ IsInjective(subscribers')
      /\ Range(subscribers) \ {l} \subseteq Range(subscribers')
  BY <1>1, SubscribersWithoutOne
<1>4. /\ Len(emitting) \in Nat /\ DOMAIN emitting = 1..Len(emitting)
      /\ \A n \in DOMAIN emitting : emitting[n] \in ManagerFrames
  BY ManagerFacts
<1>5. /\ DOMAIN emitting' = DOMAIN emitting
      /\ \A n \in DOMAIN emitting :
           /\ emitting'[n] \in ManagerFrames
           /\ emitting'[n].type = emitting[n].type
           /\ emitting'[n].object = emitting[n].object
           /\ emitting'[n].told = emitting[n].told \ {l}
  BY <1>2, <1>4 DEF ManagerFrames
<1>6. emitting' \in Seq(ManagerFrames) /\ Len(emitting') = Len(emitting)
  <2>1. emitting' = [n \in 1..Len(emitting) |-> emitting'[n]]
    BY <1>2, <1>4
  <2>2. emitting' \in Seq(ManagerFrames)
    BY <1>4, <1>5, <2>1, IsASeq
  <2>3. DOMAIN emitting' = 1..Len(emitting') /\ Len(emitting') \in Nat
    BY <2>2, LenProperties
  <2>4. 1..Len(emitting') = 1..Len(emitting)
    BY <1>4, <1>5, <2>3
  <2>5. ASSUME NEW a \in Nat, NEW b \in Nat, 1..a = 1..b PROVE a = b
    <3>1. a \in 1..a \/ a = 0
      OBVIOUS
    <3>2. b \in 1..b \/ b = 0
      OBVIOUS
    <3> QED
      BY <2>5, <3>1, <3>2
  <2>6. Len(emitting') = Len(emitting)
    BY ONLY <1>4, <2>3, <2>4, <2>5
  <2> QED
    BY <2>2, <2>6
<1>7. ManagerTypeOK'
  BY <1>2, <1>3, <1>6 DEF ManagerTypeOK, ManagerFrames
<1>8. IndexAgrees' /\ StatusFollowsMachine'
  BY <1>2 DEF IndexAgrees, StatusFollowsMachine
<1>9. EndEventsAreTrue'
  BY <1>2, <1>5 DEF EndEventsAreTrue
<1>10. OwedIsUnderWay'
  <2>1. ASSUME NEW o \in DOMAIN owed, NEW m \in owed[o], m # l
        PROVE  /\ o \in DOMAIN objects' /\ m \in Range(subscribers')
               /\ \E n \in DOMAIN emitting' :
                    /\ emitting'[n].object = o
                    /\ emitting'[n].type = objects'[o].state
                    /\ m \notin emitting'[n].told
    <3>1. o \in DOMAIN objects /\ m \in Range(subscribers)
      BY DEF OwedIsUnderWay
    <3>2. PICK n \in DOMAIN emitting : /\ emitting[n].object = o
                                       /\ emitting[n].type = objects[o].state
                                       /\ m \notin emitting[n].told
      BY DEF OwedIsUnderWay
    <3> QED
      BY <1>2, <1>3, <1>5, <2>1, <3>1, <3>2
  <2>2. DOMAIN owed' = DOMAIN owed /\ \A o \in DOMAIN owed : owed'[o] = owed[o] \ {l}
    BY <1>2
  <2> QED
    BY ONLY <2>1, <2>2 DEF OwedIsUnderWay
<1>11. EndIsTold'
  <2>1. emitting' = <<>> => emitting = <<>>
    BY <1>4, <1>6, EmptySeq DEF ManagerTypeOK
  <2>2. \A o \in DOMAIN objects : owed[o] = {} => owed'[o] = {}
    <3>1. DOMAIN objects \subseteq DOMAIN owed
      BY ManagerFacts, ManagerAssumption DEF ManagerTypeOK
    <3> QED
      BY <1>2, <3>1
  <2> QED
    BY <1>2, <2>1, <2>2 DEF EndIsTold
<1> QED
  BY <1>7, <1>8, <1>9, <1>10, <1>11

\* Whoever is told how a task ended is not owed it any more.
LEMMA TellStep ==
  ASSUME ManagerInv, Tell
  PROVE  ManagerInv'
<1> USE DEF ManagerInv
<1> DEFINE top == Len(emitting)
<1>1. PICK p \in Left(Innermost) : TellOne(subscribers[p])
  BY DEF Tell
<1> DEFINE l == subscribers[p]
<1>2. /\ emitting # <<>> /\ emitting \in Seq(ManagerFrames)
      /\ Len(emitting) \in Nat /\ DOMAIN emitting = 1..Len(emitting)
      /\ \A n \in DOMAIN emitting : emitting[n] \in ManagerFrames
      /\ l \in Listeners
  BY <1>1, ManagerFacts DEF Tell, Left, ManagerTypeOK, ManagerFrames
<1>3. top \in 1..Len(emitting) /\ top \in DOMAIN emitting
  BY <1>2, EmptySeq
<1> DEFINE frame == [emitting[top] EXCEPT !.told = @ \cup {l}, !.begun = TRUE]
<1>4. /\ frame \in ManagerFrames
      /\ frame.type = emitting[top].type /\ frame.object = emitting[top].object
      /\ frame.told = emitting[top].told \cup {l}
  BY <1>2, <1>3 DEF ManagerFrames
<1>5. /\ emitting' = [emitting EXCEPT ![top] = frame]
      /\ owed' = IF emitting[top].type = objects[emitting[top].object].state
                 THEN [owed EXCEPT ![emitting[top].object] = @ \ {l}] ELSE owed
      /\ objects' = objects /\ table' = table /\ machines' = machines
      /\ contextIndex' = contextIndex /\ subscribers' = subscribers
  BY <1>1, <1>3 DEF TellOne, Innermost
<1> HIDE DEF frame
<1>6. /\ emitting' \in Seq(ManagerFrames) /\ Len(emitting') = Len(emitting)
      /\ DOMAIN emitting' = DOMAIN emitting
      /\ \A n \in DOMAIN emitting : emitting'[n] = IF n = top THEN frame ELSE emitting[n]
  <2>1. /\ emitting' \in Seq(ManagerFrames) /\ Len(emitting') = Len(emitting)
        /\ \A n \in 1..Len(emitting) : emitting'[n] = IF n = top THEN frame ELSE emitting[n]
    BY <1>2, <1>3, <1>4, <1>5, ExceptSeq
  <2> QED
    BY <1>2, <1>5, <2>1
<1>7. /\ owed' \in [1..MaxObjects -> SUBSET Listeners]
      /\ \A o \in DOMAIN owed : owed'[o] \subseteq owed[o]
      /\ emitting[top].type = objects[emitting[top].object].state =>
           (emitting[top].object \in DOMAIN owed => l \notin owed'[emitting[top].object])
  BY <1>5 DEF ManagerTypeOK
<1>8. ManagerTypeOK'
  BY <1>5, <1>6, <1>7 DEF ManagerTypeOK, ManagerFrames
<1>9. IndexAgrees' /\ StatusFollowsMachine'
  BY <1>5 DEF IndexAgrees, StatusFollowsMachine
<1>10. EndEventsAreTrue'
  BY <1>4, <1>5, <1>6 DEF EndEventsAreTrue
<1>11. OwedIsUnderWay'
  <2> SUFFICES ASSUME NEW o \in DOMAIN owed, NEW m \in owed'[o]
               PROVE  /\ o \in DOMAIN objects' /\ m \in Range(subscribers')
                      /\ \E n \in DOMAIN emitting' :
                           /\ emitting'[n].object = o
                           /\ emitting'[n].type = objects'[o].state
                           /\ m \notin emitting'[n].told
    BY <1>7 DEF OwedIsUnderWay, ManagerTypeOK
  <2>1. m \in owed[o] /\ o \in DOMAIN objects /\ m \in Range(subscribers)
    BY <1>7 DEF OwedIsUnderWay
  <2>2. PICK n \in DOMAIN emitting : /\ emitting[n].object = o
                                     /\ emitting[n].type = objects[o].state
                                     /\ m \notin emitting[n].told
    BY <2>1 DEF OwedIsUnderWay
  <2>3. n = top => m # l
    BY <1>7, <2>2
  <2>4. /\ emitting'[n].object = o /\ emitting'[n].type = objects[o].state
        /\ m \notin emitting'[n].told
    BY <1>4, <1>6, <2>2, <2>3
  <2> QED
    BY <1>5, <1>6, <2>1, <2>4
<1>12. EndIsTold'
  <2>1. emitting' # <<>>
    BY <1>2, <1>3, <1>6, EmptySeq
  <2> QED
    BY <2>1 DEF EndIsTold
<1> QED
  BY <1>8, <1>9, <1>10, <1>11, <1>12

\* A call of emit that returns has told everyone who is subscribed.
LEMMA EmitReturnsStep ==
  ASSUME ManagerInv, EmitReturns
  PROVE  ManagerInv'
<1> USE DEF ManagerInv
<1> DEFINE top == Len(emitting)
<1>1. /\ emitting # <<>> /\ Left(emitting[top]) = {}
      /\ emitting' = SubSeq(emitting, 1, top - 1)
      /\ objects' = objects /\ table' = table /\ machines' = machines
      /\ contextIndex' = contextIndex /\ subscribers' = subscribers /\ owed' = owed
  BY DEF EmitReturns, Innermost
<1>2. /\ emitting \in Seq(ManagerFrames) /\ top \in Nat
      /\ DOMAIN emitting = 1..top /\ top >= 1 /\ top <= MaxNesting
  BY <1>1, EmptySeq, ManagerFacts DEF ManagerTypeOK, ManagerFrames
<1>3. /\ emitting' \in Seq(ManagerFrames) /\ Len(emitting') = top - 1
      /\ DOMAIN emitting' = 1..(top - 1)
      /\ \A n \in 1..(top - 1) : emitting'[n] = emitting[n]
  <2>1. /\ emitting' \in Seq(ManagerFrames) /\ Len(emitting') = top - 1
        /\ \A n \in 1..(top - 1) : emitting'[n] = emitting[n]
    <3>1. 1 \in 1..(Len(emitting) + 1) /\ top - 1 \in 0..Len(emitting)
      BY <1>2
    <3> QED
      BY <1>1, <1>2, <3>1, SubSeqProperties
  <2> QED
    BY <2>1, LenProperties
<1>4. ManagerTypeOK'
  BY <1>1, <1>2, <1>3, ManagerAssumption DEF ManagerTypeOK, ManagerFrames
<1>5. IndexAgrees' /\ StatusFollowsMachine'
  BY <1>1 DEF IndexAgrees, StatusFollowsMachine
<1>6. EndEventsAreTrue'
  BY <1>1, <1>2, <1>3 DEF EndEventsAreTrue
<1>7. OwedIsUnderWay'
  <2> SUFFICES ASSUME NEW o \in DOMAIN owed, NEW m \in owed[o]
               PROVE  /\ o \in DOMAIN objects /\ m \in Range(subscribers)
                      /\ \E n \in DOMAIN emitting' :
                           /\ emitting'[n].object = o
                           /\ emitting'[n].type = objects[o].state
                           /\ m \notin emitting'[n].told
    BY <1>1 DEF OwedIsUnderWay
  <2>1. o \in DOMAIN objects /\ m \in Range(subscribers)
    BY DEF OwedIsUnderWay
  <2>2. PICK n \in DOMAIN emitting : /\ emitting[n].object = o
                                     /\ emitting[n].type = objects[o].state
                                     /\ m \notin emitting[n].told
    BY DEF OwedIsUnderWay
  <2>3. n # top
    BY <1>1, <2>1, <2>2 DEF Left, Range
  <2> QED
    BY <1>2, <1>3, <2>1, <2>2, <2>3
<1>8. EndIsTold'
  <2>1. ASSUME emitting' = <<>>, NEW o \in DOMAIN objects, owed[o] # {} PROVE FALSE
    <3>1. o \in DOMAIN owed'
      BY <1>1, <2>1, ManagerFacts, ManagerAssumption DEF ManagerTypeOK
    <3>2. PICK n \in DOMAIN emitting' : TRUE
      BY <1>1, <1>7, <2>1, <3>1 DEF OwedIsUnderWay
    <3> QED
      BY <1>3, <2>1, <3>2, EmptySeq
  <2> QED
    BY <1>1, <2>1 DEF EndIsTold
<1> QED
  BY <1>4, <1>5, <1>6, <1>7, <1>8

\* However the listeners call back into the manager, the table, the index of
\* contexts and the machines agree, an event that says how a task ended is
\* true while it is told, and everyone who has to hear of an end has when the
\* outermost call returns.
THEOREM ManagerInvariance == ManagerSpec => []ManagerInv
<1>1. ManagerInit => ManagerInv
  <2> SUFFICES ASSUME ManagerInit PROVE ManagerInv
    OBVIOUS
  <2>1. /\ DOMAIN objects = {} /\ objects \in Seq(TaskObjects) /\ Len(objects) = 0
        /\ DOMAIN subscribers = {} /\ subscribers \in Seq(Listeners)
        /\ DOMAIN emitting = {} /\ Len(emitting) = 0
        /\ emitting \in Seq([type : EventTypes, object : DOMAIN objects,
                             told : SUBSET Listeners, begun : BOOLEAN])
    BY EmptySeq DEF ManagerInit
  <2>2. ManagerTypeOK
    BY <2>1, ManagerAssumption DEF ManagerInit, ManagerTypeOK, IsInjective
  <2> QED
    BY <2>1, <2>2 DEF ManagerInit, ManagerInv, IndexAgrees, StatusFollowsMachine,
                      EndEventsAreTrue, OwedIsUnderWay, EndIsTold
<1>2. ManagerInv /\ [ManagerNext]_managerVars => ManagerInv'
  <2> SUFFICES ASSUME ManagerInv, [ManagerNext]_managerVars PROVE ManagerInv'
    OBVIOUS
  <2>1. CASE UNCHANGED managerVars
    BY <2>1 DEF managerVars, ManagerInv, ManagerTypeOK, IndexAgrees,
                StatusFollowsMachine, EndEventsAreTrue, OwedIsUnderWay, EndIsTold
  <2>2. CASE ManagerNext
    BY <2>1, <2>2, CreateStep, UpdateStateStep, UpdateContentStep, DeleteStep,
       SubscribeStep, UnsubscribeStep, TellStep, EmitReturnsStep
       DEF ManagerNext, ManagerBoundReached
  <2> QED
    BY <2>1, <2>2
<1> QED
  BY <1>1, <1>2, PTL DEF ManagerSpec
===============================================================================
