------------------------- MODULE InterventionProofs -------------------------
(***************************************************************************)
(* Proofs about human intervention, for any humans, roles, permissions,    *)
(* clients, agents and limits: the manager, the router, the streams of     *)
(* events, the server that joins them, the audit log, the confirmations.   *)
(* InterventionInv is inductive: the three safety properties are, once the *)
(* types are known, and none needs the others.                             *)
(***************************************************************************)
EXTENDS InterventionServer, InterventionRouter, InterventionSecurity, FiniteSetTheorems,
        SequenceTheorems, TLAPS

-----------------------------------------------------------------------------
(* Every operation keeps the invariant                                     *)

\* The initial state satisfies the invariant.
LEMMA InitInv == Init => InterventionInv
<1> SUFFICES ASSUME Init PROVE InterventionInv
  OBVIOUS
<1>1. TypeOK
  <2>1. (CHOOSE h \in Humans : TRUE) \in Humans
    BY ConstantsAssumption
  <2>2. (CHOOSE r \in Roles : TRUE) \in Roles
    BY ConstantsAssumption
  <2> QED
    BY <2>1, <2>2, ConstantsAssumption DEF Init, TypeOK, SessionIds
<1> QED
  BY <1>1, ConstantsAssumption DEF Init, InterventionInv, PauserIsPresent,
     RedirectHasTimer, InterventionsBounded, SessionIds

\* The operations on the conversation itself leave it active, absent or
\* terminated, and count nothing.
LEMMA ConversationStep ==
  ASSUME InterventionInv,
         CreateConversation \/ DeleteConversation \/ EndConversation
  PROVE  InterventionInv'
<1> USE DEF InterventionInv, identity, requests
<1>1. CASE CreateConversation
  BY <1>1, ConstantsAssumption DEF CreateConversation, TypeOK, SessionIds,
     PauserIsPresent, RedirectHasTimer, InterventionsBounded
<1>2. CASE DeleteConversation
  BY <1>2, ConstantsAssumption DEF DeleteConversation, TypeOK, SessionIds,
     PauserIsPresent, RedirectHasTimer, InterventionsBounded
<1>3. CASE EndConversation
  BY <1>3, ConstantsAssumption DEF EndConversation, TypeOK, SessionIds,
     PauserIsPresent, RedirectHasTimer, InterventionsBounded
<1> QED
  BY <1>1, <1>2, <1>3

\* A new session has a new id, so it takes no one's place.
LEMMA JoinStep ==
  ASSUME InterventionInv, NEW h \in Humans, NEW r \in Roles,
         JoinConversation(h, r)
  PROVE  InterventionInv'
<1> USE DEF InterventionInv, JoinConversation
<1>1. joined + 1 \in SessionIds
  BY ConstantsAssumption DEF TypeOK, SessionIds
<1>2. TypeOK'
  BY <1>1, ConstantsAssumption DEF TypeOK, SessionIds
<1>3. PauserIsPresent' /\ RedirectHasTimer' /\ InterventionsBounded'
  BY DEF PauserIsPresent, RedirectHasTimer, InterventionsBounded
<1> QED
  BY <1>2, <1>3

\* Whoever leaves is not the pauser of a conversation that stays paused.
LEMMA LeaveStep ==
  ASSUME InterventionInv, NEW s \in SessionIds, LeaveConversation(s)
  PROVE  InterventionInv'
<1> USE DEF InterventionInv, LeaveConversation, identity, requests
<1>1. TypeOK'
  BY ConstantsAssumption DEF TypeOK, SessionIds
<1>2. PauserIsPresent'
  BY DEF PauserIsPresent
<1>3. RedirectHasTimer' /\ InterventionsBounded'
  BY DEF RedirectHasTimer, InterventionsBounded
<1> QED
  BY <1>1, <1>2, <1>3

\* An applied request keeps the types and, of what it may do to the state,
\* pauses for a session that is present and redirects with a timer.
LEMMA ApplyKeeps ==
  ASSUME InterventionInv, NEW s \in sessions, NEW action \in Actions,
         Apply(s, action), UNCHANGED <<sessions, identity, count, resting>>
  PROVE  TypeOK' /\ PauserIsPresent' /\ RedirectHasTimer'
<1> USE DEF InterventionInv, Succeeds, FailsFor, identity
<1>1. s \in SessionIds /\ s # 0
  BY DEF TypeOK, SessionIds
<1>2. CASE Record(s)
  BY <1>1, <1>2, ConstantsAssumption
     DEF Record, TypeOK, PauserIsPresent, RedirectHasTimer
<1>3. CASE Pause(s)
  BY <1>1, <1>3, ConstantsAssumption
     DEF Pause, TypeOK, PauserIsPresent, RedirectHasTimer
<1>4. CASE Resume(s)
  BY <1>1, <1>4, ConstantsAssumption
     DEF Resume, TypeOK, PauserIsPresent, RedirectHasTimer
<1>5. CASE Terminate(s)
  BY <1>1, <1>5, ConstantsAssumption
     DEF Terminate, TypeOK, PauserIsPresent, RedirectHasTimer
<1>6. CASE Redirect(s)
  BY <1>1, <1>6, ConstantsAssumption
     DEF Redirect, TypeOK, PauserIsPresent, RedirectHasTimer
<1> QED
  BY <1>2, <1>3, <1>4, <1>5, <1>6 DEF Apply

\* A request applies at most one intervention, for its own session.
LEMMA ApplyCountsOne ==
  ASSUME NEW s, NEW action, Apply(s, action)
  PROVE  \/ applied[s] < MaxConcurrent
            /\ applied' = [applied EXCEPT ![s] = @ + 1]
         \/ applied' = applied
BY DEF Apply, Record, Pause, Resume, Terminate, Redirect, Succeeds, FailsFor

\* A request is applied for a session that still had interventions left,
\* beside the fewer than MaxConcurrent already applied and not counted.
LEMMA RequestStep ==
  ASSUME InterventionInv, NEW h \in Humans, NEW action \in Actions,
         Request(h, action)
  PROVE  InterventionInv'
<1> USE DEF InterventionInv
<1>1. PICK s \in sessions : Allowed(s, action) /\ Apply(s, action)
  BY DEF Request
<1>2. TypeOK' /\ PauserIsPresent' /\ RedirectHasTimer'
  BY <1>1, ApplyKeeps DEF Request
<1>3. InterventionsBounded'
  <2> SUFFICES ASSUME NEW t \in SessionIds
               PROVE  count'[t] + applied'[t]
                        <= MaxInterventions - 1 + MaxConcurrent
    BY DEF InterventionsBounded
  <2>1. /\ s \in SessionIds
        /\ count' = count
        /\ count[s] \in Nat /\ count[s] < MaxInterventions
        /\ applied \in [SessionIds -> 0..MaxConcurrent]
    BY <1>1 DEF TypeOK, Request, Allowed
  <2>2. CASE applied' = applied
    BY <2>1, <2>2 DEF InterventionsBounded
  <2>3. CASE /\ applied[s] < MaxConcurrent
             /\ applied' = [applied EXCEPT ![s] = @ + 1]
    <3>1. CASE t = s
      BY <2>1, <2>3, <3>1, ConstantsAssumption
    <3>2. CASE t # s
      BY <2>1, <2>3, <3>2 DEF InterventionsBounded
    <3> QED
      BY <3>1, <3>2
  <2> QED
    BY <1>1, <2>2, <2>3, ApplyCountsOne
<1> QED
  BY <1>2, <1>3

\* What goes on after the await moves an intervention from applied to count,
\* or forgets a failure.
LEMMA ContinuationStep ==
  ASSUME InterventionInv, NEW s \in SessionIds, Counted(s) \/ Uncounted(s)
  PROVE  InterventionInv'
<1> USE DEF InterventionInv, Rest, conversation, identity
<1>1. TypeOK'
  <2>1. CASE Counted(s)
    BY <2>1, ConstantsAssumption DEF TypeOK, Counted
  <2>2. CASE Uncounted(s)
    BY <2>2 DEF TypeOK, Uncounted
  <2> QED
    BY <2>1, <2>2
<1>2. PauserIsPresent' /\ RedirectHasTimer'
  BY DEF Counted, Uncounted, PauserIsPresent, RedirectHasTimer
<1>3. InterventionsBounded'
  <2>1. CASE Uncounted(s)
    BY <2>1 DEF Uncounted, InterventionsBounded
  <2>2. CASE Counted(s)
    <3>1. \A t \in SessionIds :
            count'[t] + applied'[t] = count[t] + applied[t]
      BY <2>2, ConstantsAssumption DEF Counted, TypeOK
    <3> QED
      BY <3>1 DEF InterventionsBounded
  <2> QED
    BY <2>1, <2>2
<1> QED
  BY <1>1, <1>2, <1>3

\* A timer takes the redirection with it, and the cooldown nothing.
LEMMA TimeStep ==
  ASSUME InterventionInv,
         RedirectTimer \/ \E s \in SessionIds : Cool(s)
  PROVE  InterventionInv'
<1> USE DEF InterventionInv, conversation, identity, requests
<1>1. CASE RedirectTimer
  BY <1>1, ConstantsAssumption DEF RedirectTimer, TypeOK, PauserIsPresent,
     RedirectHasTimer, InterventionsBounded
<1>2. CASE \E s \in SessionIds : Cool(s)
  BY <1>2 DEF Cool, TypeOK, PauserIsPresent, RedirectHasTimer,
     InterventionsBounded
<1> QED
  BY <1>1, <1>2

-----------------------------------------------------------------------------
(* The theorems                                                            *)

\* The invariant holds of every behaviour of the manager.
THEOREM InterventionInvariance == Spec => []InterventionInv
<1>1. InterventionInv /\ [Next]_vars => InterventionInv'
  <2> SUFFICES ASSUME InterventionInv, [Next]_vars
               PROVE  InterventionInv'
    OBVIOUS
  <2>1. CASE UNCHANGED vars
    BY <2>1 DEF vars, conversation, identity, requests, InterventionInv,
       TypeOK, PauserIsPresent, RedirectHasTimer, InterventionsBounded
  <2>2. CASE Next
    BY <2>2, ConversationStep, JoinStep, LeaveStep, RequestStep,
       ContinuationStep, TimeStep DEF Next
  <2> QED
    BY <2>1, <2>2
<1> QED
  BY InitInv, <1>1, PTL DEF Spec

\* The variables keep their types: every session has an id given to it by
\* joinConversation, and no continuation runs without its request.
THEOREM InterventionTypeCorrect == Spec => []TypeOK
BY InterventionInvariance, PTL DEF InterventionInv

\* Whoever paused a conversation that is paused is still in it.
THEOREM PauserPresent == Spec => []PauserIsPresent
BY InterventionInvariance, PTL DEF InterventionInv

\* A redirected conversation becomes active again by a timer that is set.
THEOREM RedirectEnds == Spec => []RedirectHasTimer
BY InterventionInvariance, PTL DEF InterventionInv

\* A session exceeds its maximum by the concurrent requests of one turn only.
THEOREM FewInterventions == Spec => []InterventionsBounded
BY InterventionInvariance, PTL DEF InterventionInv

-----------------------------------------------------------------------------
(* The router                                                              *)

(* The invariant without what it says of the messages, which few steps       *)
(* touch, and none but Routed adds a routing to.                             *)
RoutingsOK ==
  /\ stage \in [Routings -> Stages] /\ targets \in [Routings -> SUBSET AgentSet]
  /\ delivery \in [Deliveries -> {"none", "sending", "waiting", "sent", "failed"}]
  /\ attempts \in [Deliveries -> 0..RetryAttempts]
  /\ began \in [Routings -> {"none", "active", "terminated"}]
  /\ \A r \in Routings : stage[r] = "routed" =>
       targets[r] # {} /\ \A a \in targets[r] : delivery[<<r, a>>] = "sent"
  /\ FailureIsExhausted /\ OnlyTargetsAreSent

MessagesOK ==
  /\ messages \in Seq(Routings \cup AgentSet)
  /\ \A i \in DOMAIN messages : messages[i] \in Routings =>
       stage[messages[i]] = "routed" /\ began[messages[i]] = "active"

SurroundingsOK ==
  /\ convState \in {"none", "active", "terminated"}
  /\ pendings \subseteq Routings /\ present \subseteq AgentSet

LEMMA RouterInvParts ==
  RouterInv <=> SurroundingsOK /\ RoutingsOK /\ MessagesOK
  BY DEF RouterInv, RouterTypeOK, HistoryWasDelivered, LateMessagesWereUnderWay,
         RoutingsOK, MessagesOK, SurroundingsOK

LEMMA RouterInvInit == RouterInit => RouterInv
  <1> SUFFICES ASSUME RouterInit PROVE SurroundingsOK /\ RoutingsOK /\ MessagesOK
    BY RouterInvParts
  <1> USE RouterAssumption DEF RouterInit
  <1>1. RoutingsOK
    BY DEF RoutingsOK, Stages, FailureIsExhausted, OnlyTargetsAreSent
  <1>2. SurroundingsOK /\ MessagesOK
    BY DEF SurroundingsOK, MessagesOK
  <1> QED BY <1>1, <1>2

(* A step that leaves every routing that has been reported as it is keeps    *)
(* what the invariant says of the messages.                                  *)
LEMMA SameMessages ==
  ASSUME MessagesOK, UNCHANGED messages,
         \A r \in Routings : stage[r] = "routed" => stage'[r] = "routed" /\ began'[r] = began[r]
  PROVE  MessagesOK'
  BY DEF MessagesOK

LEMMA SelectedAreAgents ==
  ASSUME NEW r \in Routings, NEW there \in SUBSET AgentSet
  PROVE  TargetAgents(r, there) \subseteq AgentSet
  <1>1. RuleOf[r] \in {"all", "originator", "specific", "capability"}
    BY RouterAssumption
  <1> QED BY <1>1 DEF TargetAgents, FirstOf

LEMMA RouteKeepsRouter ==
  ASSUME RouterInv, NEW r \in Routings, RouteIntervention(r)
  PROVE  RouterInv'
  <1>1. SurroundingsOK /\ RoutingsOK /\ MessagesOK
    BY RouterInvParts
  <1>2. /\ stage[r] = "new" /\ began' = [began EXCEPT ![r] = convState]
        /\ \/ stage' = [stage EXCEPT ![r] = "querying"] /\ convState = "active"
           \/ stage' = [stage EXCEPT ![r] = "refused"]
        /\ UNCHANGED <<convState, messages, pendings, present, targets, delivery, attempts>>
    BY <1>1 DEF RouteIntervention, MayRoute, conversationVars, SurroundingsOK
  <1>3. /\ \A q \in Routings : q # r => stage'[q] = stage[q] /\ began'[q] = began[q]
        /\ \/ stage'[r] = "querying" /\ began'[r] = "active"
           \/ stage'[r] = "refused"
    BY <1>1, <1>2 DEF RoutingsOK
  <1>4. stage' \in [Routings -> Stages] /\ began' \in [Routings -> {"none", "active", "terminated"}]
    BY <1>1, <1>2 DEF RoutingsOK, Stages, SurroundingsOK
  <1>5. FailureIsExhausted'
    BY <1>1, <1>2, <1>3 DEF RoutingsOK, FailureIsExhausted
  <1>6. OnlyTargetsAreSent'
    <2>1. ASSUME NEW d \in Deliveries
          PROVE  /\ delivery'[d] # "none" => d[2] \in targets'[d[1]] /\ stage'[d[1]] \notin {"new", "querying"}
                 /\ delivery'[d] = "waiting" => CanAttempt(d)'
      <3>1. d[1] \in Routings
        BY DEF Deliveries
      <3>2. d[1] = r => delivery[d] = "none"
        BY <1>1, <1>2 DEF RoutingsOK, OnlyTargetsAreSent
      <3>3. d[1] # r => stage'[d[1]] = stage[d[1]]
        BY <1>3, <3>1
      <3> QED BY <1>1, <1>2, <3>2, <3>3 DEF RoutingsOK, OnlyTargetsAreSent, CanAttempt
    <2>2. ASSUME NEW q \in Routings
          PROVE  /\ stage'[q] \in {"sending", "routed", "failed"} => targets'[q] # {}
                 /\ stage'[q] \in {"querying", "sending", "routed", "failed"} => began'[q] = "active"
      BY <1>1, <1>2, <1>3 DEF RoutingsOK, OnlyTargetsAreSent
    <2> QED BY <2>1, <2>2 DEF OnlyTargetsAreSent
  <1>7. RoutingsOK'
    BY <1>1, <1>2, <1>3, <1>4, <1>5, <1>6 DEF RoutingsOK
  <1>8. SurroundingsOK' /\ MessagesOK'
    BY <1>1, <1>2, <1>3, SameMessages DEF SurroundingsOK
  <1> QED BY <1>7, <1>8, RouterInvParts, PTL

LEMMA FindKeepsRouter ==
  ASSUME RouterInv, NEW r \in Routings, FindTargets(r)
  PROVE  RouterInv'
  <1>1. SurroundingsOK /\ RoutingsOK /\ MessagesOK
    BY RouterInvParts
  <1>2. PICK agents \in SUBSET AgentSet :
          /\ targets' = [targets EXCEPT ![r] = agents]
          /\ stage' = [stage EXCEPT ![r] = IF agents = {} THEN "refused" ELSE "sending"]
          /\ delivery' = [d \in Deliveries |-> IF d[1] = r /\ d[2] \in agents THEN "sending" ELSE delivery[d]]
          /\ attempts' = [d \in Deliveries |-> IF d[1] = r /\ d[2] \in agents THEN 1 ELSE attempts[d]]
    BY <1>1, SelectedAreAgents DEF FindTargets, SurroundingsOK
  <1>3. /\ stage[r] = "querying"
        /\ UNCHANGED <<convState, messages, pendings, present, began>>
    BY DEF FindTargets, conversationVars
  <1>4. /\ \A q \in Routings : q # r => stage'[q] = stage[q] /\ targets'[q] = targets[q]
        /\ targets'[r] = agents
        /\ agents = {} => stage'[r] = "refused"
        /\ agents # {} => stage'[r] = "sending"
        /\ \A d \in Deliveries : d[1] # r => delivery'[d] = delivery[d] /\ attempts'[d] = attempts[d]
    BY <1>1, <1>2 DEF RoutingsOK
  <1>5. /\ stage' \in [Routings -> Stages] /\ targets' \in [Routings -> SUBSET AgentSet]
        /\ delivery' \in [Deliveries -> {"none", "sending", "waiting", "sent", "failed"}]
        /\ attempts' \in [Deliveries -> 0..RetryAttempts]
    <2>1. 1 \in 0..RetryAttempts
      BY RouterAssumption
    <2> QED BY <1>1, <1>2, <2>1 DEF RoutingsOK, Stages
  <1>6. \A q \in Routings, a \in AgentSet : <<q, a>> \in Deliveries
    BY DEF Deliveries
  <1>7. ASSUME NEW q \in Routings, q # r, NEW a \in targets[q]
        PROVE  delivery'[<<q, a>>] = delivery[<<q, a>>] /\ attempts'[<<q, a>>] = attempts[<<q, a>>]
    <2>1. a \in AgentSet
      BY <1>1 DEF RoutingsOK
    <2> QED BY <1>4, <1>6, <1>7, <2>1
  <1>8. \A q \in Routings : stage'[q] = "routed" =>
          targets'[q] # {} /\ \A a \in targets'[q] : delivery'[<<q, a>>] = "sent"
    BY <1>1, <1>4, <1>7 DEF RoutingsOK
  <1>9. FailureIsExhausted'
    <2> SUFFICES ASSUME NEW q \in Routings, stage'[q] = "failed"
                 PROVE  \E a \in targets'[q] : delivery'[<<q, a>>] = "failed"
                                               /\ attempts'[<<q, a>>] = RetryAttempts
      BY DEF FailureIsExhausted
    <2>1. q # r /\ stage[q] = "failed" /\ targets'[q] = targets[q]
      BY <1>4
    <2>2. PICK a \in targets[q] : delivery[<<q, a>>] = "failed" /\ attempts[<<q, a>>] = RetryAttempts
      BY <1>1, <2>1 DEF RoutingsOK, FailureIsExhausted
    <2> QED BY <1>7, <2>1, <2>2
  <1>10. OnlyTargetsAreSent'
    <2>1. ASSUME NEW d \in Deliveries
          PROVE  /\ delivery'[d] # "none" => d[2] \in targets'[d[1]] /\ stage'[d[1]] \notin {"new", "querying"}
                 /\ delivery'[d] = "waiting" => CanAttempt(d)'
      <3>1. d[1] \in Routings
        BY DEF Deliveries
      <3>2. CASE d[1] = r
        <4>1. delivery[d] = "none"
          BY <1>1, <1>3, <3>2 DEF RoutingsOK, OnlyTargetsAreSent
        <4> QED BY <1>2, <1>4, <3>2, <4>1
      <3>3. CASE d[1] # r
        BY <1>1, <1>4, <3>1, <3>3 DEF RoutingsOK, OnlyTargetsAreSent, CanAttempt
      <3> QED BY <3>2, <3>3
    <2>2. ASSUME NEW q \in Routings
          PROVE  /\ stage'[q] \in {"sending", "routed", "failed"} => targets'[q] # {}
                 /\ stage'[q] \in {"querying", "sending", "routed", "failed"} => began'[q] = "active"
      BY <1>1, <1>3, <1>4 DEF RoutingsOK, OnlyTargetsAreSent
    <2> QED BY <2>1, <2>2 DEF OnlyTargetsAreSent
  <1>11. RoutingsOK'
    BY <1>1, <1>3, <1>5, <1>8, <1>9, <1>10 DEF RoutingsOK
  <1>12. SurroundingsOK' /\ MessagesOK'
    BY <1>1, <1>3, <1>4, SameMessages DEF SurroundingsOK
  <1> QED BY <1>11, <1>12, RouterInvParts, PTL

(* A send that settles, or is made again. *)
LEMMA SendKeepsRouter ==
  ASSUME RouterInv, NEW d \in Deliveries, SendSucceeds(d) \/ SendFails(d) \/ SendAgain(d)
  PROVE  RouterInv'
  <1>1. SurroundingsOK /\ RoutingsOK /\ MessagesOK /\ d[1] \in Routings /\ d[2] \in AgentSet
        /\ d = <<d[1], d[2]>>
    BY RouterInvParts DEF Deliveries
  <1>2. /\ delivery[d] \in {"sending", "waiting"}
        /\ UNCHANGED <<convState, messages, pendings, present, targets, began>>
    BY DEF SendSucceeds, SendFails, SendAgain, conversationVars
  <1>3. d[2] \in targets[d[1]] /\ stage[d[1]] \notin {"new", "querying"}
    BY <1>1, <1>2 DEF RoutingsOK, OnlyTargetsAreSent
  <1>4. stage[d[1]] # "routed"
    BY <1>1, <1>2, <1>3 DEF RoutingsOK
  <1>5. attempts[d] \in 0..RetryAttempts /\ RetryAttempts \in Nat
    BY <1>1, RouterAssumption DEF RoutingsOK
  <1>6. \/ /\ delivery[d] = "sending" /\ delivery' = [delivery EXCEPT ![d] = "sent"]
           /\ UNCHANGED <<stage, attempts>>
        \/ /\ CanAttempt(d) /\ delivery' = [delivery EXCEPT ![d] = "waiting"]
           /\ UNCHANGED <<stage, attempts>>
        \/ /\ ~CanAttempt(d) /\ delivery' = [delivery EXCEPT ![d] = "failed"]
           /\ UNCHANGED attempts
           /\ \/ stage' = stage
              \/ stage[d[1]] = "sending" /\ stage' = [stage EXCEPT ![d[1]] = "failed"]
        \/ /\ delivery[d] = "waiting" /\ delivery' = [delivery EXCEPT ![d] = "sending"]
           /\ attempts' = [attempts EXCEPT ![d] = @ + 1] /\ UNCHANGED stage
    BY DEF SendSucceeds, SendFails, SendAgain
  <1>7. delivery[d] = "waiting" => attempts[d] + 1 \in 0..RetryAttempts
    BY <1>1, <1>5 DEF RoutingsOK, OnlyTargetsAreSent, CanAttempt
  <1>8. /\ delivery' \in [Deliveries -> {"none", "sending", "waiting", "sent", "failed"}]
        /\ attempts' \in [Deliveries -> 0..RetryAttempts]
        /\ stage' \in [Routings -> Stages]
    BY <1>1, <1>6, <1>7 DEF RoutingsOK, Stages
  <1>9. \A e \in Deliveries : e # d => delivery'[e] = delivery[e] /\ attempts'[e] = attempts[e]
    BY <1>1, <1>6 DEF RoutingsOK
  <1>10. /\ \A q \in Routings : q # d[1] => stage'[q] = stage[q]
         /\ \/ stage'[d[1]] = stage[d[1]]
            \/ /\ stage[d[1]] = "sending" /\ stage'[d[1]] = "failed" /\ delivery'[d] = "failed"
               /\ attempts'[d] = attempts[d] /\ ~CanAttempt(d)
    <2>1. CASE stage' = stage
      BY <2>1
    <2>2. CASE stage' # stage
      <3>1. /\ ~CanAttempt(d) /\ delivery' = [delivery EXCEPT ![d] = "failed"] /\ attempts' = attempts
            /\ stage[d[1]] = "sending" /\ stage' = [stage EXCEPT ![d[1]] = "failed"]
        BY <1>6, <2>2
      <3> QED BY <1>1, <3>1 DEF RoutingsOK
    <2> QED BY <2>1, <2>2
  <1>11. ASSUME NEW q \in Routings, stage'[q] = "routed"
         PROVE  targets'[q] # {} /\ \A a \in targets'[q] : delivery'[<<q, a>>] = "sent"
    <2>1. q # d[1] /\ stage[q] = "routed"
      BY <1>4, <1>10, <1>11
    <2>2. \A a \in targets[q] : <<q, a>> \in Deliveries /\ <<q, a>> # d
      BY <1>1, <2>1 DEF RoutingsOK, Deliveries
    <2> QED BY <1>1, <1>2, <1>9, <2>1, <2>2 DEF RoutingsOK
  <1>12. FailureIsExhausted'
    <2> SUFFICES ASSUME NEW q \in Routings, stage'[q] = "failed"
                 PROVE  \E a \in targets'[q] : delivery'[<<q, a>>] = "failed"
                                               /\ attempts'[<<q, a>>] = RetryAttempts
      BY DEF FailureIsExhausted
    <2>1. CASE stage[q] = "failed"
      <3>1. PICK a \in targets[q] : delivery[<<q, a>>] = "failed" /\ attempts[<<q, a>>] = RetryAttempts
        BY <1>1, <2>1 DEF RoutingsOK, FailureIsExhausted
      <3>2. <<q, a>> \in Deliveries /\ <<q, a>> # d
        BY <1>1, <1>2, <3>1 DEF RoutingsOK, Deliveries
      <3> QED BY <1>2, <1>9, <3>1, <3>2
    <2>2. CASE stage[q] # "failed"
      <3>1. q = d[1] /\ delivery'[d] = "failed" /\ attempts'[d] = attempts[d] /\ ~CanAttempt(d)
        BY <1>10, <2>2
      <3>2. attempts[d] = RetryAttempts
        BY <1>5, <3>1 DEF CanAttempt
      <3> QED BY <1>1, <1>2, <1>3, <3>1, <3>2
    <2> QED BY <2>1, <2>2
  <1>13. OnlyTargetsAreSent'
    <2>1. ASSUME NEW e \in Deliveries
          PROVE  /\ delivery'[e] # "none" => e[2] \in targets'[e[1]] /\ stage'[e[1]] \notin {"new", "querying"}
                 /\ delivery'[e] = "waiting" => CanAttempt(e)'
      <3>1. e[1] \in Routings
        BY DEF Deliveries
      <3>2. stage[e[1]] \notin {"new", "querying"} => stage'[e[1]] \notin {"new", "querying"}
        BY <1>10, <3>1
      <3>3. CASE e = d
        <4>1. delivery'[d] = "waiting" => CanAttempt(d) /\ attempts'[d] = attempts[d]
          BY <1>1, <1>6 DEF RoutingsOK
        <4> QED BY <1>2, <1>3, <3>2, <3>3, <4>1 DEF CanAttempt
      <3>4. CASE e # d
        BY <1>1, <1>2, <1>9, <3>2, <3>4 DEF RoutingsOK, OnlyTargetsAreSent, CanAttempt
      <3> QED BY <3>3, <3>4
    <2>2. ASSUME NEW q \in Routings
          PROVE  /\ stage'[q] \in {"sending", "routed", "failed"} => targets'[q] # {}
                 /\ stage'[q] \in {"querying", "sending", "routed", "failed"} => began'[q] = "active"
      BY <1>1, <1>2, <1>10 DEF RoutingsOK, OnlyTargetsAreSent
    <2> QED BY <2>1, <2>2 DEF OnlyTargetsAreSent
  <1>14. RoutingsOK'
    BY <1>1, <1>2, <1>8, <1>11, <1>12, <1>13 DEF RoutingsOK
  <1>15. SurroundingsOK' /\ MessagesOK'
    <2>1. \A q \in Routings : stage[q] = "routed" => stage'[q] = "routed" /\ began'[q] = began[q]
      BY <1>2, <1>4, <1>10
    <2> QED BY <1>1, <1>2, <2>1, SameMessages DEF SurroundingsOK
  <1> QED BY <1>14, <1>15, RouterInvParts, PTL

LEMMA RoutedKeepsRouter ==
  ASSUME RouterInv, NEW r \in Routings, Routed(r)
  PROVE  RouterInv'
  <1>1. SurroundingsOK /\ RoutingsOK /\ MessagesOK
    BY RouterInvParts
  <1>2. /\ stage[r] = "sending" /\ AllSent(r) /\ stage' = [stage EXCEPT ![r] = "routed"]
        /\ messages' = messages \/ messages' = Append(messages, r)
        /\ UNCHANGED <<convState, pendings, present, targets, delivery, attempts, began>>
    BY DEF Routed
  <1>3. stage'[r] = "routed" /\ \A q \in Routings : q # r => stage'[q] = stage[q]
    BY <1>1, <1>2 DEF RoutingsOK
  <1>4. targets[r] # {} /\ began[r] = "active"
    BY <1>1, <1>2 DEF RoutingsOK, OnlyTargetsAreSent
  <1>5. RoutingsOK'
    <2>1. FailureIsExhausted'
      BY <1>1, <1>2, <1>3 DEF RoutingsOK, FailureIsExhausted
    <2>2. \A q \in Routings : stage'[q] = "routed" =>
            targets'[q] # {} /\ \A a \in targets'[q] : delivery'[<<q, a>>] = "sent"
      BY <1>1, <1>2, <1>3, <1>4 DEF RoutingsOK, AllSent
    <2>3. OnlyTargetsAreSent'
      <3>1. \A e \in Deliveries : e[1] \in Routings
        BY DEF Deliveries
      <3> QED BY <1>1, <1>2, <1>3, <1>4, <3>1 DEF RoutingsOK, OnlyTargetsAreSent, CanAttempt
    <2> QED BY <1>1, <1>2, <2>1, <2>2, <2>3 DEF RoutingsOK, Stages
  <1>6. MessagesOK'
    <2>1. CASE messages' = messages
      BY <1>1, <1>2, <1>3, <2>1, SameMessages
    <2>2. CASE messages' = Append(messages, r)
      <3>1. messages \in Seq(Routings \cup AgentSet) /\ r \in Routings \cup AgentSet
        BY <1>1 DEF MessagesOK
      <3>2. /\ messages' \in Seq(Routings \cup AgentSet) /\ DOMAIN messages' = 1..(Len(messages) + 1)
            /\ Len(messages) \in Nat /\ DOMAIN messages = 1..Len(messages)
            /\ \A i \in 1..Len(messages) : messages'[i] = messages[i]
            /\ messages'[Len(messages) + 1] = r
        BY <2>2, <3>1, AppendProperties, LenProperties
      <3> QED BY <1>1, <1>2, <1>3, <1>4, <3>2 DEF MessagesOK
    <2> QED BY <1>2, <2>1, <2>2
  <1>7. SurroundingsOK'
    BY <1>1, <1>2 DEF SurroundingsOK
  <1> QED BY <1>5, <1>6, <1>7, RouterInvParts, PTL

(* What happens around the routings. *)
LEMMA AroundKeepsRouter ==
  ASSUME RouterInv,
         \/ \E r \in Routings : RequestClarification(r)
         \/ \E a \in AgentSet : HandleAgentResponse(a) \/ AgentLeaves(a)
         \/ \E to \in {"none", "active", "terminated"} : ConversationBecomes(to)
         \/ UNCHANGED routerVars
  PROVE  RouterInv'
  <1>1. SurroundingsOK /\ RoutingsOK /\ MessagesOK
    BY RouterInvParts
  <1>2. UNCHANGED <<stage, targets, delivery, attempts, began>>
    BY DEF RequestClarification, HandleAgentResponse, AgentLeaves, ConversationBecomes, routerVars
  <1>3. RoutingsOK'
    BY <1>1, <1>2 DEF RoutingsOK, FailureIsExhausted, OnlyTargetsAreSent, CanAttempt
  <1>4. SurroundingsOK'
    BY <1>1 DEF RequestClarification, HandleAgentResponse, AgentLeaves, ConversationBecomes,
                routerVars, SurroundingsOK
  <1>5. \/ messages' = messages \/ messages' = <<>>
        \/ \E a \in AgentSet : messages' = Append(messages, a)
    BY DEF RequestClarification, HandleAgentResponse, AgentLeaves, ConversationBecomes, routerVars
  <1>6. MessagesOK'
    <2>1. CASE messages' = messages
      BY <1>1, <1>2, <2>1, SameMessages
    <2>2. CASE messages' = <<>>
      BY <2>2 DEF MessagesOK
    <2>3. ASSUME NEW a \in AgentSet, messages' = Append(messages, a) PROVE MessagesOK'
      <3>1. messages \in Seq(Routings \cup AgentSet) /\ a \in Routings \cup AgentSet
        BY <1>1 DEF MessagesOK
      <3>2. /\ messages' \in Seq(Routings \cup AgentSet) /\ DOMAIN messages' = 1..(Len(messages) + 1)
            /\ Len(messages) \in Nat /\ DOMAIN messages = 1..Len(messages)
            /\ \A i \in 1..Len(messages) : messages'[i] = messages[i]
            /\ messages'[Len(messages) + 1] = a
        BY <2>3, <3>1, AppendProperties, LenProperties
      <3>3. a \notin Routings
        BY RouterAssumption DEF AgentSet
      <3> QED BY <1>1, <1>2, <3>2, <3>3 DEF MessagesOK
    <2> QED BY <1>5, <2>1, <2>2, <2>3
  <1> QED BY <1>3, <1>4, <1>6, RouterInvParts, PTL

(* What the router reports of a request is what became of it, whatever else  *)
(* is routed meanwhile and whatever happens to the conversation.             *)
THEOREM RouterInvariance == RouterSpec => []RouterInv
  <1>1. RouterInv /\ [RouterNext]_routerVars => RouterInv'
    BY RouteKeepsRouter, FindKeepsRouter, SendKeepsRouter, RoutedKeepsRouter, AroundKeepsRouter
       DEF RouterNext, RouterStep
  <1> QED BY <1>1, RouterInvInit, PTL DEF RouterSpec

-----------------------------------------------------------------------------
(* The event streams                                                       *)

LEMMA OneClientMore ==
  ASSUME NEW D, IsFiniteSet(D), NEW i, NEW bound \in Nat, Cardinality(D) < bound
  PROVE  Cardinality(D \cup {i}) <= bound
  <1>1. Cardinality(D) \in Nat
    BY FS_CardinalityType
  <1>2. CASE i \in D
    <2>1. D \cup {i} = D
      BY <1>2
    <2> QED BY <1>1, <2>1
  <1>3. CASE i \notin D
    BY <1>1, <1>3, FS_AddElement
  <1> QED BY <1>2, <1>3

LEMMA FewerClients ==
  ASSUME StreamInv, NEW D \in SUBSET DOMAIN clients
  PROVE  IsFiniteSet(D) /\ Cardinality(D) \in Nat /\ Cardinality(D) <= MaxClients
  <1>1. IsFiniteSet(DOMAIN clients)
    BY StreamAssumption, FS_Subset DEF StreamInv, StreamTypeOK
  <1>2. IsFiniteSet(D) /\ Cardinality(D) <= Cardinality(DOMAIN clients)
    BY <1>1, FS_Subset
  <1>3. Cardinality(DOMAIN clients) \in Nat /\ Cardinality(D) \in Nat /\ MaxClients \in Nat
    BY <1>1, <1>2, FS_CardinalityType, StreamAssumption
  <1> QED BY <1>2, <1>3 DEF StreamInv, ClientsBounded

LEMMA StreamInvInit == StreamInit => StreamInv
  <1> SUFFICES ASSUME StreamInit PROVE StreamInv
    OBVIOUS
  <1>1. StreamTypeOK
    <2>1. eventCounter \in 0..MaxEventId /\ 0 \in 0..eventCounter
      BY StreamAssumption DEF StreamInit
    <2>2. lastEventId \in [Streams -> 0..eventCounter] /\ beating \in BOOLEAN
      BY <2>1 DEF StreamInit
    <2>3. DOMAIN clients = {} /\ clients \in [{} -> Streams] /\ DOMAIN named = {} /\ named \in [{} -> ClientIds]
      BY DEF StreamInit
    <2> QED BY <2>1, <2>2, <2>3 DEF StreamInit, StreamTypeOK
  <1>2. UnheardWasReplaced /\ ClientsBounded
    BY StreamAssumption, FS_EmptySet DEF StreamInit, UnheardWasReplaced, ClientsBounded
  <1> QED BY <1>1, <1>2 DEF StreamInv

(* Clients leave the Map, and their streams end. *)
LEMMA LeavingKeepsStreams ==
  ASSUME StreamInv, NEW gone,
         clients' = Without(clients, gone), named' = named,
         open' \subseteq open,
         \A s \in open : s \notin open' => s \notin Range(clients')
                                        \/ \E i \in gone \cap DOMAIN clients : clients[i] = s,
         \A i \in gone \cap DOMAIN clients : clients[i] \notin open'
  PROVE  UnheardWasReplaced' /\ ClientsBounded'
  <1>1. /\ DOMAIN clients' = DOMAIN clients \ gone
        /\ \A i \in DOMAIN clients' : clients'[i] = clients[i]
    BY DEF Without, Restrict
  <1>2. \A i \in DOMAIN clients : clients[i] \in open /\ named[clients[i]] = i
    BY DEF StreamInv, ClientsBounded
  <1>3. UnheardWasReplaced'
    <2> SUFFICES ASSUME NEW s \in open'
                 PROVE  s \in Range(clients') \/ \E t \in DOMAIN named' \ {s} : named'[t] = named'[s]
      BY DEF UnheardWasReplaced
    <2>1. CASE s \in Range(clients)
      <3>1. PICK i \in DOMAIN clients : clients[i] = s
        BY <2>1 DEF Range
      <3>2. i \in DOMAIN clients' /\ clients'[i] = s
        BY <1>1, <3>1
      <3> QED BY <3>2 DEF Range
    <2>2. CASE s \notin Range(clients)
      BY <2>2 DEF StreamInv, UnheardWasReplaced
    <2> QED BY <2>1, <2>2
  <1>4. Cardinality(DOMAIN clients') <= MaxClients
    BY <1>1, FewerClients
  <1>5. ASSUME NEW i \in DOMAIN clients' PROVE clients'[i] \in open' /\ named'[clients'[i]] = i
    <2>1. clients'[i] = clients[i] /\ i \in DOMAIN clients /\ i \notin gone
      BY <1>1
    <2>2. clients[i] \in open'
      BY <1>2, <2>1 DEF Range
    <2> QED BY <1>2, <2>1, <2>2
  <1> QED BY <1>3, <1>4, <1>5 DEF ClientsBounded

(* What StreamTypeOK says of the Map and the streams. *)
StreamsOK ==
  /\ DOMAIN clients \subseteq ClientIds /\ clients \in [DOMAIN clients -> Streams]
  /\ DOMAIN named \subseteq Streams /\ named \in [DOMAIN named -> ClientIds]
  /\ open \cup closed \subseteq DOMAIN named /\ open \cap closed = {}

(* What it says of the events. *)
EventsOK ==
  /\ eventCounter \in 0..MaxEventId
  /\ lastEventId \in [Streams -> 0..eventCounter]
  /\ view \in [Streams -> {"none", "active", "paused", "redirected", "terminated"}]
  /\ beating \in BOOLEAN

LEMMA StreamTypeParts == StreamTypeOK <=> StreamsOK /\ EventsOK
  BY DEF StreamTypeOK, StreamsOK, EventsOK

LEMMA WithoutType ==
  ASSUME StreamInv, NEW gone, clients' = Without(clients, gone)
  PROVE  DOMAIN clients' \subseteq ClientIds /\ clients' \in [DOMAIN clients' -> Streams]
  BY DEF Without, Restrict, StreamInv, StreamTypeOK

(* disconnect, of any set of ids *)
LEMMA DisconnectedKeeps ==
  ASSUME StreamInv, NEW ids, Disconnected(ids), UNCHANGED <<named, closed>>
  PROVE  StreamsOK' /\ UnheardWasReplaced' /\ ClientsBounded'
  <1>1. clients' = Without(clients, ids) /\ open' = open \ {clients[i] : i \in ids \cap DOMAIN clients}
    BY DEF Disconnected
  <1>2. UnheardWasReplaced' /\ ClientsBounded'
    BY <1>1, LeavingKeepsStreams
  <1>3. StreamsOK'
    BY <1>1, WithoutType DEF StreamInv, StreamTypeOK, StreamsOK
  <1> QED BY <1>2, <1>3

LEMMA SendToKeeps ==
  ASSUME StreamInv, NEW ids, NEW n \in Nat, NEW told, SendTo(ids, n, told),
         \A s \in Streams : told[s] \in {"none", "active", "paused", "redirected", "terminated"}
  PROVE  StreamInv'
  <1>1. PICK broken \in SUBSET ids :
          /\ Disconnected(broken)
          /\ lastEventId' = [s \in Streams |->
               IF s \in {clients[i] : i \in ids \ broken} THEN eventCounter' ELSE lastEventId[s]]
          /\ view' = [s \in Streams |->
               IF s \in {clients[i] : i \in ids \ broken} THEN told[s] ELSE view[s]]
    BY DEF SendTo
  <1>2. /\ eventCounter' = eventCounter + n /\ eventCounter' <= MaxEventId
        /\ UNCHANGED <<named, closed, beating>>
    BY DEF SendTo, NextEventId
  <1>3. StreamsOK' /\ UnheardWasReplaced' /\ ClientsBounded'
    BY <1>1, <1>2, DisconnectedKeeps
  <1>4. EventsOK
    BY StreamTypeParts DEF StreamInv
  <1>5. eventCounter \in Nat /\ eventCounter' \in 0..MaxEventId /\ 0..eventCounter \subseteq 0..eventCounter'
        /\ eventCounter' \in 0..eventCounter'
    BY <1>2, <1>4, StreamAssumption DEF EventsOK
  <1>6. lastEventId' \in [Streams -> 0..eventCounter']
    BY <1>1, <1>4, <1>5 DEF EventsOK
  <1>7. view' \in [Streams -> {"none", "active", "paused", "redirected", "terminated"}]
    BY <1>1, <1>4 DEF EventsOK
  <1>8. EventsOK'
    BY <1>2, <1>4, <1>5, <1>6, <1>7 DEF EventsOK
  <1> QED BY <1>3, <1>8, StreamTypeParts, PTL DEF StreamInv

(* A new connection: it takes the id of one that has it, or of none; or a    *)
(* write throws at once, and whoever has the id is left unheard.             *)
LEMMA ConnectionKeeps ==
  ASSUME StreamInv, NEW s \in Streams, NEW i \in ClientIds,
         NEW now \in {"none", "active", "paused", "redirected", "terminated"},
         HandleConnection(s, i, now)
  PROVE  StreamInv'
  <1> DEFINE n == IF now = "none" THEN 1 ELSE 2
  <1>1. /\ s \notin DOMAIN named /\ Cardinality(DOMAIN clients) < MaxClients
        /\ eventCounter' = eventCounter + n /\ eventCounter' <= MaxEventId
        /\ named' = Entry(named, s, i) /\ UNCHANGED <<closed, beating>>
        /\ \/ /\ clients' = Entry(clients, i, s) /\ open' = open \cup {s}
              /\ lastEventId' = [lastEventId EXCEPT ![s] = eventCounter'] /\ view' = [view EXCEPT ![s] = now]
           \/ clients' = Without(clients, {i}) /\ UNCHANGED <<open, lastEventId, view>>
    <2>1. Cardinality(DOMAIN clients) < MaxClients
      <3>1. Cardinality(DOMAIN clients) \in Nat /\ MaxClients \in Nat
        BY FewerClients, StreamAssumption
      <3> QED BY <3>1 DEF HandleConnection, AtLimit
    <2> QED BY <2>1 DEF HandleConnection
  <1>2. StreamsOK /\ EventsOK
    BY StreamTypeParts DEF StreamInv
  <1>3. /\ DOMAIN named' = DOMAIN named \cup {s} /\ named'[s] = i
        /\ \A t \in DOMAIN named : named'[t] = named[t]
        /\ named' \in [DOMAIN named' -> ClientIds] /\ DOMAIN named' \subseteq Streams
    BY <1>1, <1>2 DEF Entry, StreamsOK
  <1>4. \A j \in DOMAIN clients : /\ clients[j] \in open /\ named[clients[j]] = j
                                /\ clients[j] \in DOMAIN named /\ clients[j] # s
    BY <1>1, <1>2 DEF StreamInv, ClientsBounded, StreamsOK
  <1>5. EventsOK'
    <2>1. eventCounter \in Nat /\ n \in Nat /\ eventCounter' = eventCounter + n
      BY <1>1, <1>2 DEF EventsOK
    <2>2. eventCounter' \in 0..MaxEventId /\ 0..eventCounter \subseteq 0..eventCounter'
          /\ eventCounter' \in 0..eventCounter'
      BY <1>1, <2>1, StreamAssumption
    <2>3. lastEventId' \in [Streams -> 0..eventCounter']
      BY <1>1, <1>2, <2>2 DEF EventsOK
    <2>4. view' \in [Streams -> {"none", "active", "paused", "redirected", "terminated"}]
      BY <1>1, <1>2 DEF EventsOK
    <2> QED BY <1>1, <1>2, <2>2, <2>3, <2>4 DEF EventsOK
  <1>6. CASE /\ clients' = Entry(clients, i, s) /\ open' = open \cup {s}
    <2>1. /\ DOMAIN clients' = DOMAIN clients \cup {i} /\ clients'[i] = s
          /\ \A j \in DOMAIN clients : j # i => clients'[j] = clients[j]
          /\ clients' \in [DOMAIN clients' -> Streams] /\ DOMAIN clients' \subseteq ClientIds
      BY <1>2, <1>6 DEF Entry, StreamsOK
    <2>2. StreamsOK'
      BY <1>1, <1>2, <1>3, <1>6, <2>1 DEF StreamsOK
    <2>3. UnheardWasReplaced'
      <3> SUFFICES ASSUME NEW u \in open'
                   PROVE  u \in Range(clients') \/ \E t \in DOMAIN named' \ {u} : named'[t] = named'[u]
        BY DEF UnheardWasReplaced
      <3>1. CASE u = s
        BY <2>1, <3>1 DEF Range
      <3>2. CASE u # s /\ u \in Range(clients)
        <4>1. PICK j \in DOMAIN clients : clients[j] = u
          BY <3>2 DEF Range
        <4>2. CASE j = i
          BY <1>3, <1>4, <3>2, <4>1, <4>2
        <4>3. CASE j # i
          BY <2>1, <4>1, <4>3 DEF Range
        <4> QED BY <4>2, <4>3
      <3>3. CASE u # s /\ u \notin Range(clients)
        <4>1. u \in open /\ u \in DOMAIN named
          BY <1>2, <1>6, <3>3 DEF StreamsOK
        <4>2. PICK t \in DOMAIN named \ {u} : named[t] = named[u]
          BY <3>3, <4>1 DEF StreamInv, UnheardWasReplaced
        <4> QED BY <1>3, <4>1, <4>2
      <3> QED BY <3>1, <3>2, <3>3
    <2>4. Cardinality(DOMAIN clients') <= MaxClients
      BY <1>1, <2>1, FewerClients, OneClientMore, StreamAssumption
    <2>5. \A j \in DOMAIN clients' : clients'[j] \in open' /\ named'[clients'[j]] = j
      BY <1>3, <1>4, <1>6, <2>1
    <2>6. ClientsBounded'
      BY <2>4, <2>5 DEF ClientsBounded
    <2> QED BY <1>5, <2>2, <2>3, <2>6, StreamTypeParts, PTL DEF StreamInv
  <1>7. CASE clients' = Without(clients, {i}) /\ open' = open
    <2>1. /\ DOMAIN clients' = DOMAIN clients \ {i}
          /\ \A j \in DOMAIN clients' : clients'[j] = clients[j]
      BY <1>7 DEF Without, Restrict
    <2>2. StreamsOK'
      BY <1>1, <1>2, <1>3, <1>7, WithoutType DEF StreamsOK
    <2>3. UnheardWasReplaced'
      <3> SUFFICES ASSUME NEW u \in open
                   PROVE  u \in Range(clients') \/ \E t \in DOMAIN named' \ {u} : named'[t] = named'[u]
        BY <1>7 DEF UnheardWasReplaced
      <3>0. u \in DOMAIN named /\ u # s
        BY <1>1, <1>2 DEF StreamsOK
      <3>1. CASE u \in Range(clients)
        <4>1. PICK j \in DOMAIN clients : clients[j] = u
          BY <3>1 DEF Range
        <4>2. CASE j = i
          BY <1>3, <1>4, <3>0, <4>1, <4>2
        <4>3. CASE j # i
          BY <2>1, <4>1, <4>3 DEF Range
        <4> QED BY <4>2, <4>3
      <3>2. CASE u \notin Range(clients)
        <4>1. PICK t \in DOMAIN named \ {u} : named[t] = named[u]
          BY <3>2 DEF StreamInv, UnheardWasReplaced
        <4> QED BY <1>3, <3>0, <4>1
      <3> QED BY <3>1, <3>2
    <2>4. Cardinality(DOMAIN clients') <= MaxClients
      BY <2>1, FewerClients
    <2>5. ClientsBounded'
      BY <1>3, <1>4, <1>7, <2>1, <2>4 DEF ClientsBounded
    <2> QED BY <1>5, <2>2, <2>3, <2>5, StreamTypeParts, PTL DEF StreamInv
  <1> QED BY <1>1, <1>6, <1>7

LEMMA CloseKeeps ==
  ASSUME StreamInv, NEW s \in Streams, Close(s)
  PROVE  StreamInv'
  <1>1. /\ s \in DOMAIN named \ closed /\ closed' = closed \cup {s}
        /\ clients' = Without(clients, {named[s]})
        /\ open' = open \ ({s} \cup {clients[i] : i \in {named[s]} \cap DOMAIN clients})
        /\ UNCHANGED <<named, lastEventId, view, eventCounter, beating>>
    BY DEF Close
  <1>2. StreamsOK /\ EventsOK
    BY StreamTypeParts DEF StreamInv
  <1>3. s \notin Range(clients')
    <2> SUFFICES ASSUME NEW i \in DOMAIN clients', clients'[i] = s PROVE FALSE
      BY DEF Range
    <2>1. i \in DOMAIN clients /\ i # named[s] /\ clients[i] = s
      BY <1>1 DEF Without, Restrict
    <2> QED BY <2>1 DEF StreamInv, ClientsBounded
  <1>4. UnheardWasReplaced' /\ ClientsBounded'
    <2> DEFINE gone == {named[s]}
    <2>1. \A t \in open : t \notin open' => t \notin Range(clients')
                                          \/ \E i \in gone \cap DOMAIN clients : clients[i] = t
      BY <1>1, <1>3
    <2>2. \A i \in gone \cap DOMAIN clients : clients[i] \notin open'
      BY <1>1
    <2>3. open' \subseteq open /\ clients' = Without(clients, gone) /\ named' = named
      BY <1>1
    <2> HIDE DEF gone
    <2> QED BY <2>1, <2>2, <2>3, LeavingKeepsStreams
  <1>5. StreamsOK'
    BY <1>1, <1>2, WithoutType DEF StreamsOK
  <1>6. EventsOK'
    BY <1>1, <1>2 DEF EventsOK
  <1> QED BY <1>4, <1>5, <1>6, StreamTypeParts, PTL DEF StreamInv

(* disconnect, the heartbeat and destroy, which send no event. *)
LEMMA QuietKeeps ==
  ASSUME StreamInv, NEW ids, Disconnected(ids),
         UNCHANGED <<named, closed, lastEventId, view, eventCounter>>, beating' \in BOOLEAN
  PROVE  StreamInv'
  <1>1. StreamsOK' /\ UnheardWasReplaced' /\ ClientsBounded'
    BY DisconnectedKeeps
  <1>2. EventsOK'
    BY StreamTypeParts DEF StreamInv, EventsOK
  <1> QED BY <1>1, <1>2, StreamTypeParts, PTL DEF StreamInv

LEMMA IdleKeeps ==
  ASSUME StreamInv, UNCHANGED <<clients, named, open, closed, lastEventId, view, eventCounter>>,
         beating' \in BOOLEAN
  PROVE  StreamInv'
  BY DEF StreamInv, StreamTypeOK, UnheardWasReplaced, ClientsBounded

(* No order of connections, of which two may have one id, of failed writes,  *)
(* closes and disconnections leaves a stream in the Map that has ended, or   *)
(* one that is open out of it, but by another connection of the same id.     *)
THEOREM StreamInvariance == StreamSpec => []StreamInv
  <1>1. StreamInv /\ [StreamNext]_streamVars => StreamInv'
    <2> SUFFICES ASSUME StreamInv, [StreamNext]_streamVars PROVE StreamInv'
      OBVIOUS
    <2>0. EventsOK
      BY StreamTypeParts DEF StreamInv
    <2>1. ASSUME NEW s \in Streams, NEW i \in ClientIds, HandleConnection(s, i, "active") PROVE StreamInv'
      BY <2>1, ConnectionKeeps
    <2>2. ASSUME NEW s \in Streams, RefuseConnection(s) PROVE StreamInv'
      BY <2>0, <2>2, IdleKeeps DEF RefuseConnection, streamVars, EventsOK
    <2>3. ASSUME NEW s \in Streams, Close(s) PROVE StreamInv'
      BY <2>3, CloseKeeps
    <2>4. ASSUME NEW i \in ClientIds, Disconnect(i) PROVE StreamInv'
      BY <2>0, <2>4, QuietKeeps DEF Disconnect, EventsOK
    <2>5. \A s \in Streams : view[s] \in {"none", "active", "paused", "redirected", "terminated"}
      BY <2>0 DEF EventsOK
    <2>6. ASSUME NEW i \in ClientIds, BroadcastToConversation(i[1], 1, view) PROVE StreamInv'
      BY <2>5, <2>6, SendToKeeps DEF BroadcastToConversation
    <2>7. ASSUME NEW i \in ClientIds, NotifyInterventionRequest(i[1], {i[2]}) PROVE StreamInv'
      <3> DEFINE ids == UNION {ClientsByParticipant(i[1], p) : p \in {i[2]}}
      <3>1. ids \in SUBSET DOMAIN clients
        BY DEF ClientsByParticipant, ClientsForConversation
      <3> HIDE DEF ids
      <3>2. Cardinality(ids) \in Nat
        BY <3>1, FewerClients
      <3>3. SendTo(ids, Cardinality(ids), view)
        BY <2>7 DEF NotifyInterventionRequest, ids
      <3> QED BY <2>5, <3>2, <3>3, SendToKeeps
    <2>8. CASE StartHeartbeat \/ StopHeartbeat
      BY <2>8, IdleKeeps DEF StartHeartbeat, StopHeartbeat
    <2>9. CASE Heartbeat
      BY <2>0, <2>9, QuietKeeps DEF Heartbeat, EventsOK
    <2>10. CASE DestroyStreams
      BY <2>10, QuietKeeps DEF DestroyStreams
    <2>11. CASE UNCHANGED streamVars
      BY <2>0, <2>11, IdleKeeps DEF streamVars, EventsOK
    <2> QED BY <2>1, <2>2, <2>3, <2>4, <2>6, <2>7, <2>8, <2>9, <2>10, <2>11 DEF StreamNext
  <1> QED BY <1>1, StreamInvInit, PTL DEF StreamSpec

-----------------------------------------------------------------------------
(* The server                                                              *)

StateNames == {"none", "active", "paused", "redirected", "terminated"}

(* What the parsers demand of a call is what its handler takes. *)
LEMMA NoneMisjudged == MisjudgedRequests = {}
  <1> SUFFICES ASSUME NEW method \in InterventionMethods, NEW params \in Params
               PROVE  ~Misjudged(method, params)
    BY DEF MisjudgedRequests
  <1> USE DEF InterventionMethods, ActionMethods, StateMethods, ConversationMethods
  <1> DEFINE code == HandleInterventionJSONRPC(method, params)
  <1>1. /\ code = "call" => Valid(method, params) /\ method \notin Unconfigured
        /\ code = "-32602" => ~Valid(method, params)
    BY DEF HandleInterventionJSONRPC, Dispatch
  <1>2. ASSUME Valid(method, params), method \notin Unconfigured, UsedBy(method) # {}
        PROVE  params # NoParams /\ \A f \in UsedBy(method) : params[f] = "good"
    <2>1. method # "conversation/list"
      BY <1>2 DEF UsedBy
    <2>2. params # NoParams /\ \A f \in Required(method) : params[f] = "good"
      BY <1>2, <2>1 DEF Valid
    <2>3. UsedBy(method) \subseteq Required(method)
      BY <1>2, <2>1 DEF UsedBy, Required, Unconfigured, RequiredOfJoin, RequiredOfLeave,
                        RequiredOfSend, RequiredOfStateChange, RequiredOfRedirect
    <2> QED BY <2>2, <2>3
  <1>3. ASSUME params = [f \in Fields |-> "good"] PROVE Valid(method, params)
    <2>1. params # NoParams
      <3>1. DOMAIN params = Fields /\ DOMAIN NoParams = {}
        BY <1>3 DEF NoParams
      <3> QED BY <3>1 DEF Fields
    <2>2. Required(method) \subseteq Fields /\ Optional(method) \subseteq Fields
      BY DEF Required, Optional, Fields, RequiredOfJoin, RequiredOfLeave,
             RequiredOfSend, RequiredOfStateChange, RequiredOfRedirect, RequiredOfDelegate
    <2>3. \A f \in Fields : params[f] = "good"
      BY <1>3
    <2> QED BY <2>1, <2>2, <2>3 DEF Valid
  <1> HIDE DEF code
  <1>4. ~(code = "call" /\ ~(params # NoParams /\ \A f \in UsedBy(method) : params[f] = "good")
            /\ UsedBy(method) # {})
    BY <1>1, <1>2
  <1>5. ~(code = "-32602" /\ params = [f \in Fields |-> "good"])
    BY <1>1, <1>3
  <1> QED BY <1>4, <1>5 DEF Misjudged, code

(* What the clients see stays what it was, but for what nothing tells them. *)
LEMMA ViewKept ==
  ASSUME ViewIsCurrent,
         \A i \in DOMAIN clients' : /\ i \in DOMAIN clients /\ clients'[i] = clients[i]
                                  /\ view'[clients[i]] = view[clients[i]],
         state' = state \/ (state = "redirected" /\ state' = "active") \/ state' = "none"
  PROVE  ViewIsCurrent'
  BY DEF ViewIsCurrent, ClientsForConversation

LEMMA UnchangedStreams ==
  ASSUME StreamInv, ViewIsCurrent, UNCHANGED streamVars,
         state' = state \/ (state = "redirected" /\ state' = "active") \/ state' = "none"
  PROVE  StreamInv' /\ ViewIsCurrent' /\ IdsGrow
  <1>1. EventsOK
    BY StreamTypeParts DEF StreamInv
  <1>2. StreamInv'
    BY <1>1, IdleKeeps DEF streamVars, EventsOK
  <1>3. ViewIsCurrent'
    BY ViewKept DEF streamVars
  <1>4. IdsGrow
    BY <1>1 DEF IdsGrow, streamVars, EventsOK
  <1> QED BY <1>2, <1>3, <1>4

(* Events to all clients of the conversation. *)
LEMMA BroadcastReaches ==
  ASSUME StreamInv, NEW n \in Nat \ {0}, NEW told \in [Streams -> StateNames],
         BroadcastToConversation(Conversation, n, told)
  PROVE  /\ StreamInv' /\ IdsGrow
         /\ \A i \in DOMAIN clients' :
              /\ i \in DOMAIN clients /\ clients'[i] = clients[i] /\ clients[i] \in Streams
              /\ i[1] = Conversation => view'[clients[i]] = told[clients[i]]
              /\ i[1] # Conversation => view'[clients[i]] = view[clients[i]]
  <1> DEFINE ids == ClientsForConversation(Conversation)
  <1>1. PICK broken \in SUBSET ids :
          /\ Disconnected(broken)
          /\ lastEventId' = [s \in Streams |->
               IF s \in {clients[i] : i \in ids \ broken} THEN eventCounter' ELSE lastEventId[s]]
          /\ view' = [s \in Streams |->
               IF s \in {clients[i] : i \in ids \ broken} THEN told[s] ELSE view[s]]
    BY DEF BroadcastToConversation, SendTo
  <1>2. eventCounter' = eventCounter + n
    BY DEF BroadcastToConversation, SendTo, NextEventId
  <1>3. StreamInv'
    <2>1. \A s \in Streams : told[s] \in {"none", "active", "paused", "redirected", "terminated"}
      BY DEF StateNames
    <2> QED BY <2>1, SendToKeeps DEF BroadcastToConversation
  <1>4. EventsOK
    BY StreamTypeParts DEF StreamInv
  <1>5. IdsGrow
    <2>1. eventCounter \in Nat /\ eventCounter' > eventCounter
      BY <1>2, <1>4 DEF EventsOK
    <2>2. \A s \in Streams : lastEventId[s] \in Nat /\ lastEventId[s] <= eventCounter
      BY <1>4 DEF EventsOK
    <2> QED BY <1>1, <1>2, <2>1, <2>2 DEF IdsGrow
  <1>6. ASSUME NEW i \in DOMAIN clients'
        PROVE  /\ i \in DOMAIN clients /\ clients'[i] = clients[i] /\ clients[i] \in Streams
               /\ i[1] = Conversation => view'[clients[i]] = told[clients[i]]
               /\ i[1] # Conversation => view'[clients[i]] = view[clients[i]]
    <2>1. /\ i \in DOMAIN clients /\ i \notin broken /\ clients'[i] = clients[i]
          /\ clients[i] \in Streams
      BY <1>1 DEF Disconnected, Without, Restrict, StreamInv, StreamTypeOK
    <2>2. (i \in ids) = (i[1] = Conversation)
      BY <2>1 DEF ClientsForConversation
    <2>3. CASE i[1] = Conversation
      BY <1>1, <2>1, <2>2, <2>3
    <2>4. CASE i[1] # Conversation
      <3>1. \A j \in ids : clients[j] # clients[i]
        BY <2>1, <2>2, <2>4 DEF StreamInv, ClientsBounded, ClientsForConversation
      <3> QED BY <1>1, <2>1, <2>4, <3>1
    <2> QED BY <2>1, <2>3, <2>4
  <1> QED BY <1>3, <1>5, <1>6

(* The state is announced, as it is after the step. *)
LEMMA AnnouncedIsCurrent ==
  ASSUME StreamInv, ViewIsCurrent, state' \in StateNames, NEW n \in Nat \ {0}, Announce(n)
  PROVE  /\ StreamInv' /\ ViewIsCurrent' /\ IdsGrow
         /\ \A i \in DOMAIN clients' : i[1] = Conversation => view'[clients'[i]] = state'
  <1>1. PICK told \in [Streams -> StateNames] :
          told = [s \in Streams |-> state'] /\ BroadcastToConversation(Conversation, n, told)
    BY DEF Announce, BroadcastState
  <1>2. StreamInv' /\ IdsGrow
    BY <1>1, BroadcastReaches
  <1>3. \A i \in DOMAIN clients' : i[1] = Conversation => view'[clients'[i]] = state'
    BY <1>1, BroadcastReaches
  <1>4. ViewIsCurrent'
    BY <1>3 DEF ViewIsCurrent, ClientsForConversation
  <1> QED BY <1>2, <1>3, <1>4

(* Another event, of which the state is no part. *)
LEMMA ToldIsCurrent ==
  ASSUME StreamInv, ViewIsCurrent, state' = state, NEW n \in Nat \ {0}, Tell(n)
  PROVE  StreamInv' /\ ViewIsCurrent' /\ IdsGrow
  <1>1. view \in [Streams -> StateNames]
    BY DEF StreamInv, StreamTypeOK, StateNames
  <1>2. StreamInv' /\ IdsGrow
    BY <1>1, BroadcastReaches DEF Tell
  <1>3. \A i \in DOMAIN clients' : /\ i \in DOMAIN clients /\ clients'[i] = clients[i]
                                 /\ view'[clients[i]] = view[clients[i]]
    BY <1>1, BroadcastReaches DEF Tell
  <1> QED BY <1>2, <1>3, ViewKept

(* Clients leave, by a close, a disconnect or destroy. *)
LEMMA LeavingIsCurrent ==
  ASSUME StreamInv, StreamInv', ViewIsCurrent, NEW gone, clients' = Without(clients, gone),
         UNCHANGED <<lastEventId, view, state>>
  PROVE  ViewIsCurrent' /\ IdsGrow
  <1>1. \A i \in DOMAIN clients' : i \in DOMAIN clients /\ clients'[i] = clients[i]
    BY DEF Without, Restrict
  <1>2. ViewIsCurrent'
    BY <1>1, ViewKept
  <1>3. IdsGrow
    BY DEF StreamInv, StreamTypeOK, IdsGrow
  <1> QED BY <1>2, <1>3

(* A new client is told the state that is. *)
LEMMA ConnectionIsCurrent ==
  ASSUME StreamInv, ViewIsCurrent, state \in StateNames, state' = state,
         NEW s \in Streams, NEW i \in ClientIds, HandleConnection(s, i, state)
  PROVE  StreamInv' /\ ViewIsCurrent' /\ IdsGrow
  <1>1. StreamInv'
    BY ConnectionKeeps DEF StateNames
  <1>2. /\ s \notin DOMAIN named
        /\ eventCounter' = eventCounter + 1 \/ eventCounter' = eventCounter + 2
        /\ \/ /\ clients' = Entry(clients, i, s)
              /\ lastEventId' = [lastEventId EXCEPT ![s] = eventCounter'] /\ view' = [view EXCEPT ![s] = state]
           \/ clients' = Without(clients, {i}) /\ UNCHANGED <<lastEventId, view>>
    BY DEF HandleConnection
  <1>3. \A j \in DOMAIN clients : clients[j] # s /\ clients[j] \in Streams
    BY <1>2 DEF StreamInv, StreamTypeOK, ClientsBounded
  <1>4. ViewIsCurrent'
    <2>1. CASE clients' = Entry(clients, i, s) /\ view' = [view EXCEPT ![s] = state]
      <3>1. DOMAIN view = Streams
        BY DEF StreamInv, StreamTypeOK
      <3>2. ASSUME NEW j \in DOMAIN clients', j[1] = Conversation
            PROVE  \/ view'[clients'[j]] = state
                   \/ view'[clients'[j]] = "redirected" /\ state = "active"
                   \/ state = "none"
        <4>1. CASE j = i
          BY <2>1, <3>1, <4>1 DEF Entry
        <4>2. CASE j # i
          <5>1. j \in DOMAIN clients /\ clients'[j] = clients[j]
            BY <2>1, <4>2 DEF Entry
          <5>2. view'[clients[j]] = view[clients[j]]
            BY <1>3, <2>1, <5>1
          <5> QED BY <3>2, <5>1, <5>2 DEF ViewIsCurrent, ClientsForConversation
        <4> QED BY <4>1, <4>2
      <3> QED BY <3>2 DEF ViewIsCurrent, ClientsForConversation
    <2>2. CASE clients' = Without(clients, {i}) /\ view' = view
      <3>1. \A j \in DOMAIN clients' : j \in DOMAIN clients /\ clients'[j] = clients[j]
        BY <2>2 DEF Without, Restrict
      <3> QED BY <2>2, <3>1, ViewKept
    <2> QED BY <1>2, <2>1, <2>2
  <1>5. IdsGrow
    <2>1. /\ eventCounter \in Nat /\ lastEventId \in [Streams -> 0..eventCounter]
          /\ \A t \in Streams : lastEventId[t] \in Nat /\ lastEventId[t] <= eventCounter
      BY DEF StreamInv, StreamTypeOK
    <2>2. eventCounter' \in Nat /\ eventCounter' > eventCounter
      BY <1>2, <2>1
    <2> QED BY <1>2, <2>1, <2>2 DEF IdsGrow
  <1> QED BY <1>1, <1>4, <1>5

(* What a step of the server keeps, the manager apart. *)
ServerKept ==
  /\ StreamInv' /\ ServerTypeOK' /\ ViewIsCurrent' /\ IdsGrow /\ AnswerIsTrue

ServerIInv == InterventionInv /\ StreamInv /\ ServerTypeOK /\ ViewIsCurrent

(* A request is a request of the manager: it succeeds and makes its change,  *)
(* or fails and changes nothing.                                             *)
LEMMA RequestOutcome ==
  ASSUME InterventionInv, NEW h \in Humans, NEW action \in Actions, Request(h, action)
  PROVE  /\ state # "none" /\ UNCHANGED sessions
         /\ applied' = applied => UNCHANGED conversation
         /\ applied' # applied /\ action # "send_message" => state' = ChangedTo(action)
         /\ action = "send_message" => UNCHANGED conversation
  <1>1. PICK s \in sessions : Apply(s, action)
    BY DEF Request
  <1>2. state # "none" /\ UNCHANGED sessions /\ s \in SessionIds /\ applied \in [SessionIds -> 0..MaxConcurrent]
    BY <1>1 DEF Request, Exists, InterventionInv, TypeOK
  <1>3. Succeeds(s) => applied' # applied
    <2>1. ASSUME Succeeds(s) PROVE applied'[s] = applied[s] + 1 /\ applied[s] \in Int
      BY <1>2, <2>1 DEF Succeeds
    <2> QED BY <2>1
  <1>4. CASE action = "send_message"
    BY <1>1, <1>2, <1>4 DEF Apply, Record, conversation
  <1>5. CASE action = "pause"
    BY <1>1, <1>2, <1>3, <1>5 DEF Apply, Pause, FailsFor, conversation, ChangedTo
  <1>6. CASE action = "resume"
    BY <1>1, <1>2, <1>3, <1>6 DEF Apply, Resume, FailsFor, conversation, ChangedTo
  <1>7. CASE action = "terminate"
    BY <1>1, <1>2, <1>3, <1>7 DEF Apply, Terminate, conversation, ChangedTo
  <1>8. CASE action = "redirect"
    BY <1>1, <1>2, <1>3, <1>8 DEF Apply, Redirect, conversation, ChangedTo
  <1> QED BY <1>4, <1>5, <1>6, <1>7, <1>8 DEF Actions

LEMMA StateNameType ==
  ASSUME ServerIInv
  PROVE  StateName \in {"unknown", "active", "paused", "redirected", "terminated"} /\ state \in StateNames
  BY DEF ServerIInv, InterventionInv, TypeOK, StateName, StateNames

LEMMA ChangeStateKeeps ==
  ASSUME ServerIInv, NEW action \in {"pause", "resume", "terminate", "redirect"}, ChangeState(action)
  PROVE  ServerKept
  <1>0. StreamInv /\ ViewIsCurrent /\ ServerTypeOK /\ InterventionInv
    BY DEF ServerIInv
  <1>1. StateName \in {"unknown", "active", "paused", "redirected", "terminated"}
    BY StateNameType
  <1>2. action \in Actions /\ action # "send_message"
    BY DEF Actions
  <1>3. ChangedTo(action) \in StateNames \ {"none"}
    BY DEF ChangedTo, StateNames
  <1>4. CASE /\ UNCHANGED <<conversation, streamVars>> /\ Answer("result", FALSE, StateName, StateName)
    <2>1. StreamInv' /\ ViewIsCurrent' /\ IdsGrow
      BY <1>0, <1>4, UnchangedStreams DEF conversation
    <2>2. AnswerIsTrue
      BY <1>4 DEF AnswerIsTrue, Answer, StateName, conversation
    <2>3. ServerTypeOK'
      BY <1>1, <1>4 DEF ServerTypeOK, Answer
    <2> QED BY <2>1, <2>2, <2>3 DEF ServerKept
  <1>5. CASE /\ state' = ChangedTo(action) /\ Announce(2) /\ Answer("result", TRUE, StateName, ChangedTo(action))
    <2>1. /\ StreamInv' /\ ViewIsCurrent' /\ IdsGrow
          /\ \A i \in DOMAIN clients' : i[1] = Conversation => view'[clients'[i]] = state'
      BY <1>0, <1>3, <1>5, AnnouncedIsCurrent
    <2>2. StateName' = ChangedTo(action)
      BY <1>3, <1>5 DEF StateName
    <2>3. AnswerIsTrue
      BY <1>5, <2>1, <2>2 DEF AnswerIsTrue, Answer
    <2>4. ServerTypeOK'
      BY <1>1, <1>3, <1>5 DEF ServerTypeOK, Answer, StateNames
    <2> QED BY <2>1, <2>3, <2>4 DEF ServerKept
  <1>6. CASE \E h \in Humans : Request(h, action)
                              /\ IF applied' = applied
                                 THEN UNCHANGED streamVars /\ Answer("result", FALSE, StateName, StateName)
                                 ELSE AnnounceState /\ Answer("result", TRUE, StateName, ChangedTo(action))
    BY <1>0, <1>2, <1>4, <1>5, <1>6, RequestOutcome DEF AnnounceState
  <1>7. CASE Answer("result", FALSE, StateName, StateName) /\ UNCHANGED <<vars, streamVars>>
    BY <1>4, <1>7 DEF vars
  <1> QED BY <1>6, <1>7 DEF ChangeState

(* A step that answers nothing of the state: what is left to show is what    *)
(* the streams show.                                                         *)
LEMMA PlainAnswer ==
  ASSUME ServerIInv, NEW success \in BOOLEAN, Result(success),
         StreamInv', ViewIsCurrent', IdsGrow,
         success = FALSE => UNCHANGED <<conversation, streamVars>>
  PROVE  ServerKept
  <1>1. AnswerIsTrue
    BY DEF AnswerIsTrue, Result, Answer
  <1>2. ServerTypeOK'
    BY DEF ServerTypeOK, Result, Answer
  <1> QED BY <1>1, <1>2 DEF ServerKept

LEMMA NothingDone ==
  ASSUME ServerIInv, UNCHANGED <<vars, streamVars>>,
         Result(TRUE) \/ Result(FALSE)
  PROVE  ServerKept
  <1>1. StreamInv' /\ ViewIsCurrent' /\ IdsGrow /\ UNCHANGED <<conversation, streamVars>>
    BY UnchangedStreams DEF ServerIInv, vars, conversation
  <1> QED BY <1>1, PlainAnswer

LEMMA OnSendKeeps ==
  ASSUME ServerIInv, OnSend
  PROVE  ServerKept
  <1>1. CASE \E h \in Humans : Request(h, "send_message") /\ UNCHANGED streamVars /\ Result(TRUE)
    <2>1. UNCHANGED conversation
      BY <1>1, RequestOutcome DEF Actions, ServerIInv
    <2>2. StreamInv' /\ ViewIsCurrent' /\ IdsGrow
      BY <1>1, <2>1, UnchangedStreams DEF ServerIInv, conversation
    <2> QED BY <1>1, <2>2, PlainAnswer
  <1> QED BY <1>1, NothingDone DEF OnSend

LEMMA OnJoinKeeps ==
  ASSUME ServerIInv, OnJoin
  PROVE  ServerKept
  <1>1. CASE \E h \in Humans, r \in Roles : JoinConversation(h, r) /\ Tell(1) /\ Result(TRUE)
    <2>1. state' = state
      BY <1>1 DEF JoinConversation
    <2>2. StreamInv' /\ ViewIsCurrent' /\ IdsGrow
      BY <1>1, <2>1, ToldIsCurrent DEF ServerIInv
    <2> QED BY <1>1, <2>2, PlainAnswer
  <1> QED BY <1>1, NothingDone DEF OnJoin

LEMMA OnLeaveKeeps ==
  ASSUME ServerIInv, OnLeave
  PROVE  ServerKept
  <1>1. ASSUME NEW s \in SessionIds, LeaveConversation(s), Result(TRUE),
               IF pausedBy = s THEN Announce(3) ELSE Tell(1)
        PROVE  ServerKept
    <2>1. StreamInv' /\ ViewIsCurrent' /\ IdsGrow
      <3>1. CASE pausedBy = s
        BY <1>1, <3>1, AnnouncedIsCurrent DEF ServerIInv, LeaveConversation, StateNames
      <3>2. CASE pausedBy # s
        BY <1>1, <3>2, ToldIsCurrent DEF ServerIInv, LeaveConversation
      <3> QED BY <3>1, <3>2
    <2> QED BY <1>1, <2>1, PlainAnswer
  <1> QED BY <1>1, NothingDone DEF OnLeave

LEMMA OnCreateAndEndKeep ==
  ASSUME ServerIInv, OnCreateConversation \/ OnEndConversation
  PROVE  ServerKept
  <1>1. CASE (CreateConversation \/ EndConversation) /\ AnnounceState /\ Result(TRUE)
    <2>1. state' \in StateNames
      BY <1>1 DEF CreateConversation, EndConversation, StateNames
    <2>2. StreamInv' /\ ViewIsCurrent' /\ IdsGrow
      BY <1>1, <2>1, AnnouncedIsCurrent DEF ServerIInv, AnnounceState
    <2> QED BY <1>1, <2>2, PlainAnswer
  <1> QED BY <1>1, NothingDone DEF OnCreateConversation, OnEndConversation

LEMMA PostKeeps ==
  ASSUME ServerIInv, NEW method \in DOMAIN Codes, PostRequest(method)
  PROVE  ServerKept
  <1>1. CASE Call(method)
    BY <1>1, ChangeStateKeeps, OnSendKeeps, OnJoinKeeps, OnLeaveKeeps, OnCreateAndEndKeep,
       NothingDone DEF Call, OnRead, StateMethods
  <1>2. ASSUME NEW code \in Codes[method], code # "call", Answer(code, FALSE, "-", "-"),
               UNCHANGED <<vars, streamVars>>
        PROVE  ServerKept
    <2>1. code \in {"-32700", "-32601", "-32602", "unconfigured"}
      BY <1>2 DEF Codes, HandleInterventionJSONRPC, Dispatch
    <2>2. StreamInv' /\ ViewIsCurrent' /\ IdsGrow /\ UNCHANGED <<conversation, streamVars>>
      BY <1>2, UnchangedStreams DEF ServerIInv, vars, conversation
    <2>3. AnswerIsTrue
      BY <1>2, <2>2 DEF AnswerIsTrue, Answer
    <2>4. ServerTypeOK'
      BY <1>2, <2>1 DEF ServerTypeOK, Answer
    <2> QED BY <2>2, <2>3, <2>4 DEF ServerKept
  <1> QED BY <1>1, <1>2 DEF PostRequest

LEMMA HandleSSEKeeps ==
  ASSUME ServerIInv, NEW s \in Streams, NEW i \in ClientIds, HandleSSEConnection(s, i)
  PROVE  ServerKept
  <1>1. CASE HandleConnection(s, i, state) /\ UNCHANGED <<vars, answer>>
    <2>1. StreamInv' /\ ViewIsCurrent' /\ IdsGrow
      BY <1>1, StateNameType, ConnectionIsCurrent DEF ServerIInv, vars, conversation
    <2> QED BY <1>1, <2>1 DEF ServerIInv, ServerKept, ServerTypeOK, AnswerIsTrue
  <1>2. CASE Answer("404", FALSE, "-", "-") /\ UNCHANGED <<vars, streamVars>>
    <2>1. StreamInv' /\ ViewIsCurrent' /\ IdsGrow /\ UNCHANGED <<conversation, streamVars>>
      BY <1>2, UnchangedStreams DEF ServerIInv, vars, conversation
    <2> QED BY <1>2, <2>1 DEF ServerKept, ServerTypeOK, AnswerIsTrue, Answer
  <1> QED BY <1>1, <1>2 DEF HandleSSEConnection

(* What happens without a request. *)
LEMMA UnaskedKeeps ==
  ASSUME ServerIInv, UNCHANGED answer,
         \/ Applied \/ Unannounced \/ HandleAgentMessage
         \/ \E s \in Streams : (Close(s) \/ RefuseConnection(s)) /\ UNCHANGED vars
         \/ \E i \in ClientIds : Disconnect(i) /\ UNCHANGED vars
         \/ DestroyStreams /\ UNCHANGED vars
  PROVE  ServerKept
  <1> SUFFICES StreamInv' /\ ViewIsCurrent' /\ IdsGrow
    BY DEF ServerKept, ServerIInv, ServerTypeOK, AnswerIsTrue
  <1>0. StreamInv /\ ViewIsCurrent /\ InterventionInv
    BY DEF ServerIInv
  <1>1. CASE Applied
    <2>1. Tell(1) /\ state' = state
      BY <1>1 DEF Applied, Counted, Uncounted, conversation
    <2> QED BY <1>0, <2>1, ToldIsCurrent
  <1>2. CASE Unannounced
    <2>1. UNCHANGED streamVars
      BY <1>2 DEF Unannounced
    <2>2. state' = state \/ (state = "redirected" /\ state' = "active") \/ state' = "none"
      BY <1>2 DEF Unannounced, RedirectTimer, DeleteConversation, Cool, conversation
    <2> QED BY <1>0, <2>1, <2>2, UnchangedStreams
  <1>3. CASE HandleAgentMessage
    <2>1. state' = state
      BY <1>3 DEF HandleAgentMessage, vars, conversation
    <2> DEFINE pairs == {pair \in sessions \X ClientsForConversation(Conversation) : who[pair[1]] = pair[2][2]}
    <2>2. Tell(1) \/ Tell(2 + Cardinality(pairs))
      BY <1>3 DEF HandleAgentMessage
    <2>3. Cardinality(pairs) \in Nat
      <3>1. IsFiniteSet(sessions)
        <4>1. sessions \subseteq 1..MaxSessions /\ IsFiniteSet(1..MaxSessions)
          BY <1>0, ConstantsAssumption, FS_Interval DEF InterventionInv, TypeOK, SessionIds
        <4> QED BY <4>1, FS_Subset
      <3>2. IsFiniteSet(ClientsForConversation(Conversation))
        BY <1>0, FewerClients DEF ClientsForConversation
      <3>3. IsFiniteSet(sessions \X ClientsForConversation(Conversation))
        BY <3>1, <3>2, FS_Product
      <3> QED BY <3>3, FS_Subset, FS_CardinalityType
    <2> HIDE DEF pairs
    <2>4. 2 + Cardinality(pairs) \in Nat \ {0}
      BY <2>3
    <2> QED BY <1>0, <2>1, <2>2, <2>4, ToldIsCurrent
  <1>4. ASSUME NEW s \in Streams, Close(s), UNCHANGED vars PROVE StreamInv' /\ ViewIsCurrent' /\ IdsGrow
    <2>1. StreamInv'
      BY <1>0, <1>4, CloseKeeps
    <2>2. clients' = Without(clients, {named[s]}) /\ UNCHANGED <<lastEventId, view, state>>
      BY <1>4 DEF Close, vars, conversation
    <2> QED BY <1>0, <2>1, <2>2, LeavingIsCurrent
  <1>5. ASSUME NEW s \in Streams, RefuseConnection(s), UNCHANGED vars
        PROVE  StreamInv' /\ ViewIsCurrent' /\ IdsGrow
    BY <1>0, <1>5, UnchangedStreams DEF RefuseConnection, vars, conversation
  <1>6. ASSUME NEW ids, Disconnected(ids), beating' \in BOOLEAN,
               UNCHANGED <<named, closed, lastEventId, view, eventCounter>>, UNCHANGED vars
        PROVE  StreamInv' /\ ViewIsCurrent' /\ IdsGrow
    <2>1. StreamInv'
      BY <1>0, <1>6, QuietKeeps
    <2>2. clients' = Without(clients, ids) /\ UNCHANGED <<lastEventId, view, state>>
      BY <1>6 DEF Disconnected, vars, conversation
    <2> QED BY <1>0, <2>1, <2>2, LeavingIsCurrent
  <1>7. ASSUME NEW i \in ClientIds, Disconnect(i), UNCHANGED vars
        PROVE  StreamInv' /\ ViewIsCurrent' /\ IdsGrow
    BY <1>0, <1>6, <1>7 DEF Disconnect, StreamInv, StreamTypeOK
  <1>8. CASE DestroyStreams /\ UNCHANGED vars
    BY <1>6, <1>8 DEF DestroyStreams
  <1> QED BY <1>1, <1>2, <1>3, <1>4, <1>5, <1>7, <1>8

LEMMA ServerStepKeeps ==
  ASSUME ServerIInv, ServerNext
  PROVE  ServerKept
  BY PostKeeps, HandleSSEKeeps, UnaskedKeeps DEF ServerNext

(* Every step of the server is one of the manager, or none.                  *)
LEMMA ServerStepManages ==
  ASSUME ServerNext
  PROVE  [Next]_vars
  <1>1. ASSUME NEW method, Call(method) PROVE [Next]_vars
    <2>1. CASE method \in StateMethods \cup {"redirect"} /\ ChangeState(method)
      BY <2>1 DEF ChangeState, StateMethods, Next, Actions
    <2>2. CASE OnSend
      BY <2>2 DEF OnSend, Next, Actions
    <2>3. CASE OnJoin
      BY <2>3 DEF OnJoin, Next
    <2>4. CASE OnLeave
      BY <2>4 DEF OnLeave, Next
    <2>5. CASE OnCreateConversation \/ OnEndConversation \/ OnRead(method)
      BY <2>5 DEF OnCreateConversation, OnEndConversation, OnRead, Next
    <2> QED BY <1>1, <2>1, <2>2, <2>3, <2>4, <2>5 DEF Call
  <1>2. ASSUME NEW method, PostRequest(method) PROVE [Next]_vars
    BY <1>1, <1>2 DEF PostRequest
  <1>3. ASSUME NEW s, NEW i, HandleSSEConnection(s, i) PROVE [Next]_vars
    BY <1>3 DEF HandleSSEConnection
  <1>4. CASE Applied \/ Unannounced
    BY <1>4 DEF Applied, Unannounced, Next
  <1> QED BY <1>2, <1>3, <1>4 DEF ServerNext, HandleAgentMessage

LEMMA ServerInvInit == Init /\ StreamInit /\ ServerInit => ServerIInv
  <1> SUFFICES ASSUME Init, StreamInit, ServerInit PROVE ServerIInv
    OBVIOUS
  <1>1. ServerTypeOK
    BY DEF ServerInit, NoAnswer, ServerTypeOK
  <1>2. ViewIsCurrent
    BY DEF StreamInit, ViewIsCurrent, ClientsForConversation
  <1> QED BY <1>1, <1>2, InitInv, StreamInvInit DEF ServerIInv

(* The server implements the manager: what is proved of the manager holds    *)
(* of every conversation over JSON-RPC.                                      *)
THEOREM ServerRefinesManager == ServerSpec => Spec
  <1>1. ServerNext => [Next]_vars
    BY ServerStepManages
  <1>2. UNCHANGED serverVars => UNCHANGED vars
    BY DEF serverVars
  <1> QED BY <1>1, <1>2, PTL DEF ServerSpec, Spec

LEMMA ServerSafe == ServerSpec => [](ServerIInv /\ InterventionInv)
  <1>1. InterventionInv /\ [Next]_vars => InterventionInv'
    <2> SUFFICES ASSUME InterventionInv, [Next]_vars PROVE InterventionInv'
      OBVIOUS
    <2>1. CASE UNCHANGED vars
      BY <2>1 DEF vars, conversation, identity, requests, InterventionInv,
         TypeOK, PauserIsPresent, RedirectHasTimer, InterventionsBounded
    <2>2. CASE Next
      BY <2>2, ConversationStep, JoinStep, LeaveStep, RequestStep,
         ContinuationStep, TimeStep DEF Next
    <2> QED
      BY <2>1, <2>2
  <1>2. ServerIInv /\ [ServerNext]_serverVars => ServerIInv'
    <2> SUFFICES ASSUME ServerIInv, [ServerNext]_serverVars PROVE ServerIInv'
      OBVIOUS
    <2>1. InterventionInv'
      <3>1. [Next]_vars
        BY ServerStepManages DEF serverVars
      <3> QED BY <1>1, <3>1 DEF ServerIInv
    <2>2. CASE ServerNext
      BY <2>1, <2>2, ServerStepKeeps DEF ServerKept, ServerIInv
    <2>3. CASE UNCHANGED serverVars
      <3>1. UNCHANGED streamVars /\ answer' = answer /\ state' = state
        BY <2>3 DEF serverVars, vars, conversation
      <3>2. StreamInv' /\ ViewIsCurrent'
        BY <3>1, UnchangedStreams DEF ServerIInv
      <3> QED BY <2>1, <3>1, <3>2 DEF ServerIInv, ServerTypeOK
    <2> QED BY <2>2, <2>3
  <1>3. ServerIInv => InterventionInv
    BY DEF ServerIInv
  <1> QED BY <1>2, <1>3, ServerInvInit, PTL DEF ServerSpec

(* Requests, streams and the manager's own timers interleave as they may:    *)
(* clients that are served see the state that is, and no handler is called   *)
(* without what it needs.                                                    *)
THEOREM ServerInvariance == ServerSpec => []ServerInv
  <1>1. ServerIInv => ServerInv
    BY NoneMisjudged DEF ServerIInv, ServerInv, CallsAreComplete
  <1> QED BY <1>1, ServerSafe, PTL

(* Every answer tells the state it found and the one it made, and so do the  *)
(* streams; and no event repeats an id.                                      *)
THEOREM AnswersTrue == ServerSpec => AnswersAreTrue
  <1>1. ServerIInv /\ [ServerNext]_serverVars => [IdsGrow /\ AnswerIsTrue]_serverVars
    BY ServerStepKeeps DEF ServerKept
  <1> QED BY <1>1, ServerSafe, PTL DEF ServerSpec, AnswersAreTrue

-----------------------------------------------------------------------------
(***************************************************************************)
(* Proofs about the audit log, for any writers, entries and limits.        *)
(* AuditInv is inductive.  That the file has what was stored rests on who  *)
(* rewrites it having the lock (LockIsHeld) and on what it writes being    *)
(* what is left of the file (RewritesTheRest); that memory has the newest  *)
(* rests on the forgotten being the oldest (LoggedInOrder).                *)
(***************************************************************************)

\* Sets of entries are finite.
LEMMA EntriesAreFinite ==
  ASSUME NEW n \in Nat, NEW S \in SUBSET (1..n)
  PROVE  IsFiniteSet(S) /\ Cardinality(S) \in Nat /\ Cardinality(S) <= n
<1>1. IsFiniteSet(1..n) /\ Cardinality(1..n) = n
  BY FS_Interval
<1> QED
  BY <1>1, FS_Subset, FS_CardinalityType

\* What has more before it has a later turn.
LEMMA MoreBefore ==
  ASSUME NEW n \in Nat, NEW S \in SUBSET (1..n), NEW T \in SUBSET S, NEW e \in S \ T
  PROVE  Cardinality(T) < Cardinality(S)
<1>1. /\ IsFiniteSet(S) /\ Cardinality(S) \in Nat
      /\ IsFiniteSet(S \ {e}) /\ Cardinality(S \ {e}) = Cardinality(S) - 1
  BY EntriesAreFinite, FS_RemoveElement
<1>2. Cardinality(T) <= Cardinality(S \ {e}) /\ Cardinality(T) \in Nat
  <2>1. T \in SUBSET (S \ {e})
    OBVIOUS
  <2> QED
    BY <1>1, <2>1, FS_Subset, FS_CardinalityType
<1> QED
  BY <1>1, <1>2

\* The turns of a query: each is one's own, and no more than there are
\* entries.
LEMMA Turns ==
  ASSUME AuditTypeOK
  PROVE  \A e, f \in memoryLog :
           /\ Cardinality({g \in memoryLog : NewerFirst(g, e)}) \in 0..(Cardinality(memoryLog) - 1)
           /\ NewerFirst(e, f) =>
                Cardinality({g \in memoryLog : NewerFirst(g, e)})
                  < Cardinality({g \in memoryLog : NewerFirst(g, f)})
           /\ e = f \/ NewerFirst(e, f) \/ NewerFirst(f, e)
           /\ ~NewerFirst(f, e) => loggedAt[e] >= loggedAt[f]
<1>1. /\ logged \in Nat /\ logged <= MaxLogged /\ memoryLog \subseteq 1..logged
      /\ \A e \in memoryLog : e \in Int /\ loggedAt[e] \in Int
  BY AuditAssumption DEF AuditTypeOK
<1> DEFINE turn(e) == {g \in memoryLog : NewerFirst(g, e)}
<1>2. ASSUME NEW e \in memoryLog
      PROVE  Cardinality(turn(e)) \in 0..(Cardinality(memoryLog) - 1)
  <2>1. turn(e) \in SUBSET memoryLog /\ e \in memoryLog \ turn(e)
    BY <1>1 DEF NewerFirst
  <2>2. Cardinality(turn(e)) \in Nat /\ Cardinality(memoryLog) \in Nat
    BY <1>1, <2>1, EntriesAreFinite
  <2>3. Cardinality(turn(e)) < Cardinality(memoryLog)
    BY <1>1, <2>1, MoreBefore
  <2> QED
    BY <2>2, <2>3
<1>3. ASSUME NEW e \in memoryLog, NEW f \in memoryLog, NewerFirst(e, f)
      PROVE  Cardinality(turn(e)) < Cardinality(turn(f))
  <2>1. turn(e) \in SUBSET turn(f) /\ e \in turn(f) \ turn(e)
    <3>1. ~NewerFirst(e, e)
      BY <1>1 DEF NewerFirst
    <3>2. \A g \in memoryLog : NewerFirst(g, e) => NewerFirst(g, f)
      BY <1>1, <1>3 DEF NewerFirst
    <3> QED
      BY <1>3, <3>1, <3>2
  <2>2. turn(f) \in SUBSET (1..logged)
    BY <1>1
  <2> QED
    BY <1>1, <2>1, <2>2, MoreBefore
<1>4. \A e, f \in memoryLog :
        /\ e = f \/ NewerFirst(e, f) \/ NewerFirst(f, e)
        /\ ~NewerFirst(f, e) => loggedAt[e] >= loggedAt[f]
  BY <1>1 DEF NewerFirst
<1> QED
  BY <1>2, <1>3, <1>4

\* The page of a turn, and that pages follow one another
LEMMA PageOfTurn ==
  ASSUME NEW turn \in Nat, NEW limit \in Nat \ {0}, NEW n \in Nat, turn < n
  PROVE  \E i \in 0..(n - 1) : turn \in i * limit .. (i * limit + limit - 1)
<1> DEFINE q == turn \div limit
<1>1. /\ q \in Int /\ q >= 0
      /\ limit * q <= turn
      /\ turn < limit * (q + 1)
  BY q \in Int, q >= 0, limit * q <= turn, turn < limit * (q + 1)
<1> HIDE DEF q
<1>2. q * limit \in Int /\ limit * q = q * limit /\ limit * (q + 1) = q * limit + limit
      /\ q <= limit * q
  BY <1>1
<1>3. q \in 0..(n - 1) /\ turn \in q * limit .. (q * limit + limit - 1)
  BY <1>1, <1>2
<1> QED
  BY <1>3

LEMMA PagesFollow ==
  ASSUME NEW i \in Nat, NEW j \in Nat, NEW limit \in Nat, i < j
  PROVE  i * limit \in Nat /\ i * limit + limit <= j * limit
<1>1. j - i - 1 \in Nat /\ j = i + 1 + (j - i - 1)
  OBVIOUS
<1>2. (j - i - 1) * limit \in Nat /\ i * limit \in Nat
  BY <1>1
<1>3. j * limit = i * limit + limit + (j - i - 1) * limit
  BY <1>1
<1> QED
  BY <1>2, <1>3

\* The pages of a query are the log, whatever it has.
LEMMA PagesTurned == AuditTypeOK /\ MemoryKeepsNewest => PagesAreTheLog
<1> SUFFICES ASSUME AuditTypeOK, MemoryKeepsNewest, NEW limit \in 1..MaxEntries
             PROVE  LET page == [i \in 0..(MaxEntries - 1) |-> Query(memoryLog, i * limit, limit)]
                    IN /\ UNION {page[i] : i \in 0..(MaxEntries - 1)} = memoryLog
                       /\ \A i \in 0..(MaxEntries - 1) : Cardinality(page[i]) <= limit
                       /\ \A i, j \in 0..(MaxEntries - 1) : i < j =>
                            \A e \in page[i], f \in page[j] : loggedAt[e] >= loggedAt[f]
  BY DEF PagesAreTheLog
<1> DEFINE turn(e) == Cardinality({g \in memoryLog : NewerFirst(g, e)})
           page == [i \in 0..(MaxEntries - 1) |-> Query(memoryLog, i * limit, limit)]
<1>1. /\ MaxEntries \in Nat /\ limit \in Nat /\ limit > 0
      /\ Cardinality(memoryLog) <= MaxEntries /\ Cardinality(memoryLog) \in Nat
  <2>1. memoryLog \in SUBSET (1..logged) /\ logged \in Nat
    BY AuditAssumption DEF AuditTypeOK
  <2> QED
    BY <2>1, AuditAssumption, EntriesAreFinite DEF MemoryKeepsNewest
<1>2. /\ \A e \in memoryLog : turn(e) \in 0..(MaxEntries - 1)
      /\ \A e, f \in memoryLog : turn(e) = turn(f) => e = f
      /\ \A e, f \in memoryLog : turn(e) < turn(f) => loggedAt[e] >= loggedAt[f]
  <2>1. \A e \in memoryLog : turn(e) \in 0..(MaxEntries - 1)
    <3>1. \A e \in memoryLog : turn(e) \in 0..(Cardinality(memoryLog) - 1)
      BY Turns
    <3> HIDE DEF turn
    <3> QED
      BY <1>1, <3>1
  <2>2. \A e, f \in memoryLog :
          /\ NewerFirst(e, f) => turn(e) < turn(f)
          /\ e = f \/ NewerFirst(e, f) \/ NewerFirst(f, e)
          /\ ~NewerFirst(f, e) => loggedAt[e] >= loggedAt[f]
    BY Turns
  <2> HIDE DEF turn
  <2> QED
    BY <1>1, <2>1, <2>2
<1>3. \A i \in 0..(MaxEntries - 1) : page[i] =
        {e \in memoryLog : turn(e) \in i * limit .. (i * limit + limit - 1)}
  BY DEF Query
<1> HIDE DEF turn, page
<1>4. \A i \in 0..(MaxEntries - 1) : i * limit \in Nat
  BY <1>1
<1>5. UNION {page[i] : i \in 0..(MaxEntries - 1)} = memoryLog
  <2> SUFFICES ASSUME NEW e \in memoryLog PROVE \E i \in 0..(MaxEntries - 1) : e \in page[i]
    BY <1>3
  <2>1. turn(e) \in Nat /\ turn(e) < MaxEntries
    BY <1>1, <1>2
  <2>2. limit \in Nat \ {0}
    BY <1>1
  <2>3. PICK i \in 0..(MaxEntries - 1) : turn(e) \in i * limit .. (i * limit + limit - 1)
    BY <1>1, <2>1, <2>2, PageOfTurn
  <2> QED
    BY <1>3, <2>3
<1>6. ASSUME NEW i \in 0..(MaxEntries - 1) PROVE Cardinality(page[i]) <= limit
  <2> DEFINE first == i * limit
             spots == first .. (first + limit - 1)
  <2>1. first \in Nat
    BY <1>4
  <2> HIDE DEF first
  <2>2. IsFiniteSet(spots) /\ Cardinality(spots) = limit
    <3>1. first \in Int /\ first + limit - 1 \in Int /\ ~(first > first + limit - 1)
          /\ first + limit - 1 - first + 1 = limit
      BY <1>1, <2>1
    <3> QED
      BY <3>1, FS_Interval
  <2>3. [e \in page[i] |-> turn(e)] \in Injection(page[i], spots)
    BY <1>2, <1>3 DEF Injection, IsInjective, first
  <2> QED
    BY <2>2, <2>3, FS_Injection
<1>7. ASSUME NEW i \in 0..(MaxEntries - 1), NEW j \in 0..(MaxEntries - 1), i < j,
             NEW e \in page[i], NEW f \in page[j]
      PROVE  loggedAt[e] >= loggedAt[f]
  <2>1. i * limit + limit <= j * limit
    BY <1>1, <1>7, PagesFollow
  <2>2. e \in memoryLog /\ f \in memoryLog /\ turn(e) < i * limit + limit
        /\ turn(f) >= j * limit /\ turn(e) \in Nat /\ turn(f) \in Nat
    BY <1>1, <1>2, <1>3, <1>4
  <2>3. turn(e) < turn(f)
    BY <1>1, <1>4, <2>1, <2>2
  <2> QED
    BY <1>2, <2>2, <2>3
<1> QED
  BY <1>5, <1>6, <1>7 DEF page

\* Who has the lock, or is first to wait for it, is at work.
LEMMA LockPasses == AuditTypeOK /\ LockIsHeld => LockIsPassedOn
<1> SUFFICES ASSUME AuditTypeOK, LockIsHeld, writeLock # <<>>
             PROVE  writer[Head(writeLock)].op # "none"
  BY DEF LockIsPassedOn
<1>1. /\ writeLock \in Seq(Writers) /\ Len(writeLock) \in Nat \ {0}
      /\ Head(writeLock) = writeLock[1] /\ Head(writeLock) \in Writers
  BY EmptySeq, HeadTailProperties DEF AuditTypeOK
<1> QED
  BY <1>1 DEF LockIsHeld

Calls ==
  [op : {"none", "store", "cleanup", "truncate", "write"}, lines : Lines, since : 0..MaxAuditTime]

\* A writer calls withLock.
LEMMA LockIsJoined ==
  ASSUME AuditTypeOK, LockIsHeld, NEW w \in Writers, writer[w].op = "none",
         NEW call \in Calls, call.op \in {"store", "cleanup"},
         writer' = [writer EXCEPT ![w] = call],
         writeLock' = Append(writeLock, w)
  PROVE  writeLock' \in Seq(Writers) /\ LockIsHeld'
<1>1. /\ writeLock \in Seq(Writers) /\ Len(writeLock) \in Nat
      /\ writer \in [Writers -> [op : {"none", "store", "cleanup", "truncate", "write"},
                                 lines : Lines, since : 0..MaxAuditTime]]
  BY LenProperties DEF AuditTypeOK
<1>2. /\ writeLock' \in Seq(Writers) /\ Len(writeLock') = Len(writeLock) + 1
      /\ \A i \in 1..Len(writeLock) : writeLock'[i] = writeLock[i]
      /\ writeLock'[Len(writeLock) + 1] = w
      /\ writeLock' # <<>>
  BY <1>1, AppendProperties
<1>3. \A v \in Writers : writer'[v] = IF v = w THEN call ELSE writer[v]
  BY <1>1
<1>4. \A i \in 1..Len(writeLock) : writeLock[i] # w /\ writeLock[i] \in Writers
  BY <1>1, ElementOfSeq DEF LockIsHeld
<1>5. \A v \in Writers : writer'[v].op # "none" <=> \E i \in 1..Len(writeLock') : writeLock'[i] = v
  <2> SUFFICES ASSUME NEW v \in Writers
               PROVE  writer'[v].op # "none" <=> \E i \in 1..Len(writeLock') : writeLock'[i] = v
    OBVIOUS
  <2>1. CASE v = w
    BY <1>1, <1>2, <1>3, <2>1
  <2>2. CASE v # w
    <3>1. (\E i \in 1..Len(writeLock') : writeLock'[i] = v)
            <=> \E i \in 1..Len(writeLock) : writeLock[i] = v
      BY <1>1, <1>2, <2>2
    <3> QED
      BY <1>3, <2>2, <3>1 DEF LockIsHeld
  <2> QED
    BY <2>1, <2>2
<1>6. \A i, j \in 1..Len(writeLock') : writeLock'[i] = writeLock'[j] => i = j
  <2> SUFFICES ASSUME NEW i \in 1..Len(writeLock'), NEW j \in 1..Len(writeLock'),
                      writeLock'[i] = writeLock'[j]
               PROVE  i = j
    OBVIOUS
  <2>1. i \in 1..Len(writeLock) \/ i = Len(writeLock) + 1
    BY <1>1, <1>2
  <2>2. j \in 1..Len(writeLock) \/ j = Len(writeLock) + 1
    BY <1>1, <1>2
  <2> QED
    BY <1>2, <1>4, <2>1, <2>2 DEF LockIsHeld
<1>7. \A v \in Writers : writer'[v].op \in {"truncate", "write"} => Runs(v)'
  <2> SUFFICES ASSUME NEW v \in Writers, writer'[v].op \in {"truncate", "write"} PROVE Runs(v)'
    OBVIOUS
  <2>1. v # w /\ Runs(v)
    BY <1>3 DEF LockIsHeld
  <2>2. Len(writeLock) \in Nat \ {0} /\ writeLock[1] = v
    BY <1>1, <2>1, EmptySeq DEF Runs
  <2>3. Head(writeLock') = writeLock'[1]
    BY <1>2
  <2> QED
    BY <1>2, <2>2, <2>3 DEF Runs
<1> QED
  BY <1>2, <1>5, <1>6, <1>7 DEF LockIsHeld

\* The first writer is done and releases the lock.
LEMMA LockIsLeft ==
  ASSUME AuditTypeOK, LockIsHeld, NEW w \in Writers, Runs(w),
         writer' = [writer EXCEPT ![w] = NotWriting],
         writeLock' = Remaining(w)
  PROVE  writeLock' \in Seq(Writers) /\ LockIsHeld'
<1>1. /\ writeLock \in Seq(Writers) /\ Len(writeLock) \in Nat \ {0}
      /\ writeLock[1] = w
      /\ writer \in [Writers -> [op : {"none", "store", "cleanup", "truncate", "write"},
                                 lines : Lines, since : 0..MaxAuditTime]]
  BY EmptySeq DEF AuditTypeOK, Runs
<1>2. \A i \in 1..Len(writeLock) : writeLock[i] = w <=> i = 1
  BY <1>1 DEF LockIsHeld
<1>3. writeLock' = [i \in 1..(Len(writeLock) - 1) |-> writeLock[i + 1]]
  <2> DEFINE at == CHOOSE i \in 1..Len(writeLock) : writeLock[i] = w
  <2>1. at = 1
    BY <1>1, <1>2
  <2>2. writeLock' = [i \in 1..(Len(writeLock) - 1) |->
                       IF i < at THEN writeLock[i] ELSE writeLock[i + 1]]
    BY DEF Remaining
  <2> HIDE DEF at
  <2>3. \A i \in 1..(Len(writeLock) - 1) : ~(i < 1)
    BY <1>1
  <2> QED
    BY <2>1, <2>2, <2>3
<1>4. /\ writeLock' \in Seq(Writers) /\ Len(writeLock') = Len(writeLock) - 1
      /\ \A i \in 1..Len(writeLock') : writeLock'[i] = writeLock[i + 1]
  <2>1. /\ Len(writeLock) - 1 \in Nat
        /\ \A i \in 1..(Len(writeLock) - 1) : i + 1 \in 1..Len(writeLock)
    BY <1>1
  <2>2. \A i \in 1..(Len(writeLock) - 1) : writeLock[i + 1] \in Writers
    BY <1>1, <2>1, ElementOfSeq
  <2>3. writeLock' \in [1..(Len(writeLock) - 1) -> Writers]
    BY <1>3, <2>2
  <2>4. writeLock' \in Seq(Writers)
    BY <2>1, <2>3, SeqDef
  <2> QED
    BY <1>3, <2>1, <2>3, <2>4, LenProperties
<1>5. \A v \in Writers : writer'[v] = IF v = w THEN NotWriting ELSE writer[v]
  BY <1>1
<1>6. \A v \in Writers : writer'[v].op # "none" <=> \E i \in 1..Len(writeLock') : writeLock'[i] = v
  <2> SUFFICES ASSUME NEW v \in Writers
               PROVE  writer'[v].op # "none" <=> \E i \in 1..Len(writeLock') : writeLock'[i] = v
    OBVIOUS
  <2>1. (\E i \in 1..Len(writeLock') : writeLock'[i] = v)
          <=> \E i \in 1..Len(writeLock) : i # 1 /\ writeLock[i] = v
    <3>1. ASSUME NEW i \in 1..Len(writeLock), i # 1
          PROVE  i - 1 \in 1..Len(writeLock') /\ writeLock'[i - 1] = writeLock[i]
      BY <1>1, <1>4, <3>1
    <3>2. ASSUME NEW i \in 1..Len(writeLock')
          PROVE  i + 1 \in 1..Len(writeLock) /\ i + 1 # 1 /\ writeLock'[i] = writeLock[i + 1]
      BY <1>1, <1>4
    <3> QED
      BY <3>1, <3>2
  <2>2. CASE v = w
    <3>1. writer'[v].op = "none"
      BY <1>5, <2>2 DEF NotWriting
    <3> QED
      BY <1>2, <2>1, <2>2, <3>1
  <2>3. CASE v # w
    <3>1. (\E i \in 1..Len(writeLock) : i # 1 /\ writeLock[i] = v)
            <=> \E i \in 1..Len(writeLock) : writeLock[i] = v
      BY <1>2, <2>3
    <3> QED
      BY <1>5, <2>1, <2>3, <3>1 DEF LockIsHeld
  <2> QED
    BY <2>2, <2>3
<1>7. \A i, j \in 1..Len(writeLock') : writeLock'[i] = writeLock'[j] => i = j
  <2> SUFFICES ASSUME NEW i \in 1..Len(writeLock'), NEW j \in 1..Len(writeLock'),
                      writeLock'[i] = writeLock'[j]
               PROVE  i = j
    OBVIOUS
  <2>1. writeLock[i + 1] = writeLock[j + 1]
    BY <1>4
  <2>2. i + 1 \in 1..Len(writeLock) /\ j + 1 \in 1..Len(writeLock)
    BY <1>1, <1>4
  <2>3. i + 1 = j + 1
    BY <2>1, <2>2 DEF LockIsHeld
  <2> QED
    BY <1>1, <1>4, <2>3
<1>8. \A v \in Writers : writer'[v].op \notin {"truncate", "write"}
  <2> SUFFICES ASSUME NEW v \in Writers, writer'[v].op \in {"truncate", "write"} PROVE FALSE
    OBVIOUS
  <2>1. v # w /\ writer[v].op \in {"truncate", "write"}
    BY <1>5 DEF NotWriting
  <2> QED
    BY <2>1 DEF LockIsHeld, Runs
<1> QED
  BY <1>4, <1>6, <1>7, <1>8 DEF LockIsHeld

\* What AuditInv says without what follows from the rest of it
LEMMA AuditParts ==
  AuditInv <=> /\ AuditTypeOK
               /\ StoredIsKept /\ RewritesTheRest /\ StoresOneEach
               /\ LockIsHeld
               /\ LoggedInOrder /\ MemoryKeepsNewest
BY LockPasses, PagesTurned DEF AuditInv

LEMMA AuditPartsNext ==
  /\ AuditTypeOK'
  /\ StoredIsKept' /\ RewritesTheRest' /\ StoresOneEach'
  /\ LockIsHeld'
  /\ LoggedInOrder' /\ MemoryKeepsNewest'
  => AuditInv'
BY AuditParts, PTL

LEMMA LineTyped ==
  /\ NoLines \in Lines
  /\ \A e \in 1..MaxLogged : LineOf(e) \in Lines /\ LineOf(e)[e] = 1
  /\ \A e, f \in 1..MaxLogged : LineOf(e) = LineOf(f) => e = f
  /\ NotWriting \in [op : {"none", "store", "cleanup", "truncate", "write"}, lines : Lines,
                     since : 0..MaxAuditTime]
<1>1. NoLines \in Lines /\ \A e \in 1..MaxLogged : LineOf(e) \in Lines /\ LineOf(e)[e] = 1
  BY DEF NoLines, Lines, LineOf
<1>2. ASSUME NEW e \in 1..MaxLogged, NEW f \in 1..MaxLogged, LineOf(e) = LineOf(f)
      PROVE  e = f
  <2>1. LineOf(f)[e] = IF e = f THEN 1 ELSE 0
    BY DEF LineOf
  <2> QED
    BY <1>1, <1>2, <2>1
<1>3. 0 \in 0..MaxAuditTime
  BY AuditAssumption
<1> QED
  BY <1>1, <1>2, <1>3 DEF NotWriting

\* The storage in memory has room for a new entry when the oldest goes.
LEMMA NewestKept ==
  ASSUME AuditTypeOK, LoggedInOrder, MemoryKeepsNewest
  PROVE  /\ Room(memoryLog) = {e \in (1..logged) \ forgotten : logged + 1 - e < MaxEntries}
         /\ logged + 1 \notin Room(memoryLog)
         /\ Cardinality(Room(memoryLog) \cup {logged + 1}) <= MaxEntries
<1> DEFINE newest == {e \in (1..logged) \ forgotten : logged + 1 - e < MaxEntries}
           lowest == logged + 1 - MaxEntries
<1>1. /\ logged \in Nat /\ MaxEntries \in Nat \ {0} /\ logged <= MaxLogged
      /\ memoryLog \in SUBSET (1..logged)
      /\ memoryLog = {e \in (1..logged) \ forgotten : logged - e < MaxEntries}
      /\ Cardinality(memoryLog) <= MaxEntries
      /\ IsFiniteSet(memoryLog) /\ Cardinality(memoryLog) \in Nat
      /\ \A e \in 1..logged : loggedAt[e] \in Int
  <2>1. logged \in Nat /\ memoryLog \in SUBSET (1..logged) /\ logged <= MaxLogged
    BY AuditAssumption DEF AuditTypeOK
  <2>2. \A e \in 1..logged : loggedAt[e] \in Int
    <3>1. 1..logged \subseteq 1..MaxLogged
      BY <2>1, AuditAssumption
    <3> QED
      BY <3>1, AuditAssumption DEF AuditTypeOK
  <2> QED
    BY <2>1, <2>2, AuditAssumption, EntriesAreFinite DEF MemoryKeepsNewest
<1>2. newest = memoryLog \ {lowest}
  BY <1>1
<1>3. Room(memoryLog) = newest
  <2>1. CASE lowest \notin memoryLog
    <3>1. newest = memoryLog
      BY <1>2, <2>1
    <3>2. newest \in SUBSET (lowest + 1 .. logged)
      BY <1>1
    <3>3. Cardinality(memoryLog) <= MaxEntries - 1
      <4>1. lowest + 1 \in Int /\ logged \in Int
        BY <1>1
      <4>2. /\ IsFiniteSet(lowest + 1 .. logged)
            /\ Cardinality(lowest + 1 .. logged) =
                 IF lowest + 1 > logged THEN 0 ELSE logged - (lowest + 1) + 1
        BY <4>1, FS_Interval
      <4>3. Cardinality(newest) <= Cardinality(lowest + 1 .. logged)
        BY <3>2, <4>2, FS_Subset
      <4>4. /\ lowest + 1 > logged => 0 <= MaxEntries - 1
            /\ ~(lowest + 1 > logged) => logged - (lowest + 1) + 1 <= MaxEntries - 1
        BY <1>1
      <4>5. Cardinality(lowest + 1 .. logged) <= MaxEntries - 1
        BY <4>2, <4>4
      <4>6. Cardinality(lowest + 1 .. logged) \in Nat /\ Cardinality(newest) \in Nat
        BY <1>1, <3>1, <4>2, FS_CardinalityType
      <4> HIDE DEF newest, lowest
      <4> QED
        BY <1>1, <3>1, <4>3, <4>5, <4>6
    <3>4. ~(Cardinality(memoryLog) >= MaxEntries)
      BY <1>1, <3>3
    <3>5. Room(memoryLog) = memoryLog
      BY <3>4, Zenon DEF Room
    <3> QED
      BY <3>1, <3>5
  <2>2. CASE lowest \in memoryLog
    <3>1. lowest \in 1..logged /\ lowest \notin forgotten
      BY <1>1, <2>2
    <3>2. \A e \in lowest..logged : e \notin forgotten
      BY <1>1, <3>1 DEF LoggedInOrder
    <3>3. memoryLog = lowest..logged
      BY <1>1, <3>1, <3>2
    <3>4. Cardinality(memoryLog) = MaxEntries
      <4>1. lowest \in Int /\ logged \in Int /\ ~(lowest > logged)
            /\ logged - lowest + 1 = MaxEntries
        BY <1>1, <3>1
      <4> QED
        BY <3>3, <4>1, FS_Interval
    <3>5. \A e \in memoryLog : ~LoggedBefore(e, lowest)
      <4> SUFFICES ASSUME NEW e \in memoryLog, e # lowest PROVE ~LoggedBefore(e, lowest)
        BY <1>1, <2>2 DEF LoggedBefore
      <4>1. lowest < e /\ e \in 1..logged /\ loggedAt[lowest] <= loggedAt[e]
        BY <1>1, <3>1, <3>3 DEF LoggedInOrder
      <4> QED
        BY <1>1, <3>1, <4>1 DEF LoggedBefore
    <3>6. Cardinality({f \in memoryLog : LoggedBefore(f, lowest)}) = 0
      <4>1. {f \in memoryLog : LoggedBefore(f, lowest)} = {}
        BY <3>5
      <4> QED
        BY <4>1, FS_EmptySet
    <3>7. ASSUME NEW e \in memoryLog \ {lowest}
          PROVE  Cardinality({f \in memoryLog : LoggedBefore(f, e)}) > 0
      <4>1. LoggedBefore(lowest, e)
        <5>1. lowest < e /\ e \in 1..logged /\ loggedAt[lowest] <= loggedAt[e]
          BY <1>1, <3>1, <3>3 DEF LoggedInOrder
        <5> QED
          BY <1>1, <3>1, <5>1 DEF LoggedBefore
      <4>2. {f \in memoryLog : LoggedBefore(f, e)} \in SUBSET (1..logged)
        BY <1>1
      <4>3. IsFiniteSet({f \in memoryLog : LoggedBefore(f, e)})
            /\ Cardinality({f \in memoryLog : LoggedBefore(f, e)}) \in Nat
        BY <1>1, <4>2, EntriesAreFinite
      <4>4. Cardinality({f \in memoryLog : LoggedBefore(f, e)}) # 0
        BY <2>2, <4>1, <4>3, FS_EmptySet
      <4> QED
        BY <4>3, <4>4
    <3>8. Room(memoryLog) = {e \in memoryLog : Cardinality({f \in memoryLog : LoggedBefore(f, e)}) > 0}
      <4>1. Cardinality(memoryLog) >= MaxEntries /\ Cardinality(memoryLog) - MaxEntries = 0
        BY <1>1, <3>4
      <4> QED
        BY <4>1 DEF Room
    <3> HIDE DEF lowest
    <3> QED
      BY <1>2, <3>6, <3>7, <3>8
  <2> QED
    BY <2>1, <2>2
<1>4. Cardinality(newest \cup {logged + 1}) <= MaxEntries
  <2>1. newest \cup {logged + 1} \in SUBSET (lowest + 1 .. logged + 1)
    BY <1>1
  <2>2. /\ lowest + 1 \in Int /\ logged + 1 \in Int /\ ~(lowest + 1 > logged + 1)
        /\ logged + 1 - (lowest + 1) + 1 = MaxEntries
    BY <1>1
  <2>3. IsFiniteSet(lowest + 1 .. logged + 1) /\ Cardinality(lowest + 1 .. logged + 1) = MaxEntries
    <3> DEFINE first == lowest + 1
               last == logged + 1
    <3>1. first \in Int /\ last \in Int /\ ~(first > last) /\ last - first + 1 = MaxEntries
      BY <1>1
    <3> HIDE DEF first, last
    <3>2. IsFiniteSet(first..last) /\ Cardinality(first..last) = MaxEntries
      BY <3>1, FS_Interval
    <3> QED
      BY <3>2 DEF first, last
  <2> QED
    BY <2>1, <2>3, FS_Subset
<1>5. logged + 1 \notin newest
  BY <1>1
<1> QED
  BY <1>3, <1>4, <1>5

LEMMA AuditFacts ==
  ASSUME AuditTypeOK
  PROVE  /\ logged \in Nat /\ logged <= MaxLogged /\ MaxLogged \in Nat
         /\ auditTime \in 0..MaxAuditTime /\ auditTime \in Int /\ MaxAuditTime \in Nat
         /\ RetentionPeriod \in Nat
         /\ 1..logged \subseteq 1..MaxLogged
         /\ \A e \in 1..MaxLogged : loggedAt[e] \in Nat /\ loggedAt[e] <= auditTime
         /\ writer \in [Writers -> Calls]
BY AuditAssumption DEF AuditTypeOK, Calls

\* What a writer does next changes no other's part.
LEMMA WriterBecomes ==
  ASSUME AuditTypeOK, NEW w \in Writers, NEW call \in Calls,
         writer' = [writer EXCEPT ![w] = call]
  PROVE  /\ writer' \in [Writers -> Calls]
         /\ \A v \in Writers : writer'[v] = IF v = w THEN call ELSE writer[v]
BY AuditFacts

\* An entry is logged, has its place in memory and waits for the file.
LEMMA LogStep ==
  ASSUME AuditInv, NEW w \in Writers, Log(w)
  PROVE  AuditInv'
<1> DEFINE e == logged + 1
           call == [op |-> "store", lines |-> LineOf(e), since |-> auditTime]
<1>1. /\ AuditTypeOK /\ StoredIsKept /\ RewritesTheRest /\ StoresOneEach /\ LockIsHeld
      /\ LoggedInOrder /\ MemoryKeepsNewest
  BY AuditParts
<1>2. /\ logged < MaxLogged /\ writer[w].op = "none" /\ logged' = e
      /\ loggedAt' = [loggedAt EXCEPT ![e] = auditTime]
      /\ memoryLog' = Room(memoryLog) \cup {e}
      /\ writer' = [writer EXCEPT ![w] = call]
      /\ writeLock' = Append(writeLock, w)
      /\ UNCHANGED <<auditTime, file, kept, forgotten>>
  BY DEF Log
<1>3. /\ logged \in Nat /\ e \in 1..MaxLogged /\ e \in Nat /\ e \notin 1..logged
      /\ 1..e = (1..logged) \cup {e} /\ e <= MaxLogged /\ logged < e
  BY <1>1, <1>2, AuditFacts
<1>4. /\ \A f \in 1..MaxLogged : loggedAt'[f] = IF f = e THEN auditTime ELSE loggedAt[f]
      /\ loggedAt' \in [1..MaxLogged -> 0..auditTime]
  BY <1>1, <1>2, <1>3, AuditFacts DEF AuditTypeOK
<1>5. call \in Calls /\ call.op = "store" /\ call.lines = LineOf(e)
  BY <1>1, <1>3, LineTyped, AuditFacts DEF Calls
<1> HIDE DEF call
<1>6. /\ writer' \in [Writers -> Calls]
      /\ \A v \in Writers : writer'[v] = IF v = w THEN call ELSE writer[v]
  BY <1>1, <1>2, <1>5, WriterBecomes
<1>7. writeLock' \in Seq(Writers) /\ LockIsHeld'
  <2>1. call \in Calls /\ call.op \in {"store", "cleanup"}
    BY <1>5
  <2>2. /\ writer[w].op = "none" /\ writer' = [writer EXCEPT ![w] = call]
        /\ writeLock' = Append(writeLock, w)
    BY <1>2
  <2> QED
    BY <1>1, <2>1, <2>2, LockIsJoined
<1>8. /\ Room(memoryLog) = {f \in (1..logged) \ forgotten : logged + 1 - f < MaxEntries}
      /\ Cardinality(memoryLog') <= MaxEntries
  BY <1>1, <1>2, NewestKept
<1>9. AuditTypeOK'
  <2>1. memoryLog' \subseteq 1..e
    BY <1>2, <1>3, <1>8
  <2>2. kept \subseteq 1..e /\ forgotten \subseteq 1..e
    BY <1>1, <1>3 DEF AuditTypeOK
  <2>3. e \in 0..MaxLogged
    BY <1>3
  <2> HIDE DEF e
  <2> QED
    BY <1>1, <1>2, <1>4, <1>6, <1>7, <2>1, <2>2, <2>3 DEF AuditTypeOK, Calls
<1>10. kept \subseteq 1..logged /\ forgotten \subseteq 1..logged
  BY <1>1 DEF AuditTypeOK
<1>11. StoredIsKept'
  <2>1. Rewriting => Rewriting'
    BY <1>2, <1>6 DEF Rewriting
  <2> QED
    BY <1>1, <1>2, <2>1 DEF StoredIsKept
<1>12. RewritesTheRest'
  <2> SUFFICES ASSUME NEW v \in Writers, writer'[v].op \in {"truncate", "write"},
                      NEW f \in 1..MaxLogged
               PROVE  writer'[v].lines[f] =
                        IF f \in kept /\ loggedAt'[f] >= writer'[v].since - RetentionPeriod
                        THEN 1 ELSE 0
    BY <1>2 DEF RewritesTheRest
  <2>1. v # w /\ writer'[v] = writer[v]
    BY <1>5, <1>6
  <2>2. writer[v].lines[f] =
          IF f \in kept /\ loggedAt[f] >= writer[v].since - RetentionPeriod THEN 1 ELSE 0
    BY <1>1, <2>1 DEF RewritesTheRest
  <2>3. f \in kept => loggedAt'[f] = loggedAt[f]
    BY <1>3, <1>4, <1>10
  <2> QED
    BY <2>1, <2>2, <2>3
<1>13. StoresOneEach'
  <2>1. ASSUME NEW v \in Writers, writer'[v].op = "store", v # w
        PROVE  /\ \E f \in (1..logged) \ kept : writer'[v].lines = LineOf(f)
               /\ writer[v].op = "store" /\ writer'[v] = writer[v]
    BY <1>1, <1>6, <2>1 DEF StoresOneEach
  <2>2. \A f \in 1..logged : LineOf(f) # LineOf(e)
    BY <1>1, <1>3, LineTyped, AuditFacts
  <2>3. writer'[w].lines = LineOf(e) /\ e \notin kept
    BY <1>3, <1>5, <1>6, <1>10
  <2>4. \A v \in Writers : writer'[v].op = "store" =>
          \E f \in (1..e) \ kept : writer'[v].lines = LineOf(f)
    BY <1>3, <2>1, <2>3
  <2>5. ASSUME NEW u \in Writers, NEW v \in Writers,
               writer'[u].op = "store", writer'[v].op = "store", u # v
        PROVE  writer'[u].lines # writer'[v].lines
    <3>1. CASE u = w
      BY <2>1, <2>2, <2>3, <2>5, <3>1
    <3>2. CASE v = w
      BY <2>1, <2>2, <2>3, <2>5, <3>2
    <3>3. CASE u # w /\ v # w
      BY <1>1, <2>1, <2>5, <3>3 DEF StoresOneEach
    <3> QED
      BY <3>1, <3>2, <3>3
  <2> QED
    BY <1>2, <2>4, <2>5 DEF StoresOneEach
<1>14. LoggedInOrder'
  <2> SUFFICES ASSUME NEW f \in 1..e, NEW g \in 1..e, f < g
               PROVE  /\ loggedAt'[f] <= loggedAt'[g]
                      /\ g \in forgotten => f \in forgotten
    BY <1>2 DEF LoggedInOrder
  <2>1. f \in 1..logged /\ loggedAt'[f] = loggedAt[f]
    BY <1>1, <1>3, <1>4, AuditFacts
  <2>2. CASE g = e
    BY <1>1, <1>3, <1>4, <1>10, <2>1, <2>2, AuditFacts
  <2>3. CASE g # e
    BY <1>1, <1>3, <1>4, <2>1, <2>3, AuditFacts DEF LoggedInOrder
  <2> QED
    BY <2>2, <2>3
<1>15. MemoryKeepsNewest'
  <2>1. {f \in (1..e) \ forgotten : e - f < MaxEntries} = Room(memoryLog) \cup {e}
    <3>1. e \notin forgotten /\ e - e < MaxEntries
      BY <1>3, <1>10, AuditAssumption
    <3> QED
      BY <1>3, <1>8, <3>1
  <2> QED
    BY <1>2, <1>8, <2>1 DEF MemoryKeepsNewest
<1> QED
  BY <1>7, <1>9, <1>11, <1>12, <1>13, <1>14, <1>15, AuditPartsNext

\* A cleanup forgets the oldest in memory and waits for the file.
LEMMA CleanupLogStep ==
  ASSUME AuditInv, NEW w \in Writers, CleanupLog(w)
  PROVE  AuditInv'
<1> DEFINE call == [op |-> "cleanup", lines |-> NoLines, since |-> auditTime]
           old == {e \in 1..logged : Older(e, RetentionPeriod)}
<1>1. /\ AuditTypeOK /\ StoredIsKept /\ RewritesTheRest /\ StoresOneEach /\ LockIsHeld
      /\ LoggedInOrder /\ MemoryKeepsNewest
  BY AuditParts
<1>2. /\ writer[w].op = "none"
      /\ memoryLog' = {e \in memoryLog : ~Older(e, RetentionPeriod)}
      /\ forgotten' = forgotten \cup old
      /\ writer' = [writer EXCEPT ![w] = call]
      /\ writeLock' = Append(writeLock, w)
      /\ UNCHANGED <<auditTime, logged, loggedAt, file, kept>>
  BY DEF CleanupLog
<1>3. call \in Calls /\ call.op = "cleanup"
  BY <1>1, LineTyped, AuditFacts DEF Calls
<1> HIDE DEF call
<1>4. /\ writer' \in [Writers -> Calls]
      /\ \A v \in Writers : writer'[v] = IF v = w THEN call ELSE writer[v]
  BY <1>1, <1>2, <1>3, WriterBecomes
<1>5. writeLock' \in Seq(Writers) /\ LockIsHeld'
  <2>1. call \in Calls /\ call.op \in {"store", "cleanup"}
    BY <1>3
  <2>2. /\ writer[w].op = "none" /\ writer' = [writer EXCEPT ![w] = call]
        /\ writeLock' = Append(writeLock, w)
    BY <1>2
  <2> QED
    BY <1>1, <2>1, <2>2, LockIsJoined
<1>6. AuditTypeOK'
  BY <1>1, <1>2, <1>4, <1>5 DEF AuditTypeOK, Calls
<1>7. StoredIsKept' /\ RewritesTheRest' /\ StoresOneEach'
  BY <1>1, <1>2, <1>3, <1>4 DEF StoredIsKept, Rewriting, RewritesTheRest, StoresOneEach
<1>8. LoggedInOrder'
  <2> SUFFICES ASSUME NEW e \in 1..logged, NEW f \in 1..logged, e < f, f \in forgotten'
               PROVE  e \in forgotten'
    BY <1>1, <1>2 DEF LoggedInOrder
  <2>1. loggedAt[e] <= loggedAt[f] /\ (f \in forgotten => e \in forgotten)
    BY <1>1 DEF LoggedInOrder
  <2>2. loggedAt[e] \in Int /\ loggedAt[f] \in Int
    BY <1>1, AuditFacts
  <2> QED
    BY <1>1, <1>2, <2>1, <2>2, AuditFacts DEF Older
<1>9. MemoryKeepsNewest'
  <2>1. memoryLog' = {e \in (1..logged) \ forgotten' : logged - e < MaxEntries}
    BY <1>1, <1>2 DEF MemoryKeepsNewest
  <2>2. Cardinality(memoryLog') <= MaxEntries
    <3>1. /\ memoryLog' \in SUBSET memoryLog /\ memoryLog \in SUBSET (1..logged)
          /\ logged \in Nat
      BY <1>1, <1>2, AuditFacts DEF AuditTypeOK
    <3>2. IsFiniteSet(memoryLog) /\ Cardinality(memoryLog) \in Nat /\ Cardinality(memoryLog') \in Nat
      BY <3>1, EntriesAreFinite
    <3>3. Cardinality(memoryLog') <= Cardinality(memoryLog)
      BY <3>1, <3>2, FS_Subset
    <3> QED
      BY <1>1, <3>2, <3>3, AuditAssumption DEF MemoryKeepsNewest
  <2> QED
    BY <1>2, <2>1, <2>2 DEF MemoryKeepsNewest
<1> QED
  BY <1>5, <1>6, <1>7, <1>8, <1>9, AuditPartsNext

\* While the first writer is not at a rewrite, nobody is.
LEMMA NobodyRewrites ==
  ASSUME LockIsHeld, NEW w \in Writers, Runs(w)
  PROVE  /\ \A v \in Writers : writer[v].op \in {"truncate", "write"} => v = w
         /\ writer[w].op # "write" => ~Rewriting
BY DEF LockIsHeld, Runs, Rewriting

\* A writer that releases the lock leaves the parts of the others.
LEMMA OthersStay ==
  ASSUME AuditInv, NEW w \in Writers, Runs(w),
         writer' = [writer EXCEPT ![w] = NotWriting], writeLock' = Remaining(w)
  PROVE  /\ \A v \in Writers : writer'[v] = IF v = w THEN NotWriting ELSE writer[v]
         /\ writer' \in [Writers -> Calls]
         /\ writeLock' \in Seq(Writers) /\ LockIsHeld'
         /\ ~Rewriting' /\ RewritesTheRest'
<1>1. AuditTypeOK /\ LockIsHeld
  BY AuditParts
<1>2. /\ writer' \in [Writers -> Calls]
      /\ \A v \in Writers : writer'[v] = IF v = w THEN NotWriting ELSE writer[v]
  BY <1>1, LineTyped, WriterBecomes DEF Calls
<1>3. writeLock' \in Seq(Writers) /\ LockIsHeld'
  BY <1>1, LockIsLeft
<1>4. NotWriting.op = "none"
  BY DEF NotWriting
<1>5. \A v \in Writers : writer'[v].op \notin {"truncate", "write"}
  BY <1>1, <1>2, <1>4, NobodyRewrites
<1> QED
  BY <1>2, <1>3, <1>5 DEF Rewriting, RewritesTheRest

\* An append adds the line of its entry, which the file had not, or fails.
LEMMA AppendedStep ==
  ASSUME AuditInv, NEW w \in Writers, NEW ok \in BOOLEAN, Appended(w, ok)
  PROVE  AuditInv'
<1>1. /\ AuditTypeOK /\ StoredIsKept /\ RewritesTheRest /\ StoresOneEach /\ LockIsHeld
      /\ LoggedInOrder /\ MemoryKeepsNewest
  BY AuditParts
<1>2. /\ Runs(w) /\ writer[w].op = "store"
      /\ file' = IF ok THEN [e \in 1..MaxLogged |-> file[e] + writer[w].lines[e]] ELSE file
      /\ kept' = IF ok THEN kept \cup {e \in 1..logged : writer[w].lines[e] > 0} ELSE kept
      /\ writer' = [writer EXCEPT ![w] = NotWriting] /\ writeLock' = Remaining(w)
      /\ UNCHANGED <<auditTime, logged, loggedAt, memoryLog, forgotten>>
  BY DEF Appended, Released
<1>3. /\ \A v \in Writers : writer'[v] = IF v = w THEN NotWriting ELSE writer[v]
      /\ writer' \in [Writers -> Calls]
      /\ writeLock' \in Seq(Writers) /\ LockIsHeld'
      /\ ~Rewriting' /\ RewritesTheRest'
  BY <1>2, OthersStay
<1>4. \A e \in 1..MaxLogged : file[e] = IF e \in kept THEN 1 ELSE 0
  BY <1>1, <1>2, NobodyRewrites DEF StoredIsKept
<1>5. PICK entry \in (1..logged) \ kept : writer[w].lines = LineOf(entry)
  BY <1>1, <1>2 DEF StoresOneEach
<1>6. /\ \A e \in 1..MaxLogged : writer[w].lines[e] = IF e = entry THEN 1 ELSE 0
      /\ 1..logged \subseteq 1..MaxLogged /\ entry \in 1..MaxLogged
      /\ {e \in 1..logged : writer[w].lines[e] > 0} = {entry}
  <2>1. \A e \in 1..MaxLogged : writer[w].lines[e] = IF e = entry THEN 1 ELSE 0
    BY <1>5 DEF LineOf
  <2> QED
    BY <1>1, <1>5, <2>1, AuditFacts
<1>7. kept' = (IF ok THEN kept \cup {entry} ELSE kept) /\ kept' \subseteq 1..logged
  BY <1>1, <1>2, <1>6 DEF AuditTypeOK
<1>8. /\ \A e \in 1..MaxLogged : file'[e] = IF e \in kept' THEN 1 ELSE 0
      /\ file' \in Lines
  <2>1. \A e \in 1..MaxLogged : file'[e] = IF ok THEN file[e] + writer[w].lines[e] ELSE file[e]
    BY <1>2
  <2>2. \A e \in 1..MaxLogged : file'[e] = IF e \in kept' THEN 1 ELSE 0
    BY <1>4, <1>5, <1>6, <1>7, <2>1
  <2>3. DOMAIN file' = 1..MaxLogged /\ file' = [e \in 1..MaxLogged |-> file'[e]]
    BY <1>1, <1>2 DEF AuditTypeOK, Lines
  <2> QED
    BY <2>2, <2>3 DEF Lines
<1>9. StoredIsKept'
  BY <1>8 DEF StoredIsKept
<1>10. StoresOneEach'
  <2>1. NotWriting.op = "none"
    BY DEF NotWriting
  <2>2. ASSUME NEW v \in Writers, writer'[v].op = "store"
        PROVE  /\ v # w /\ writer'[v] = writer[v]
               /\ \E e \in (1..logged) \ kept' : writer'[v].lines = LineOf(e)
    <3>1. v # w /\ writer'[v] = writer[v]
      BY <1>3, <2>1, <2>2
    <3>2. PICK e \in (1..logged) \ kept : writer[v].lines = LineOf(e)
      BY <1>1, <2>2, <3>1 DEF StoresOneEach
    <3>3. e # entry
      BY <1>1, <1>2, <1>5, <2>2, <3>1, <3>2 DEF StoresOneEach
    <3> QED
      BY <1>7, <3>1, <3>2, <3>3
  <2> QED
    BY <1>1, <1>2, <2>2 DEF StoresOneEach
<1>11. AuditTypeOK'
  BY <1>1, <1>2, <1>3, <1>7, <1>8 DEF AuditTypeOK, Calls
<1>12. LoggedInOrder' /\ MemoryKeepsNewest'
  BY <1>1, <1>2 DEF LoggedInOrder, MemoryKeepsNewest
<1> QED
  BY <1>3, <1>9, <1>10, <1>11, <1>12, AuditPartsNext

\* What a cleanup read is what the file has, without what is too old.
LEMMA FileReadStep ==
  ASSUME AuditInv, NEW w \in Writers, NEW ok \in BOOLEAN, FileRead(w, ok)
  PROVE  AuditInv'
<1>1. /\ AuditTypeOK /\ StoredIsKept /\ RewritesTheRest /\ StoresOneEach /\ LockIsHeld
      /\ LoggedInOrder /\ MemoryKeepsNewest
  BY AuditParts
<1>2. /\ Runs(w) /\ writer[w].op = "cleanup"
      /\ UNCHANGED <<auditTime, logged, loggedAt, memoryLog, file, kept, forgotten>>
  BY DEF FileRead
<1>3. LoggedInOrder' /\ MemoryKeepsNewest'
  BY <1>1, <1>2 DEF LoggedInOrder, MemoryKeepsNewest
<1>4. \A e \in 1..MaxLogged : file[e] = IF e \in kept THEN 1 ELSE 0
  BY <1>1, <1>2, NobodyRewrites DEF StoredIsKept
<1>5. CASE ~ok
  <2>1. writer' = [writer EXCEPT ![w] = NotWriting] /\ writeLock' = Remaining(w)
    BY <1>5 DEF FileRead, Released
  <2>2. /\ \A v \in Writers : writer'[v] = IF v = w THEN NotWriting ELSE writer[v]
        /\ writer' \in [Writers -> Calls]
        /\ writeLock' \in Seq(Writers) /\ LockIsHeld'
        /\ ~Rewriting' /\ RewritesTheRest'
    BY <1>2, <2>1, OthersStay
  <2>3. NotWriting.op = "none"
    BY DEF NotWriting
  <2>4. StoredIsKept' /\ StoresOneEach'
    BY <1>1, <1>2, <1>4, <2>2, <2>3 DEF StoredIsKept, StoresOneEach
  <2>5. AuditTypeOK'
    BY <1>1, <1>2, <2>2 DEF AuditTypeOK, Calls
  <2> QED
    BY <1>3, <2>2, <2>4, <2>5, AuditPartsNext
<1>6. CASE ok
  <2> DEFINE rest == [e \in 1..MaxLogged |-> IF Older(e, RetentionPeriod) THEN 0 ELSE file[e]]
             call == [op |-> "truncate", since |-> auditTime, lines |-> rest]
  <2>1. writer' = [writer EXCEPT ![w] = call] /\ writeLock' = writeLock
    BY <1>6 DEF FileRead
  <2>2. /\ rest \in Lines
        /\ \A e \in 1..MaxLogged : rest[e] =
             IF e \in kept /\ loggedAt[e] >= auditTime - RetentionPeriod THEN 1 ELSE 0
    <3>1. \A e \in 1..MaxLogged : rest[e] =
            IF e \in kept /\ loggedAt[e] >= auditTime - RetentionPeriod THEN 1 ELSE 0
      BY <1>1, <1>4, AuditFacts DEF Older
    <3> QED
      BY <3>1 DEF Lines
  <2> HIDE DEF rest
  <2>3. call \in Calls /\ call.op = "truncate" /\ call.lines = rest /\ call.since = auditTime
    BY <1>1, <2>2, AuditFacts DEF Calls
  <2> HIDE DEF call
  <2>4. /\ writer' \in [Writers -> Calls]
        /\ \A v \in Writers : writer'[v] = IF v = w THEN call ELSE writer[v]
    BY <1>1, <2>1, <2>3, WriterBecomes
  <2>5. LockIsHeld'
    <3>1. \A v \in Writers : Runs(v)' <=> Runs(v)
      BY <2>1 DEF Runs
    <3>2. \A v \in Writers : writer'[v].op # "none" <=> writer[v].op # "none"
      BY <1>2, <2>3, <2>4
    <3>3. \A v \in Writers : writer'[v].op \in {"truncate", "write"} => Runs(v)'
      BY <1>1, <1>2, <2>4, <3>1 DEF LockIsHeld
    <3> QED
      BY <1>1, <2>1, <3>2, <3>3 DEF LockIsHeld
  <2>6. RewritesTheRest'
    <3>1. \A v \in Writers : writer'[v].op \in {"truncate", "write"} => v = w
      BY <1>1, <1>2, <2>4, NobodyRewrites
    <3> QED
      BY <1>2, <2>2, <2>3, <2>4, <3>1 DEF RewritesTheRest
  <2>7. StoredIsKept' /\ StoresOneEach'
    BY <1>1, <1>2, <1>4, <2>3, <2>4 DEF StoredIsKept, StoresOneEach
  <2>8. AuditTypeOK'
    BY <1>1, <1>2, <2>1, <2>4 DEF AuditTypeOK, Calls
  <2> QED
    BY <1>3, <2>5, <2>6, <2>7, <2>8, AuditPartsNext
<1> QED
  BY <1>5, <1>6

\* The file is emptied before it is written.
LEMMA TruncatedStep ==
  ASSUME AuditInv, NEW w \in Writers, Truncated(w)
  PROVE  AuditInv'
<1> DEFINE call == [op |-> "write", lines |-> writer[w].lines, since |-> writer[w].since]
<1>1. /\ AuditTypeOK /\ StoredIsKept /\ RewritesTheRest /\ StoresOneEach /\ LockIsHeld
      /\ LoggedInOrder /\ MemoryKeepsNewest
  BY AuditParts
<1>2. /\ writer[w].op = "truncate" /\ file' = NoLines
      /\ writer' = [writer EXCEPT ![w] = call]
      /\ UNCHANGED <<auditTime, logged, loggedAt, memoryLog, writeLock, kept, forgotten>>
  BY DEF Truncated
<1>3. /\ call \in Calls /\ call.op = "write" /\ call.lines = writer[w].lines
      /\ call.since = writer[w].since
  BY <1>1, AuditFacts DEF Calls
<1> HIDE DEF call
<1>4. /\ writer' \in [Writers -> Calls]
      /\ \A v \in Writers : writer'[v] = IF v = w THEN call ELSE writer[v]
  BY <1>1, <1>2, <1>3, WriterBecomes
<1>5. LockIsHeld'
  <2>1. \A v \in Writers : Runs(v)' <=> Runs(v)
    BY <1>2 DEF Runs
  <2>2. \A v \in Writers : writer'[v].op # "none" <=> writer[v].op # "none"
    BY <1>2, <1>3, <1>4
  <2>3. \A v \in Writers : writer'[v].op \in {"truncate", "write"} => Runs(v)'
    BY <1>1, <1>2, <1>4, <2>1 DEF LockIsHeld
  <2> QED
    BY <1>1, <1>2, <2>2, <2>3 DEF LockIsHeld
<1>6. StoredIsKept'
  <2>1. writer'[w].op = "write"
    BY <1>3, <1>4
  <2> QED
    BY <2>1 DEF StoredIsKept, Rewriting
<1>7. RewritesTheRest' /\ StoresOneEach'
  BY <1>1, <1>2, <1>3, <1>4 DEF RewritesTheRest, StoresOneEach
<1>8. AuditTypeOK'
  BY <1>1, <1>2, <1>4, LineTyped DEF AuditTypeOK, Calls
<1>9. LoggedInOrder' /\ MemoryKeepsNewest'
  BY <1>1, <1>2 DEF LoggedInOrder, MemoryKeepsNewest
<1> QED
  BY <1>5, <1>6, <1>7, <1>8, <1>9, AuditPartsNext

\* What is written is what is left of what was kept.
LEMMA WrittenStep ==
  ASSUME AuditInv, NEW w \in Writers, Written(w)
  PROVE  AuditInv'
<1>1. /\ AuditTypeOK /\ StoredIsKept /\ RewritesTheRest /\ StoresOneEach /\ LockIsHeld
      /\ LoggedInOrder /\ MemoryKeepsNewest
  BY AuditParts
<1>2. /\ writer[w].op = "write" /\ file' = writer[w].lines
      /\ kept' = {e \in kept : loggedAt[e] >= writer[w].since - RetentionPeriod}
      /\ writer' = [writer EXCEPT ![w] = NotWriting] /\ writeLock' = Remaining(w)
      /\ UNCHANGED <<auditTime, logged, loggedAt, memoryLog, forgotten>>
  BY DEF Written, Released
<1>3. Runs(w)
  BY <1>1, <1>2 DEF LockIsHeld
<1>4. /\ \A v \in Writers : writer'[v] = IF v = w THEN NotWriting ELSE writer[v]
      /\ writer' \in [Writers -> Calls]
      /\ writeLock' \in Seq(Writers) /\ LockIsHeld'
      /\ ~Rewriting' /\ RewritesTheRest'
  BY <1>2, <1>3, OthersStay
<1>5. \A e \in 1..MaxLogged : file'[e] = IF e \in kept' THEN 1 ELSE 0
  BY <1>1, <1>2 DEF RewritesTheRest
<1>6. StoredIsKept'
  BY <1>5 DEF StoredIsKept
<1>7. StoresOneEach'
  <2>1. NotWriting.op = "none" /\ kept' \subseteq kept
    BY <1>2 DEF NotWriting
  <2>2. ASSUME NEW v \in Writers, writer'[v].op = "store"
        PROVE  /\ v # w /\ writer'[v] = writer[v]
               /\ \E e \in (1..logged) \ kept' : writer'[v].lines = LineOf(e)
    BY <1>1, <1>4, <2>1, <2>2 DEF StoresOneEach
  <2> QED
    BY <1>1, <1>2, <2>2 DEF StoresOneEach
<1>8. AuditTypeOK'
  <2>1. file' \in Lines /\ kept' \subseteq 1..logged
    BY <1>1, <1>2, AuditFacts DEF AuditTypeOK, Calls
  <2> QED
    BY <1>1, <1>2, <1>4, <2>1 DEF AuditTypeOK, Calls
<1>9. LoggedInOrder' /\ MemoryKeepsNewest'
  BY <1>1, <1>2 DEF LoggedInOrder, MemoryKeepsNewest
<1> QED
  BY <1>4, <1>6, <1>7, <1>8, <1>9, AuditPartsNext

\* Whoever writes and whatever is forgotten, the file has what was stored,
\* once, memory has the newest, and pages put together are the log.
THEOREM AuditInvariance == AuditSpec => []AuditInv
<1>1. AuditInit => AuditInv
  <2> SUFFICES ASSUME AuditInit PROVE AuditInv
    OBVIOUS
  <2>1. AuditTypeOK
    <3>1. /\ auditTime = 0 /\ logged = 0 /\ memoryLog = {} /\ kept = {} /\ forgotten = {}
          /\ file = NoLines /\ writeLock = <<>>
          /\ writer = [w \in Writers |-> NotWriting]
          /\ loggedAt = [e \in 1..MaxLogged |-> 0]
      BY DEF AuditInit
    <3>2. /\ auditTime \in 0..MaxAuditTime /\ logged \in 0..MaxLogged
          /\ 0 \in 0..auditTime
      BY <3>1, AuditAssumption
    <3>3. loggedAt \in [1..MaxLogged -> 0..auditTime]
      BY <3>1, <3>2
    <3>4. writeLock \in Seq(Writers)
      BY <3>1, EmptySeq
    <3> QED
      BY <3>1, <3>2, <3>3, <3>4, LineTyped DEF AuditTypeOK
  <2>2. StoredIsKept
    BY DEF AuditInit, StoredIsKept, NoLines
  <2>3. \A w \in Writers : writer[w].op = "none"
    BY DEF AuditInit, NotWriting
  <2>4. RewritesTheRest /\ StoresOneEach
    BY <2>3 DEF RewritesTheRest, StoresOneEach
  <2>5. LockIsHeld
    <3>1. Len(writeLock) = 0
      BY EmptySeq DEF AuditInit
    <3> QED
      BY <2>3, <3>1 DEF LockIsHeld
  <2>6. LoggedInOrder
    BY DEF AuditInit, LoggedInOrder
  <2>7. MemoryKeepsNewest
    BY FS_EmptySet, AuditAssumption DEF AuditInit, MemoryKeepsNewest
  <2> QED
    BY <2>1, <2>2, <2>4, <2>5, <2>6, <2>7, AuditParts
<1>2. AuditInv /\ [AuditNext]_auditVars => AuditInv'
  <2> SUFFICES ASSUME AuditInv, [AuditNext]_auditVars PROVE AuditInv'
    OBVIOUS
  <2>1. CASE UNCHANGED auditVars
    BY <2>1, AuditParts, AuditPartsNext
    DEF auditVars, AuditTypeOK, StoredIsKept, RewritesTheRest, StoresOneEach, Rewriting,
        LockIsHeld, Runs, LoggedInOrder, MemoryKeepsNewest
  <2>2. CASE AuditTimePasses
    <3>1. /\ AuditTypeOK /\ StoredIsKept /\ RewritesTheRest /\ StoresOneEach /\ LockIsHeld
          /\ LoggedInOrder /\ MemoryKeepsNewest
      BY AuditParts
    <3>2. /\ auditTime' \in 0..MaxAuditTime /\ 0..auditTime \subseteq 0..auditTime'
          /\ UNCHANGED <<logged, loggedAt, memoryLog, file, writeLock, writer, kept, forgotten>>
      BY <2>2, <3>1, AuditAssumption DEF AuditTimePasses, AuditTypeOK
    <3>3. AuditTypeOK'
      BY <3>1, <3>2 DEF AuditTypeOK
    <3>4. StoredIsKept' /\ RewritesTheRest' /\ StoresOneEach' /\ LockIsHeld'
          /\ LoggedInOrder' /\ MemoryKeepsNewest'
      BY <3>1, <3>2 DEF StoredIsKept, RewritesTheRest, StoresOneEach, Rewriting, LockIsHeld,
                        Runs, LoggedInOrder, MemoryKeepsNewest
    <3> QED
      BY <3>3, <3>4, AuditPartsNext
  <2> QED
    BY <2>1, <2>2, LogStep, CleanupLogStep, AppendedStep, FileReadStep, TruncatedStep,
       WrittenStep DEF AuditNext
<1> QED
  BY <1>1, <1>2, PTL DEF AuditSpec

-----------------------------------------------------------------------------
(***************************************************************************)
(* Proofs about the confirmations, for any requests, users and periods.    *)
(* ConfirmationInv is inductive: that a confirmation is its owner's and in *)
(* time rests on what is pending being as it was asked (PendingIsAsked).   *)
(***************************************************************************)

\* What is found confirmed is pending.
LEMMA PendingMeans == ConfirmationTypeOK /\ PendingIsAsked => ConfirmedByOwnerInTime
<1> SUFFICES ASSUME ConfirmationTypeOK, PendingIsAsked,
                    NEW r \in DOMAIN requested, NEW user \in Owners, IsConfirmed(r, user)
             PROVE  /\ user = requested[r].owner
                    /\ r \in DOMAIN confirmedBy /\ confirmedBy[r].owner = user
                    /\ confirmTime <= requested[r].at + ExpiryPeriod
                    /\ r \notin cancelled
  BY DEF ConfirmedByOwnerInTime
<1>1. /\ r \in DOMAIN pendingConfirmations /\ pendingConfirmations[r].owner = user
      /\ ~(pendingConfirmations[r].expiresAt < confirmTime)
      /\ pendingConfirmations[r].confirmed
  BY DEF IsConfirmed, Owned, Expired
<1>2. pendingConfirmations[r].expiresAt \in Nat /\ confirmTime \in Nat
  BY <1>1, ConfirmationAssumption DEF ConfirmationTypeOK
<1> QED
  BY <1>1, <1>2 DEF PendingIsAsked

LEMMA ConfirmationParts == ConfirmationInv <=> ConfirmationTypeOK /\ PendingIsAsked
BY PendingMeans DEF ConfirmationInv

LEMMA ConfirmationPartsNext == ConfirmationTypeOK' /\ PendingIsAsked' => ConfirmationInv'
BY ConfirmationParts, PTL

\* Dropping requests keeps what is left as it was asked.
LEMMA DroppingKeeps ==
  ASSUME ConfirmationInv, NEW S, pendingConfirmations' = Dropped(S),
         UNCHANGED <<confirmTime, requested, confirmedBy>>,
         cancelled \subseteq cancelled', cancelled' \ cancelled \subseteq S,
         cancelled' \subseteq DOMAIN requested
  PROVE  ConfirmationInv'
<1>1. ConfirmationTypeOK /\ PendingIsAsked
  BY ConfirmationParts
<1>2. /\ DOMAIN pendingConfirmations' = DOMAIN pendingConfirmations \ S
      /\ \A r \in DOMAIN pendingConfirmations' :
           pendingConfirmations'[r] = pendingConfirmations[r]
      /\ pendingConfirmations' = [r \in DOMAIN pendingConfirmations' |-> pendingConfirmations'[r]]
  BY DEF Dropped
<1>3. ConfirmationTypeOK'
  <2>1. \A r \in DOMAIN pendingConfirmations' :
          pendingConfirmations'[r] \in [owner : Owners, expiresAt : Nat, confirmed : BOOLEAN]
    BY <1>1, <1>2 DEF ConfirmationTypeOK
  <2> QED
    BY <1>1, <1>2, <2>1 DEF ConfirmationTypeOK
<1>4. PendingIsAsked'
  BY <1>1, <1>2 DEF PendingIsAsked
<1> QED
  BY <1>3, <1>4, ConfirmationPartsNext

LEMMA CreateStep ==
  ASSUME ConfirmationInv, NEW r \in Requests, NEW owner \in Owners,
         CreateConfirmationRequest(r, owner)
  PROVE  ConfirmationInv'
<1> DEFINE asked == [owner |-> owner, at |-> confirmTime]
           pending == [owner |-> owner, expiresAt |-> confirmTime + ExpiryPeriod,
                       confirmed |-> FALSE]
<1>1. ConfirmationTypeOK /\ PendingIsAsked
  BY ConfirmationParts
<1>2. /\ r \notin DOMAIN requested
      /\ pendingConfirmations' = Put(pendingConfirmations, r, pending)
      /\ requested' = Put(requested, r, asked)
      /\ UNCHANGED <<confirmTime, confirmedBy, cancelled>>
  BY DEF CreateConfirmationRequest, ExpiresAt
<1>3. /\ asked \in [owner : Owners, at : 0..confirmTime]
      /\ pending \in [owner : Owners, expiresAt : Nat, confirmed : BOOLEAN]
      /\ asked.owner = owner /\ asked.at = confirmTime
      /\ pending.owner = owner /\ pending.expiresAt = confirmTime + ExpiryPeriod
      /\ pending.confirmed = FALSE
  <2>1. confirmTime \in Nat /\ confirmTime \in 0..confirmTime /\ confirmTime + ExpiryPeriod \in Nat
    BY <1>1, ConfirmationAssumption DEF ConfirmationTypeOK
  <2> QED
    BY <2>1
<1> HIDE DEF asked, pending
<1>4. /\ DOMAIN requested' = DOMAIN requested \cup {r}
      /\ \A q \in DOMAIN requested' : requested'[q] = IF q = r THEN asked ELSE requested[q]
      /\ requested' = [q \in DOMAIN requested' |-> requested'[q]]
  BY <1>2 DEF Put
<1>5. /\ DOMAIN pendingConfirmations' = DOMAIN pendingConfirmations \cup {r}
      /\ \A q \in DOMAIN pendingConfirmations' :
           pendingConfirmations'[q] = IF q = r THEN pending ELSE pendingConfirmations[q]
      /\ pendingConfirmations' = [q \in DOMAIN pendingConfirmations' |-> pendingConfirmations'[q]]
  BY <1>2 DEF Put
<1>6. ConfirmationTypeOK'
  <2>1. \A q \in DOMAIN requested' : requested'[q] \in [owner : Owners, at : 0..confirmTime]
    BY <1>1, <1>3, <1>4 DEF ConfirmationTypeOK
  <2>2. \A q \in DOMAIN pendingConfirmations' :
          pendingConfirmations'[q] \in [owner : Owners, expiresAt : Nat, confirmed : BOOLEAN]
    BY <1>1, <1>3, <1>5 DEF ConfirmationTypeOK
  <2> QED
    BY <1>1, <1>2, <1>4, <1>5, <2>1, <2>2 DEF ConfirmationTypeOK
<1>7. PendingIsAsked'
  <2> SUFFICES ASSUME NEW q \in DOMAIN pendingConfirmations'
               PROVE  /\ q \notin cancelled
                      /\ pendingConfirmations'[q].owner = requested'[q].owner
                      /\ pendingConfirmations'[q].expiresAt = requested'[q].at + ExpiryPeriod
                      /\ pendingConfirmations'[q].confirmed =>
                           /\ q \in DOMAIN confirmedBy
                           /\ confirmedBy[q].owner = requested'[q].owner
                           /\ confirmedBy[q].at <= requested'[q].at + ExpiryPeriod
    BY <1>2 DEF PendingIsAsked
  <2>1. CASE q = r
    BY <1>1, <1>2, <1>3, <1>4, <1>5, <2>1 DEF ConfirmationTypeOK
  <2>2. CASE q # r
    <3>1. /\ q \in DOMAIN pendingConfirmations /\ q \in DOMAIN requested
          /\ pendingConfirmations'[q] = pendingConfirmations[q] /\ requested'[q] = requested[q]
      BY <1>1, <1>4, <1>5, <2>2 DEF ConfirmationTypeOK
    <3> QED
      BY <1>1, <3>1 DEF PendingIsAsked
  <2> QED
    BY <2>1, <2>2
<1> QED
  BY <1>6, <1>7, ConfirmationPartsNext

LEMMA ConfirmStep ==
  ASSUME ConfirmationInv, NEW r \in Requests, NEW user \in Owners, ConfirmRequest(r, user)
  PROVE  ConfirmationInv'
<1>1. ConfirmationTypeOK /\ PendingIsAsked /\ cancelled \subseteq DOMAIN requested
  BY ConfirmationParts DEF ConfirmationTypeOK
<1>2. /\ r \in DOMAIN pendingConfirmations /\ pendingConfirmations[r].owner = user
      /\ UNCHANGED <<confirmTime, requested, cancelled>>
  BY DEF ConfirmRequest, Owned
<1>3. CASE Expired(r)
  <2>1. pendingConfirmations' = Dropped({r}) /\ UNCHANGED confirmedBy
    BY <1>3 DEF ConfirmRequest
  <2> QED
    BY <1>1, <1>2, <2>1, DroppingKeeps
<1>4. CASE ~Expired(r)
  <2> DEFINE by == [owner |-> user, at |-> confirmTime]
  <2>1. /\ pendingConfirmations' = [pendingConfirmations EXCEPT ![r].confirmed = TRUE]
        /\ confirmedBy' = Put(confirmedBy, r, by)
    BY <1>4 DEF ConfirmRequest
  <2>2. by \in [owner : Owners, at : 0..confirmTime] /\ by.owner = user /\ by.at = confirmTime
    <3>1. confirmTime \in 0..confirmTime
      BY <1>1, ConfirmationAssumption DEF ConfirmationTypeOK
    <3> QED
      BY <3>1
  <2> HIDE DEF by
  <2>3. /\ DOMAIN confirmedBy' = DOMAIN confirmedBy \cup {r}
        /\ \A q \in DOMAIN confirmedBy' : confirmedBy'[q] = IF q = r THEN by ELSE confirmedBy[q]
        /\ confirmedBy' = [q \in DOMAIN confirmedBy' |-> confirmedBy'[q]]
    BY <2>1 DEF Put
  <2>4. /\ DOMAIN pendingConfirmations' = DOMAIN pendingConfirmations
        /\ \A q \in DOMAIN pendingConfirmations : q # r =>
             pendingConfirmations'[q] = pendingConfirmations[q]
        /\ pendingConfirmations'[r].owner = pendingConfirmations[r].owner
        /\ pendingConfirmations'[r].expiresAt = pendingConfirmations[r].expiresAt
        /\ pendingConfirmations' \in [DOMAIN pendingConfirmations ->
             [owner : Owners, expiresAt : Nat, confirmed : BOOLEAN]]
    BY <1>1, <1>2, <2>1 DEF ConfirmationTypeOK
  <2>5. ConfirmationTypeOK'
    <3>1. \A q \in DOMAIN confirmedBy' : confirmedBy'[q] \in [owner : Owners, at : 0..confirmTime]
      BY <1>1, <2>2, <2>3 DEF ConfirmationTypeOK
    <3> QED
      BY <1>1, <1>2, <2>3, <2>4, <3>1 DEF ConfirmationTypeOK
  <2>6. confirmTime <= requested[r].at + ExpiryPeriod
    <3>1. pendingConfirmations[r].expiresAt \in Nat /\ confirmTime \in Nat
      BY <1>1, <1>2, ConfirmationAssumption DEF ConfirmationTypeOK
    <3> QED
      BY <1>1, <1>2, <1>4, <3>1 DEF Expired, PendingIsAsked
  <2>7. PendingIsAsked'
    <3> SUFFICES ASSUME NEW q \in DOMAIN pendingConfirmations
                 PROVE  /\ q \notin cancelled
                        /\ pendingConfirmations'[q].owner = requested[q].owner
                        /\ pendingConfirmations'[q].expiresAt = requested[q].at + ExpiryPeriod
                        /\ pendingConfirmations'[q].confirmed =>
                             /\ q \in DOMAIN confirmedBy'
                             /\ confirmedBy'[q].owner = requested[q].owner
                             /\ confirmedBy'[q].at <= requested[q].at + ExpiryPeriod
      BY <1>2, <2>4 DEF PendingIsAsked
    <3>1. CASE q = r
      BY <1>1, <1>2, <2>2, <2>3, <2>4, <2>6, <3>1 DEF PendingIsAsked
    <3>2. CASE q # r
      BY <1>1, <2>3, <2>4, <3>2 DEF PendingIsAsked
    <3> QED
      BY <3>1, <3>2
  <2> QED
    BY <2>5, <2>7, ConfirmationPartsNext
<1> QED
  BY <1>3, <1>4

\* A request that is found confirmed was confirmed by its owner, in time.
THEOREM ConfirmationInvariance == ConfirmationSpec => []ConfirmationInv
<1>1. ConfirmationInit => ConfirmationInv
  BY ConfirmationParts, ConfirmationAssumption
  DEF ConfirmationInit, ConfirmationTypeOK, PendingIsAsked, Nothing
<1>2. ConfirmationInv /\ [ConfirmationNext]_confirmationVars => ConfirmationInv'
  <2> SUFFICES ASSUME ConfirmationInv, [ConfirmationNext]_confirmationVars
               PROVE  ConfirmationInv'
    OBVIOUS
  <2>1. CASE UNCHANGED confirmationVars
    BY <2>1, ConfirmationParts, ConfirmationPartsNext
    DEF confirmationVars, ConfirmationTypeOK, PendingIsAsked
  <2>2. ASSUME NEW r \in Requests, CancelRequest(r) PROVE ConfirmationInv'
    <3>1. cancelled' = cancelled \cup {r} /\ cancelled' \subseteq DOMAIN requested
      BY <2>2, ConfirmationParts DEF CancelRequest, ConfirmationTypeOK
    <3> QED
      BY <2>2, <3>1, DroppingKeeps DEF CancelRequest
  <2>3. ASSUME NEW r \in Requests, NEW user \in Owners, AskConfirmed(r, user)
        PROVE  ConfirmationInv'
    BY <2>3, DroppingKeeps, ConfirmationParts DEF AskConfirmed, ConfirmationTypeOK
  <2>4. CASE CleanupExpired
    BY <2>4, DroppingKeeps, ConfirmationParts DEF CleanupExpired, ConfirmationTypeOK
  <2>5. CASE ConfirmTimePasses
    <3>1. ConfirmationTypeOK /\ PendingIsAsked
      BY ConfirmationParts
    <3>2. /\ confirmTime' \in 0..MaxConfirmTime /\ 0..confirmTime \subseteq 0..confirmTime'
          /\ UNCHANGED <<pendingConfirmations, requested, confirmedBy, cancelled>>
      BY <2>5, <3>1, ConfirmationAssumption DEF ConfirmTimePasses, ConfirmationTypeOK
    <3>3. ConfirmationTypeOK'
      <4>1. \A r \in DOMAIN requested : requested[r] \in [owner : Owners, at : 0..confirmTime']
        BY <3>1, <3>2 DEF ConfirmationTypeOK
      <4>2. \A r \in DOMAIN confirmedBy : confirmedBy[r] \in [owner : Owners, at : 0..confirmTime']
        BY <3>1, <3>2 DEF ConfirmationTypeOK
      <4> QED
        BY <3>1, <3>2, <4>1, <4>2 DEF ConfirmationTypeOK
    <3>4. PendingIsAsked'
      BY <3>1, <3>2 DEF PendingIsAsked
    <3> QED
      BY <3>3, <3>4, ConfirmationPartsNext
  <2> QED
    BY <2>1, <2>2, <2>3, <2>4, <2>5, CreateStep, ConfirmStep DEF ConfirmationNext
<1> QED
  BY <1>1, <1>2, PTL DEF ConfirmationSpec

\* The log and the confirmations keep what they promise together, as they
\* share no state.
THEOREM SecurityInvariance == AuditSpec /\ ConfirmationSpec => []SecurityInv
BY AuditInvariance, ConfirmationInvariance, PTL DEF SecurityInv
===============================================================================
