-------------------------- MODULE InterventionRouter --------------------------
(* The router of interventions, packages/p2p/src/intervention/router.ts, for *)
(* the requests of one conversation: each goes to the agents its rule        *)
(* selects, with repetitions, and to the messages of the conversation once   *)
(* all have it.  Meanwhile agents respond and come and go, and the           *)
(* conversation may be terminated, deleted or created anew.  A callback      *)
(* settles at some time.  The text of a message is left out.                 *)
EXTENDS Naturals, Sequences, FiniteSets, SequencesExt

CONSTANTS
    Routings,       \* requests given to routeIntervention
    Agents,         \* agents, in the order getAgentsCallback returns them
    RuleOf,         \* request -> targetSelector of the rule of its action
    TargetOf,       \* request -> its targetAgentId, NoAgent when undefined
    NoAgent,
    Capable,        \* agents with the targetCapability
    RetryAttempts,  \* config.retryAttempts
    MaxResponses    \* bound: responses of agents

ASSUME RouterAssumption ==
    /\ RuleOf \in [Routings -> {"all", "originator", "specific", "capability"}]
    /\ TargetOf \in [Routings -> Range(Agents) \cup {NoAgent}]
    /\ NoAgent \notin Range(Agents) /\ Routings \cap Range(Agents) = {}
    /\ RetryAttempts \in Nat \ {0} /\ MaxResponses \in Nat

VARIABLES
    convState,  \* "none", "active" or "terminated"
    messages,   \* what the conversation's messages came from
    pendings,   \* its pending requests for clarification
    present,    \* the agents in the conversation
    stage,      \* request -> how far its routing is
    targets,    \* request -> its target agents
    delivery,   \* <<request, agent>> -> how far sendWithRetry is
    attempts,   \* <<request, agent>> -> attempts so far
    began       \* request -> state of the conversation when it was checked

routerVars == <<convState, messages, pendings, present, stage, targets, delivery, attempts, began>>

AgentSet == Range(Agents)

Deliveries == Routings \X AgentSet

Stages == {"new", "querying", "sending", "routed", "refused", "failed"}

RouterTypeOK ==
    /\ convState \in {"none", "active", "terminated"}
    /\ messages \in Seq(Routings \cup AgentSet)
    /\ pendings \subseteq Routings /\ present \subseteq AgentSet
    /\ stage \in [Routings -> Stages]
    /\ targets \in [Routings -> SUBSET AgentSet]
    /\ delivery \in [Deliveries -> {"none", "sending", "waiting", "sent", "failed"}]
    /\ attempts \in [Deliveries -> 0..RetryAttempts]
    /\ began \in [Routings -> {"none", "active", "terminated"}]

RouterInit ==
    /\ convState = "active" /\ messages = <<>> /\ pendings = {}
    /\ present = AgentSet
    /\ stage = [r \in Routings |-> "new"]
    /\ targets = [r \in Routings |-> {}]
    /\ delivery = [d \in Deliveries |-> "none"]
    /\ attempts = [d \in Deliveries |-> 0]
    /\ began = [r \in Routings |-> "none"]

conversationVars == <<convState, messages, pendings, present>>

MayRouteAlways(r) == TRUE

(* The check of the state, before any await. *)
MayRoute(r) == convState \notin {"none", "terminated"}

(* routeIntervention up to the query for the agents. *)
RouteIntervention(r) ==
    /\ stage[r] = "new"
    /\ stage' = [stage EXCEPT ![r] = IF MayRoute(r) THEN "querying" ELSE "refused"]
    /\ began' = [began EXCEPT ![r] = convState]
    /\ UNCHANGED <<conversationVars, targets, delivery, attempts>>

FirstOf(S) ==
    {a \in S : \E i \in DOMAIN Agents : Agents[i] = a /\ \A j \in 1..(i - 1) : Agents[j] \notin S}

AnAgentSpoke == \E i \in DOMAIN messages : messages[i] \in AgentSet

(* getTargetAgents: of the agents that were there when the query returned.   *)
TargetAgents(r, there) ==
    LET named == {TargetOf[r]} \cap there IN
    CASE RuleOf[r] = "all" -> there
      [] RuleOf[r] = "originator" ->
           IF AnAgentSpoke /\ named # {} THEN named ELSE FirstOf(there)
      [] RuleOf[r] = "specific" -> named
      [] RuleOf[r] = "capability" -> there \cap Capable

FindTargets(r) ==
    LET agents == TargetAgents(r, present) IN
    /\ stage[r] = "querying"
    /\ targets' = [targets EXCEPT ![r] = agents]
    /\ stage' = [stage EXCEPT ![r] = IF agents = {} THEN "refused" ELSE "sending"]
    /\ delivery' = [d \in Deliveries |->
         IF d[1] = r /\ d[2] \in agents THEN "sending" ELSE delivery[d]]
    /\ attempts' = [d \in Deliveries |->
         IF d[1] = r /\ d[2] \in agents THEN 1 ELSE attempts[d]]
    /\ UNCHANGED <<conversationVars, began>>

CanAttempt(d) == attempts[d] < RetryAttempts

SendSucceeds(d) ==
    /\ delivery[d] = "sending"
    /\ delivery' = [delivery EXCEPT ![d] = "sent"]
    /\ UNCHANGED <<conversationVars, stage, targets, attempts, began>>

SendFailsQuietly(d) ==
    /\ delivery[d] = "sending"
    /\ delivery' = [delivery EXCEPT ![d] = IF CanAttempt(d) THEN "waiting" ELSE "failed"]
    /\ UNCHANGED <<conversationVars, stage, targets, attempts, began>>

(* The last failure rejects Promise.all, and the routing returns while the   *)
(* sends to other agents, and their repetitions, go on.                      *)
SendFails(d) ==
    /\ delivery[d] = "sending"
    /\ delivery' = [delivery EXCEPT ![d] = IF CanAttempt(d) THEN "waiting" ELSE "failed"]
    /\ stage' = IF ~CanAttempt(d) /\ stage[d[1]] = "sending"
                THEN [stage EXCEPT ![d[1]] = "failed"] ELSE stage
    /\ UNCHANGED <<conversationVars, targets, attempts, began>>

(* The backoff elapsed. *)
SendAgain(d) ==
    /\ delivery[d] = "waiting"
    /\ delivery' = [delivery EXCEPT ![d] = "sending"]
    /\ attempts' = [attempts EXCEPT ![d] = @ + 1]
    /\ UNCHANGED <<conversationVars, stage, targets, began>>

AllSent(r) == \A a \in targets[r] : delivery[<<r, a>>] = "sent"

(* The rest of routeIntervention: addMessage, if the conversation is there.  *)
Routed(r) ==
    /\ stage[r] = "sending" /\ AllSent(r)
    /\ stage' = [stage EXCEPT ![r] = "routed"]
    /\ messages' = IF convState = "none" THEN messages ELSE Append(messages, r)
    /\ UNCHANGED <<convState, pendings, present, targets, delivery, attempts, began>>

Responses == Cardinality({i \in DOMAIN messages : messages[i] \in AgentSet})

(* handleAgentResponse: every request for clarification is resolved, whoever *)
(* was asked.                                                                *)
HandleAgentResponse(a) ==
    /\ Responses < MaxResponses
    /\ convState # "none"
    /\ messages' = Append(messages, a)
    /\ pendings' = {}
    /\ UNCHANGED <<convState, present, stage, targets, delivery, attempts, began>>

(* The manager, of which only this much matters here. *)
RequestClarification(r) ==
    /\ RuleOf[r] = "originator" /\ convState # "none"
    /\ pendings' = pendings \cup {r}
    /\ UNCHANGED <<convState, messages, present, stage, targets, delivery, attempts, began>>

ConversationBecomes(state) ==
    /\ convState # state
    /\ state = "terminated" => convState = "active"
    /\ convState' = state
    /\ messages' = IF state = "terminated" THEN messages ELSE <<>>
    /\ pendings' = IF state = "terminated" THEN pendings ELSE {}
    /\ UNCHANGED <<present, stage, targets, delivery, attempts, began>>

AgentLeaves(a) ==
    /\ a \in present
    /\ present' = present \ {a}
    /\ UNCHANGED <<convState, messages, pendings, stage, targets, delivery, attempts, began>>

RouterStep ==
    \/ \E r \in Routings : RouteIntervention(r) \/ FindTargets(r) \/ Routed(r)
    \/ \E d \in Deliveries : SendSucceeds(d) \/ SendFails(d) \/ SendAgain(d)

RouterNext ==
    \/ RouterStep
    \/ \E r \in Routings : RequestClarification(r)
    \/ \E a \in AgentSet : HandleAgentResponse(a) \/ AgentLeaves(a)
    \/ \E state \in {"none", "active", "terminated"} : ConversationBecomes(state)

RouterSpec == RouterInit /\ [][RouterNext]_routerVars

(* The callback for sending settles and the backoff's timer fires.           *)
RouterFairness ==
    /\ \A r \in Routings : WF_routerVars(FindTargets(r) \/ Routed(r))
    /\ \A d \in Deliveries : WF_routerVars(SendSucceeds(d) \/ SendFails(d) \/ SendAgain(d))

(* A routing is reported as a success, and its message is in the history,    *)
(* only when every agent it selected has it; the agents may have left, other *)
(* routings may have failed, and the conversation may be another one.        *)
HistoryWasDelivered ==
    /\ \A r \in Routings : stage[r] = "routed" =>
         targets[r] # {} /\ \A a \in targets[r] : delivery[<<r, a>>] = "sent"
    /\ \A i \in DOMAIN messages : messages[i] \in Routings => stage[messages[i]] = "routed"

(* A failure is reported only after one agent refused every attempt.         *)
FailureIsExhausted ==
    \A r \in Routings : stage[r] = "failed" =>
      \E a \in targets[r] : delivery[<<r, a>>] = "failed" /\ attempts[<<r, a>>] = RetryAttempts

(* A terminated conversation takes messages only from routings that were     *)
(* checked while it was active, and that were under way when it ended; one   *)
(* that begins afterwards adds nothing.                                      *)
LateMessagesWereUnderWay ==
    \A i \in DOMAIN messages : messages[i] \in Routings => began[messages[i]] = "active"

(* Only what was selected for a request is sent, once its agents were found, *)
(* and only a routing that was checked in time selects any.                  *)
OnlyTargetsAreSent ==
    /\ \A d \in Deliveries :
         /\ delivery[d] # "none" => d[2] \in targets[d[1]] /\ stage[d[1]] \notin {"new", "querying"}
         /\ delivery[d] = "waiting" => CanAttempt(d)
    /\ \A r \in Routings :
         /\ stage[r] \in {"sending", "routed", "failed"} => targets[r] # {}
         /\ stage[r] \in {"querying", "sending", "routed", "failed"} => began[r] = "active"

(* What the router reports is what was delivered, and the conversation has   *)
(* what it reported.                                                         *)
RouterInv ==
    /\ RouterTypeOK
    /\ HistoryWasDelivered
    /\ FailureIsExhausted
    /\ LateMessagesWereUnderWay
    /\ OnlyTargetsAreSent

(* Every routing is answered, whatever agents refuse and leave.              *)
EveryRoutingReturns ==
    \A r \in Routings : stage[r] # "new" ~> stage[r] \in {"routed", "refused", "failed"}
=============================================================================
