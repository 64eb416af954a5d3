-------------------------- MODULE InterventionServer --------------------------
(* The integration server, packages/p2p/src/integration/a2a-integration.ts:  *)
(* the JSON-RPC methods of jsonrpc-methods.ts over the manager of module     *)
(* Intervention, for one conversation, and the manager's events on the       *)
(* streams of module EventStream.  Each event of the manager is one event of *)
(* the stream, and a change of state is two.  The manager calls its          *)
(* subscriber before it goes on, so an operation and its events are one step.*)
EXTENDS Intervention, EventStream

CONSTANTS
    Conversation,   \* its id
    MaxJoined       \* bound: sessions here, at most MaxSessions

VARIABLE
    answer          \* the last answer: code, success, previousState, newState

serverVars == <<vars, streamVars, answer>>

NoAnswer == [code |-> "none", success |-> FALSE, before |-> "-", after |-> "-"]

ServerTypeOK ==
    /\ answer.code \in {"none", "-32700", "-32601", "-32602", "404", "unconfigured", "result"}
    /\ answer.success \in BOOLEAN
    /\ {answer.before, answer.after} \subseteq
         {"-", "unknown", "active", "paused", "redirected", "terminated"}

ServerInit == answer = NoAnswer

StateName == IF state = "none" THEN "unknown" ELSE state

ChangedTo(action) ==
    CASE action = "pause" -> "paused"
      [] action = "resume" -> "active"
      [] action = "terminate" -> "terminated"
      [] action = "redirect" -> "redirected"

-----------------------------------------------------------------------------
(* The JSON-RPC methods of the intervention server, packages/p2p/src/        *)
(* integration/jsonrpc-methods.ts: which fields each method requires, and    *)
(* what is answered.  A field of a request is "good", "absent" or "bad": of  *)
(* another type, or a role or an action that does not exist.                 *)
ActionMethods == {"send", "clarification", "approve", "reject"}

StateMethods == {"pause", "resume", "terminate"}

ConversationMethods ==
    {"session/list", "conversation/get", "conversation/end", "pending", "history", "state"}

InterventionMethods ==
    ActionMethods \cup StateMethods \cup ConversationMethods \cup
    {"join", "leave", "session/get", "redirect", "delegate",
     "conversation/create", "conversation/list"}

Fields ==
    {"conversationId", "participantId", "sessionId", "role", "customPermissions",
     "action", "content", "targetAgentId", "reason", "direction", "delegateTo"}

RequiredOfJoin == {"conversationId", "participantId"}

RequiredOfLeave == {"conversationId", "sessionId"}

(* The action, also for the methods whose name says it. *)
RequiredOfSend == {"conversationId", "participantId", "action"}

RequiredOfStateChange == {"conversationId", "participantId"}

RequiredOfRedirect == RequiredOfStateChange \cup {"direction"}

RequiredOfDelegate == {"conversationId", "participantId", "delegateTo"}

(* What assertString and the like demand of a method's params. *)
Required(method) ==
    CASE method = "join" -> RequiredOfJoin
      [] method = "leave" -> RequiredOfLeave
      [] method = "session/get" -> {"sessionId"}
      [] method \in ActionMethods -> RequiredOfSend
      [] method \in StateMethods -> RequiredOfStateChange
      [] method = "redirect" -> RequiredOfRedirect
      [] method = "delegate" -> RequiredOfDelegate
      [] method \in ConversationMethods \cup {"conversation/create"} -> {"conversationId"}
      [] method = "conversation/list" -> {}

(* What assertOptionalString and the like accept when it is absent; of other *)
(* types than these, a field is replaced by its default.                     *)
Optional(method) ==
    CASE method = "join" -> {"role", "customPermissions"}
      [] method \in ActionMethods -> {"content", "targetAgentId"}
      [] method \in StateMethods \cup {"redirect"} -> {"reason"}
      [] method = "delegate" -> {"content"}
      [] method = "conversation/create" -> {"role"}
      [] OTHER -> {}

NoParams == [f \in {} |-> "absent"]

(* params is a function on Fields, or NoParams when it is no object. *)
Valid(method, params) ==
    \/ method = "conversation/list"
    \/ /\ params # NoParams
       /\ \A f \in Required(method) : params[f] = "good"
       /\ \A f \in Optional(method) : params[f] # "bad"

(* The methods the integration has set no handler for. *)
Unconfigured == {"session/get", "clarification", "approve", "reject", "delegate"}

(* processRequest and dispatchMethod, of a body that was parsed: the code of *)
(* the error, "unconfigured", or "call" when a handler is called.            *)
Dispatch(method, params) ==
    CASE ~Valid(method, params) -> "-32602"
      [] Valid(method, params) /\ method \in Unconfigured -> "unconfigured"
      [] OTHER -> "call"

(* handleInterventionJSONRPC: a body that is no JSON, or of which no method   *)
(* can be read, is a parse error; any other method that is none of these is  *)
(* not found.                                                                *)
HandleInterventionJSONRPC(method, params) ==
    CASE method = "unreadable" -> "-32700"
      [] method = "other" -> "-32601"
      [] OTHER -> Dispatch(method, params)

-----------------------------------------------------------------------------
(* The events of the manager                                               *)

AnnounceNothing(n) == UNCHANGED streamVars

(* setupEventForwarding: a change of state is announced twice. *)
Announce(n) == BroadcastState(Conversation, n, state')

AnnounceState == Announce(2)

Tell(n) == BroadcastToConversation(Conversation, n, view)

-----------------------------------------------------------------------------
(* The handlers: what is answered, and what it does                        *)

Answer(code, success, before, after) ==
    answer' = [code |-> code, success |-> success, before |-> before, after |-> after]

Result(success) == Answer("result", success, "-", "-")

(* onPause, onResume, onTerminate and onRedirect: the state before is read,  *)
(* the action applied in the same turn, and the answer tells both.           *)
ChangeState(action) ==
    \/ \E h \in Humans :
         /\ Request(h, action)
         /\ IF applied' = applied
            THEN UNCHANGED streamVars /\ Answer("result", FALSE, StateName, StateName)
            ELSE AnnounceState /\ Answer("result", TRUE, StateName, ChangedTo(action))
    \/ /\ \E h \in Humans : ~\E s \in sessions : IsSessionOf(s, h) /\ Allowed(s, action)
       /\ Answer("result", FALSE, StateName, StateName)
       /\ UNCHANGED <<vars, streamVars>>

OnSend ==
    \/ \E h \in Humans : Request(h, "send_message")
         /\ UNCHANGED streamVars /\ Result(TRUE)
    \/ /\ \E h \in Humans : ~\E s \in sessions : IsSessionOf(s, h) /\ Allowed(s, "send_message")
       /\ UNCHANGED <<vars, streamVars>> /\ Result(FALSE)

OnJoin ==
    \/ \E h \in Humans, r \in Roles :
         joined < MaxJoined /\ JoinConversation(h, r) /\ Tell(1) /\ Result(TRUE)
    \/ /\ ~Exists \/ Cardinality(sessions) >= MaxParticipants
       /\ UNCHANGED <<vars, streamVars>> /\ Result(FALSE)

OnLeave ==
    \/ \E s \in SessionIds :
         /\ LeaveConversation(s)
         /\ IF pausedBy = s THEN Announce(3) ELSE Tell(1)
         /\ Result(TRUE)
    \/ \E s \in SessionIds : s \notin sessions
         /\ UNCHANGED <<vars, streamVars>> /\ Result(FALSE)

OnCreateConversation ==
    CreateConversation /\ AnnounceState /\ Result(TRUE)

(* The sessions are cleared after the event. *)
OnEndConversation ==
    \/ EndConversation /\ AnnounceState /\ Result(TRUE)
    \/ ~Exists /\ UNCHANGED <<vars, streamVars>> /\ Result(FALSE)

Reads == {"session/list", "conversation/get", "conversation/list", "pending", "history", "state"}

OnRead(method) == UNCHANGED <<vars, streamVars>> /\ Result(TRUE)

Call(method) ==
    \/ method \in StateMethods \cup {"redirect"} /\ ChangeState(method)
    \/ method = "send" /\ OnSend
    \/ method = "join" /\ OnJoin
    \/ method = "leave" /\ OnLeave
    \/ method = "conversation/create" /\ OnCreateConversation
    \/ method = "conversation/end" /\ OnEndConversation
    \/ method \in Reads /\ OnRead(method)

(* Requests: complete ones, those without params, and those that lack one    *)
(* field, or have one of the wrong type.                                     *)
Params ==
    {NoParams, [f \in Fields |-> "good"]} \cup
    {[f \in Fields |-> IF f = g THEN k ELSE "good"] : g \in Fields, k \in {"absent", "bad"}}

Codes ==
    [method \in InterventionMethods \cup {"other", "unreadable"} |->
       {HandleInterventionJSONRPC(method, p) : p \in Params}]

(* handleRequest of a POST: one whose answer is an error does nothing else.  *)
PostRequest(method) ==
    \E code \in Codes[method] :
      IF code = "call" THEN Call(method)
      ELSE Answer(code, FALSE, "-", "-") /\ UNCHANGED <<vars, streamVars>>

(* handleSSEConnection: 404 without a conversation. *)
HandleSSEConnection(s, i) ==
    \/ Exists /\ HandleConnection(s, i, state) /\ UNCHANGED <<vars, answer>>
    \/ ~Exists /\ Answer("404", FALSE, "-", "-") /\ UNCHANGED <<vars, streamVars>>

(* What the handlers read of the params.                                     *)
UsedBy(method) ==
    CASE method = "join" -> {"conversationId", "participantId"}
      [] method = "leave" -> {"conversationId", "sessionId"}
      [] method = "send" -> {"conversationId", "participantId", "action"}
      [] method \in StateMethods -> {"conversationId", "participantId"}
      [] method = "redirect" -> {"conversationId", "participantId", "direction"}
      [] method = "conversation/list" -> {}
      [] OTHER -> {"conversationId"}

-----------------------------------------------------------------------------
(* What else happens                                                       *)

(* The end of requestIntervention, with its event. *)
Applied ==
    \/ \E s \in SessionIds : Counted(s) /\ Tell(1)
    \/ \E s \in SessionIds : Uncounted(s) /\ Tell(1)

(* Nothing tells the streams of these. *)
Unannounced ==
    /\ RedirectTimer \/ DeleteConversation \/ \E s \in SessionIds : Cool(s)
    /\ UNCHANGED streamVars

(* processHook of a hook that wants a response, then handleAgentMessage: the *)
(* hook is told to everybody, and to each participant's own clients.         *)
HandleAgentMessage ==
    LET clientsOfSessions ==
          {pair \in sessions \X ClientsForConversation(Conversation) : who[pair[1]] = pair[2][2]}
    IN
    /\ \/ Tell(1)
       \/ Exists /\ Tell(2 + Cardinality(clientsOfSessions))
    /\ UNCHANGED vars

ServerNext ==
    \/ \E method \in DOMAIN Codes : PostRequest(method)
    \/ \E s \in Streams, i \in ClientIds : HandleSSEConnection(s, i)
    \/ /\ UNCHANGED answer
       /\ \/ Applied \/ Unannounced \/ HandleAgentMessage
          \/ \E s \in Streams : (Close(s) \/ RefuseConnection(s)) /\ UNCHANGED vars
          \/ \E i \in ClientIds : Disconnect(i) /\ UNCHANGED vars
          \/ DestroyStreams /\ UNCHANGED vars

ServerSpec == Init /\ StreamInit /\ ServerInit /\ [][ServerNext]_serverVars

(* A client that is served was told the state of the conversation, whoever   *)
(* changed it and whenever the client connected: except that the end of a    *)
(* redirection and a deletion are told to nobody, so that a client may think *)
(* it redirected that is active, and anything of one that is gone.           *)
ViewIsCurrent ==
    \A i \in ClientsForConversation(Conversation) :
      \/ view[clients[i]] = state
      \/ view[clients[i]] = "redirected" /\ state = "active"
      \/ state = "none"

Misjudged(method, params) ==
    LET code == HandleInterventionJSONRPC(method, params)
        complete == params # NoParams /\ \A f \in UsedBy(method) : params[f] = "good"
    IN
    \/ code = "call" /\ ~complete /\ UsedBy(method) # {}
    \/ code = "-32602" /\ params = [f \in Fields |-> "good"]

MisjudgedRequests ==
    {call \in InterventionMethods \X Params : Misjudged(call[1], call[2])}

(* No handler is called without a field it uses or with one of the wrong     *)
(* type, and no request that is complete is refused as invalid: what the     *)
(* parsers of one file demand is what the handlers of the other take.        *)
CallsAreComplete == answer.code \in {"result", "-32602"} => MisjudgedRequests = {}

(* Streams, conversation and what the clients were told agree.               *)
ServerInv ==
    /\ StreamInv
    /\ ServerTypeOK
    /\ ViewIsCurrent
    /\ CallsAreComplete

(* An answer that reports a change reports the one that was made, from the   *)
(* state it was made from, and the clients that are still there were told of *)
(* the same one; an answer that reports none, or an error, changed nothing.  *)
AnswerIsTrue ==
    answer' # answer =>
      /\ answer'.after # "-" => answer'.before = StateName /\ answer'.after = StateName'
      /\ answer'.success /\ answer'.after # "-" =>
           \A i \in DOMAIN clients' : i[1] = Conversation => view'[clients'[i]] = answer'.after
      /\ ~answer'.success => UNCHANGED <<conversation, streamVars>>

(* Every answer is true, and the events written on the way have growing ids. *)
AnswersAreTrue == [][IdsGrow /\ AnswerIsTrue]_serverVars
===============================================================================
