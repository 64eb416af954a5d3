------------------------------ MODULE A2AServer ------------------------------
(* The A2A JSON-RPC server, packages/p2p/src/jsonrpc/server.ts: a table of   *)
(* tasks by the id that message/send generates, handlers of the agent that   *)
(* are awaited while other requests are served, and event streams of single  *)
(* tasks.  The agent's handlers are outside: they answer with any task, with *)
(* an id of their own or one they know.                                      *)
EXTENDS Integers, FiniteSets

CONSTANTS
    GeneratedIds,  \* ids of uuidv4
    AgentIds,      \* ids the agent gives its tasks
    StreamClients,
    NoTaskSeen     \* a client without a stream

AllIds == GeneratedIds \cup AgentIds

ServedStates == {"submitted", "working", "completed", "canceled"}

ServedTasks == [id : AllIds, state : ServedStates]

ASSUME A2AServerAssumption ==
    /\ GeneratedIds \cap AgentIds = {}
    /\ NoTaskSeen \notin ServedTasks

VARIABLES
    serverTasks,  \* tasks: id -> task
    sends,        \* calls awaiting onMessageSend: [key, streams]
    streams,      \* task id -> clients with a callback
    lastSeen,     \* client -> the task last written to it
    missed,       \* history: clients whose task changed without a notification
    streaming     \* history: ids that message/stream answered with

a2aServerVars == <<serverTasks, sends, streams, lastSeen, missed, streaming>>

A2AServerTypeOK ==
    /\ DOMAIN serverTasks \subseteq AllIds
    /\ serverTasks \in [DOMAIN serverTasks -> ServedTasks]
    /\ sends \subseteq [key : GeneratedIds \cap DOMAIN serverTasks, streams : BOOLEAN]
    /\ streams \in [AllIds -> SUBSET StreamClients]
    /\ \A i \in AllIds : streams[i] # {} => i \in DOMAIN serverTasks
    /\ lastSeen \in [StreamClients -> ServedTasks \cup {NoTaskSeen}]
    /\ missed \subseteq StreamClients /\ streaming \subseteq AllIds

A2AServerInit ==
    /\ serverTasks = [k \in {} |-> NoTaskSeen] /\ sends = {}
    /\ streams = [i \in AllIds |-> {}]
    /\ lastSeen = [c \in StreamClients |-> NoTaskSeen]
    /\ missed = {} /\ streaming = {}

SetTask(k, task) ==
    serverTasks' = [x \in DOMAIN serverTasks \cup {k} |-> IF x = k THEN task ELSE serverTasks[x]]

(* A task is set without telling its streams. *)
SetQuietly(k, task) ==
    /\ SetTask(k, task)
    /\ missed' = IF k \in DOMAIN serverTasks /\ serverTasks[k] # task
                 THEN missed \cup streams[k] ELSE missed

(* message/send and message/stream up to the await of onMessageSend. *)
HandleMessageSend(k, withStream) ==
    /\ k \notin DOMAIN serverTasks
    /\ SetTask(k, [id |-> k, state |-> "submitted"])
    /\ sends' = sends \cup {[key |-> k, streams |-> withStream]}
    /\ UNCHANGED <<streams, lastSeen, missed, streaming>>

(* onMessageSend resolves, with null or with a task that is stored under the *)
(* generated id and returned with its own.                                   *)
MessageAnswered(s, task) ==
    /\ s \in sends /\ sends' = sends \ {s}
    /\ IF task = NoTaskSeen THEN UNCHANGED <<serverTasks, missed>>
       ELSE SetQuietly(s.key, task)
    /\ streaming' = IF ~s.streams THEN streaming
                    ELSE streaming \cup {IF task = NoTaskSeen THEN s.key ELSE task.id}
    /\ UNCHANGED <<streams, lastSeen>>

(* onMessageSend rejects: the task stays as it is. *)
MessageRejected(s) ==
    /\ s \in sends /\ sends' = sends \ {s}
    /\ UNCHANGED <<serverTasks, streams, lastSeen, missed, streaming>>

SubscribersOfNone(task) == {}

SubscribersOf(task) == streams[task.id]

(* updateTask, which a stream handler calls through its callback and the     *)
(* agent at any time.                                                        *)
UpdateTask(task) ==
    /\ SetTask(task.id, task)
    /\ lastSeen' = [c \in StreamClients |->
                      IF c \in SubscribersOf(task) THEN task ELSE lastSeen[c]]
    /\ missed' = missed \ streams[task.id]
    /\ UNCHANGED <<sends, streams, streaming>>

Canceled(k) == [serverTasks[k] EXCEPT !.state = "canceled"]

(* task/cancel marks the task whatever onTaskCancel answers. *)
HandleTaskCancel(k) ==
    /\ k \in DOMAIN serverTasks
    /\ SetQuietly(k, Canceled(k))
    /\ UNCHANGED <<sends, streams, lastSeen, streaming>>

HandleSSE(c, i) ==
    /\ i \in DOMAIN serverTasks /\ lastSeen[c] = NoTaskSeen
    /\ lastSeen' = [lastSeen EXCEPT ![c] = serverTasks[i]]
    /\ streams' = [streams EXCEPT ![i] = @ \cup {c}]
    /\ UNCHANGED <<serverTasks, sends, missed, streaming>>

StreamCloses(c) ==
    /\ lastSeen[c] # NoTaskSeen
    /\ lastSeen' = [lastSeen EXCEPT ![c] = NoTaskSeen]
    /\ streams' = [i \in AllIds |-> streams[i] \ {c}]
    /\ missed' = missed \ {c}
    /\ UNCHANGED <<serverTasks, sends, streaming>>

A2AServerNext ==
    \/ \E k \in GeneratedIds, b \in BOOLEAN : HandleMessageSend(k, b)
    \/ \E s \in sends : MessageRejected(s)
                        \/ (\E task \in ServedTasks \cup {NoTaskSeen} : MessageAnswered(s, task))
    \/ \E task \in ServedTasks : UpdateTask(task)
    \/ \E k \in AllIds : HandleTaskCancel(k)
    \/ \E c \in StreamClients : StreamCloses(c) \/ (\E i \in AllIds : HandleSSE(c, i))

A2AServerSpec == A2AServerInit /\ [][A2AServerNext]_a2aServerVars

-----------------------------------------------------------------------------
(* A client reads the stream of one task, and has been written something by  *)
(* it: what one stream writes is never taken for what another owes.          *)
OneStreamEach ==
    \A c \in StreamClients : \A i, j \in AllIds :
      c \in streams[i] => lastSeen[c] # NoTaskSeen /\ (c \in streams[j] => i = j)

(* What a stream wrote last is the task as it is stored, over any order of   *)
(* requests, answers and updates, unless the answer of onMessageSend or a    *)
(* cancellation changed the task since: neither notifies.                    *)
StreamsAreCurrent ==
    \A i \in AllIds : \A c \in streams[i] \ missed : lastSeen[c] = serverTasks[i]

(* The tasks and the streams of them agree.                                  *)
A2AServerInv ==
    /\ A2AServerTypeOK
    /\ OneStreamEach
    /\ StreamsAreCurrent

(* server.ts:156: "Streaming is handled via SSE, this returns a task ID".  So *)
(* there is a stream for the id that message/stream answered with.           *)
StreamFindsTask == streaming \subseteq DOMAIN serverTasks
=============================================================================
