----------------------------- MODULE TaskManager -----------------------------
(* The lifecycle of tasks, packages/task/src/manager.ts with its             *)
(* state-machine.ts: tasks by id and by context, a state machine for each,   *)
(* and listeners that are told of each change synchronously, so that a       *)
(* listener may call the manager while others have still to be told.         *)
(* A task object outlives its deletion in the events that carry it.          *)
EXTENDS Integers, Sequences, FiniteSets, Functions

CONSTANTS
    TaskIds, Contexts, Listeners,
    MaxObjects,   \* bound: tasks created
    MaxNesting    \* bound: calls of emit inside one another

ASSUME ManagerAssumption == MaxObjects \in Nat /\ MaxNesting \in Nat \ {0}

VARIABLES
    objects,      \* task objects: [id, context, state, worked], worked a history
    table,        \* tasks: id -> object
    machines,     \* stateMachines: id -> state
    contextIndex, \* context -> ids
    subscribers,  \* listeners in the order of their subscription
    emitting,     \* calls of emit under way: [type, object, told, begun]
    owed          \* history: object -> listeners that have to hear of its end

managerVars == <<objects, table, machines, contextIndex, subscribers, emitting, owed>>

TaskStates == {"submitted", "working", "input-required", "auth-required",
               "completed", "failed", "canceled", "rejected"}

TERMINAL_STATES == {"completed", "failed", "canceled", "rejected"}

VALID_TRANSITIONS ==
    [s \in TaskStates |->
       CASE s = "submitted" -> {"working", "canceled", "rejected", "auth-required", "input-required"}
         [] s = "working" -> {"completed", "failed", "canceled", "input-required", "auth-required"}
         [] s \in {"input-required", "auth-required"} -> {"working", "canceled", "submitted"}
         [] s \in TERMINAL_STATES -> {}]

EventTypes == {"created", "updated", "completed", "failed", "canceled"}

TaskObjects == [id : TaskIds, context : Contexts, state : TaskStates, worked : BOOLEAN]

ManagerTypeOK ==
    /\ objects \in Seq(TaskObjects) /\ Len(objects) <= MaxObjects
    /\ DOMAIN table \subseteq TaskIds /\ table \in [DOMAIN table -> DOMAIN objects]
    /\ machines \in [DOMAIN table -> TaskStates]
    /\ DOMAIN contextIndex \subseteq Contexts
    /\ contextIndex \in [DOMAIN contextIndex -> SUBSET TaskIds]
    /\ subscribers \in Seq(Listeners) /\ IsInjective(subscribers)
    /\ emitting \in Seq([type : EventTypes, object : DOMAIN objects,
                          told : SUBSET Listeners, begun : BOOLEAN])
    /\ Len(emitting) <= MaxNesting
    /\ owed \in [1..MaxObjects -> SUBSET Listeners]

ManagerInit ==
    /\ objects = <<>> /\ subscribers = <<>> /\ emitting = <<>>
    /\ table = [t \in {} |-> 0] /\ machines = [t \in {} |-> ""]
    /\ contextIndex = [c \in {} |-> {}]
    /\ owed = [o \in 1..MaxObjects |-> {}]

With(f, x, v) == [y \in DOMAIN f \cup {x} |-> IF y = x THEN v ELSE f[y]]

DropFrom(f, x) == [y \in DOMAIN f \ {x} |-> f[y]]

CanTransitionTo(from, to) == from \notin TERMINAL_STATES /\ to \in VALID_TRANSITIONS[from]

(* The call of emit that runs. *)
Innermost == emitting[Len(emitting)]

(* A call comes from outside or from the listener that is being told. *)
CanCall ==
    /\ Len(emitting) < MaxNesting
    /\ emitting # <<>> => Innermost.begun

Emit(type, o) ==
    emitting' = Append(emitting, [type |-> type, object |-> o, told |-> {}, begun |-> FALSE])

GetEventType(state) ==
    IF state \in {"completed", "failed", "canceled"} THEN state ELSE "updated"

Create(t, c) ==
    LET o == Len(objects) + 1 IN
    /\ CanCall /\ t \notin DOMAIN table /\ o <= MaxObjects
    /\ objects' = Append(objects, [id |-> t, context |-> c, state |-> "submitted", worked |-> FALSE])
    /\ table' = With(table, t, o)
    /\ machines' = With(machines, t, "submitted")
    /\ contextIndex' = With(contextIndex, c,
         IF c \in DOMAIN contextIndex THEN contextIndex[c] \cup {t} ELSE {t})
    /\ Emit("created", o)
    /\ UNCHANGED <<subscribers, owed>>

(* update with a state, cancel among them. *)
UpdateState(t, state) ==
    LET o == table[t] IN
    /\ CanCall /\ t \in DOMAIN table /\ CanTransitionTo(machines[t], state)
    /\ machines' = [machines EXCEPT ![t] = state]
    /\ objects' = [objects EXCEPT ![o].state = state, ![o].worked = @ \/ state = "working"]
    /\ Emit(GetEventType(state), o)
    /\ owed' = IF GetEventType(state) = "updated" THEN owed
               ELSE [owed EXCEPT ![o] = Range(subscribers)]
    /\ UNCHANGED <<table, contextIndex, subscribers>>

(* update with a message, progress or an artifact, in any state. *)
UpdateContent(t) ==
    /\ CanCall /\ t \in DOMAIN table
    /\ Emit(GetEventType(objects[table[t]].state), table[t])
    /\ UNCHANGED <<objects, table, machines, contextIndex, subscribers, owed>>

IndexWithout(c, t) ==
    IF contextIndex[c] = {t} THEN DropFrom(contextIndex, c)
    ELSE [contextIndex EXCEPT ![c] = @ \ {t}]

Delete(t) ==
    /\ CanCall /\ t \in DOMAIN table
    /\ table' = DropFrom(table, t)
    /\ machines' = DropFrom(machines, t)
    /\ contextIndex' = IndexWithout(objects[table[t]].context, t)
    /\ UNCHANGED <<objects, subscribers, emitting, owed>>

Subscribe(l) ==
    /\ CanCall /\ l \notin Range(subscribers)
    /\ subscribers' = Append(subscribers, l)
    /\ UNCHANGED <<objects, table, machines, contextIndex, emitting, owed>>

(* The set of listeners without its i-th, in the order of insertion. *)
SubscribersWithout(i) ==
    [j \in 1..(Len(subscribers) - 1) |-> subscribers[IF j < i THEN j ELSE j + 1]]

(* A listener that subscribes again is visited again. *)
Unsubscribe(l) ==
    /\ CanCall
    /\ \E i \in DOMAIN subscribers :
         subscribers[i] = l /\ subscribers' = SubscribersWithout(i)
    /\ emitting' = [i \in DOMAIN emitting |-> [emitting[i] EXCEPT !.told = @ \ {l}]]
    /\ owed' = [o \in DOMAIN owed |-> owed[o] \ {l}]
    /\ UNCHANGED <<objects, table, machines, contextIndex>>

LeftAtMostOne(frame) ==
    {i \in DOMAIN subscribers : ~frame.begun /\ subscribers[i] \notin frame.told}

(* The places of the listeners that a call of emit has still to tell. *)
Left(frame) == {i \in DOMAIN subscribers : subscribers[i] \notin frame.told}

(* emit tells the next listener, which may throw. *)
TellOne(l) ==
    /\ emitting' = [emitting EXCEPT ![Len(emitting)].told = @ \cup {l},
                                     ![Len(emitting)].begun = TRUE]
    /\ owed' = IF Innermost.type = objects[Innermost.object].state
               THEN [owed EXCEPT ![Innermost.object] = @ \ {l}] ELSE owed
    /\ UNCHANGED <<objects, table, machines, contextIndex, subscribers>>

Tell ==
    /\ emitting # <<>>
    /\ \E i \in Left(Innermost) :
         /\ \A j \in Left(Innermost) : i <= j
         /\ TellOne(subscribers[i])

EmitReturns ==
    /\ emitting # <<>> /\ Left(Innermost) = {}
    /\ emitting' = SubSeq(emitting, 1, Len(emitting) - 1)
    /\ UNCHANGED <<objects, table, machines, contextIndex, subscribers, owed>>

ManagerBoundReached == Len(objects) = MaxObjects /\ table = <<>> /\ UNCHANGED managerVars

ManagerNext ==
    \/ \E t \in TaskIds : UpdateContent(t) \/ Delete(t)
                          \/ (\E c \in Contexts : Create(t, c))
                          \/ (\E s \in TaskStates : UpdateState(t, s))
    \/ \E l \in Listeners : Subscribe(l) \/ Unsubscribe(l)
    \/ Tell \/ EmitReturns \/ ManagerBoundReached

ManagerSpec == ManagerInit /\ [][ManagerNext]_managerVars

-----------------------------------------------------------------------------
(* The index of contexts and the table of tasks agree, over any creations    *)
(* and deletions, also those that listeners make: a context lists the tasks  *)
(* that exist in it, and no context is listed that has none.                 *)
IndexAgrees ==
    /\ \A t \in DOMAIN table : LET c == objects[table[t]].context IN
         c \in DOMAIN contextIndex /\ t \in contextIndex[c]
    /\ \A c \in DOMAIN contextIndex :
         /\ contextIndex[c] # {}
         /\ \A t \in contextIndex[c] : t \in DOMAIN table /\ objects[table[t]].context = c

(* The status of a task is the state of its machine, which is its own: no    *)
(* two ids have one object.  A task is completed or has failed only after it *)
(* was working.                                                              *)
StatusFollowsMachine ==
    /\ \A t \in DOMAIN table :
         objects[table[t]].id = t /\ objects[table[t]].state = machines[t]
    /\ \A o \in DOMAIN objects :
         objects[o].state \in {"working", "completed", "failed"} => objects[o].worked

(* An event that says how a task ended stays true while it is told, though   *)
(* listeners change tasks meanwhile.                                         *)
EndEventsAreTrue ==
    \A i \in DOMAIN emitting : emitting[i].type \in {"completed", "failed", "canceled"} =>
      objects[emitting[i].object].state = emitting[i].type

(* Whoever has still to hear how a task ended is subscribed, and some call of *)
(* emit with that event has still to tell it.                                *)
OwedIsUnderWay ==
    \A o \in DOMAIN owed : \A l \in owed[o] :
      /\ o \in DOMAIN objects /\ l \in Range(subscribers)
      /\ \E i \in DOMAIN emitting :
           /\ emitting[i].object = o /\ emitting[i].type = objects[o].state
           /\ l \notin emitting[i].told

(* Every listener that was there when a task ended hears how, whatever other *)
(* listeners do first, unless it unsubscribes.                               *)
EndIsTold == emitting = <<>> => \A o \in DOMAIN objects : owed[o] = {}

(* The tables, the machines and the events agree, whatever listeners do.     *)
ManagerInv ==
    /\ ManagerTypeOK
    /\ IndexAgrees
    /\ StatusFollowsMachine
    /\ EndEventsAreTrue
    /\ OwedIsUnderWay
    /\ EndIsTold
=============================================================================
