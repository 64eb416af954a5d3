--------------------------- MODULE InterventionHook ---------------------------
(* The React hook of the web interface that keeps a stream of events open,   *)
(* apps/web/src/components/intervention/hooks/useIntervention.ts.  Updates   *)
(* of its state are applied when the component renders; the callback connect *)
(* is made anew whenever isConnecting has changed, and the effect that       *)
(* connects runs again, after its cleanup disconnected.  Callbacks that were *)
(* made earlier keep the isConnecting of their render.                       *)
EXTENDS Naturals, FiniteSets

CONSTANTS
    Streams,                 \* EventSources that may be open at a time, a bound
    Timers,                  \* reconnection timers that may be set, a bound
    MaxReconnectAttempts,    \* maxReconnectAttempts
    UserCalls                \* the calls of the hook's result that its user makes

ASSUME HookAssumption ==
    /\ MaxReconnectAttempts \in Nat /\ IsFiniteSet(Timers)
    /\ UserCalls \subseteq {"connect", "disconnect", "reconnect"}

VARIABLES
    mounted,
    latest,        \* [isConnected, isConnecting]: the state with all its updates
    shown,         \* the state of the last render
    effectDue,     \* the effect has to run again
    stream,        \* EventSource -> "none", "connecting" or "open"
    current,       \* eventSourceRef.current, {} when null
    retryTimers,   \* reconnection timers that are set
    timerRef,      \* reconnectTimeoutRef.current, {} when null
    reconnects,    \* reconnectAttemptsRef.current
    orphaned       \* whether a timer lost its reference while it was set

hookVars == <<mounted, latest, shown, effectDue, stream, current, retryTimers, timerRef,
              reconnects, orphaned>>

HookStates == [isConnected : BOOLEAN, isConnecting : BOOLEAN]

Idle == [isConnected |-> FALSE, isConnecting |-> FALSE]

HookTypeOK ==
    /\ mounted \in BOOLEAN /\ effectDue \in BOOLEAN /\ orphaned \in BOOLEAN
    /\ latest \in HookStates /\ shown \in HookStates
    /\ ~(latest.isConnected /\ latest.isConnecting)
    /\ stream \in [Streams -> {"none", "connecting", "open"}]
    /\ current \subseteq Streams /\ \A e, f \in current : e = f
    /\ retryTimers \subseteq Timers /\ timerRef \subseteq Timers
    /\ reconnects \in Nat

(* The first render; its effect is due. *)
HookInit ==
    /\ mounted = TRUE /\ latest = Idle /\ shown = Idle /\ effectDue = TRUE
    /\ stream = [e \in Streams |-> "none"] /\ current = {}
    /\ retryTimers = {} /\ timerRef = {} /\ reconnects = 0 /\ orphaned = FALSE

-----------------------------------------------------------------------------
(* The operations, on what React has not rendered yet: the latest state.   *)

Now == [latest |-> latest, stream |-> stream, current |-> current,
        retryTimers |-> retryTimers, timerRef |-> timerRef]

Becomes(h) ==
    /\ latest' = h.latest /\ stream' = h.stream /\ current' = h.current
    /\ retryTimers' = h.retryTimers /\ timerRef' = h.timerRef

Free(h) == {e \in Streams : h.stream[e] = "none"}

(* connect, as made in a render of which isConnecting was wasConnecting.     *)
WithStream(h, wasConnecting) ==
    IF h.current # {} \/ wasConnecting THEN h
    ELSE LET e == CHOOSE e \in Free(h) : TRUE IN
         [h EXCEPT !.latest.isConnecting = TRUE, !.stream[e] = "connecting", !.current = {e}]

WithoutStreamKeepingTimer(h) ==
    [h EXCEPT !.latest = Idle, !.current = {},
              !.stream = [e \in Streams |-> IF e \in h.current THEN "none" ELSE h.stream[e]]]

(* disconnect *)
WithoutStream(h) ==
    [latest |-> Idle, current |-> {}, timerRef |-> {},
     stream |-> [e \in Streams |-> IF e \in h.current THEN "none" ELSE h.stream[e]],
     retryTimers |-> h.retryTimers \ h.timerRef]

WithStreamAnew(h, wasConnecting) == WithStream(WithoutStream(h), wasConnecting)

-----------------------------------------------------------------------------
(* React                                                                   *)

(* connect depends on isConnecting, and the effect on connect. *)
Render ==
    /\ mounted /\ ~effectDue /\ shown # latest
    /\ shown' = latest
    /\ effectDue' = (latest.isConnecting # shown.isConnecting)
    /\ UNCHANGED <<mounted, latest, stream, current, retryTimers, timerRef, reconnects, orphaned>>

(* The cleanup of the last effect, and the new one. *)
RunEffect ==
    /\ mounted /\ effectDue /\ Free(WithoutStream(Now)) # {}
    /\ effectDue' = FALSE
    /\ Becomes(WithStreamAnew(Now, shown.isConnecting))
    /\ UNCHANGED <<mounted, shown, reconnects, orphaned>>

Unmount ==
    /\ mounted /\ mounted' = FALSE /\ effectDue' = FALSE
    /\ Becomes(WithoutStream(Now))
    /\ UNCHANGED <<shown, reconnects, orphaned>>

(* What the user of the hook calls, as of the last render. *)
Call(call) ==
    /\ mounted /\ call \in UserCalls /\ Free(Now) # {}
    /\ Becomes(CASE call = "connect" -> WithStream(Now, shown.isConnecting)
                 [] call = "disconnect" -> WithoutStream(Now)
                 [] call = "reconnect" -> WithStreamAnew(Now, shown.isConnecting))
    /\ reconnects' = IF call = "reconnect" THEN 0 ELSE reconnects
    /\ UNCHANGED <<mounted, shown, effectDue, orphaned>>

-----------------------------------------------------------------------------
(* The EventSource                                                         *)

OnOpen(e) ==
    /\ stream[e] = "connecting"
    /\ stream' = [stream EXCEPT ![e] = "open"]
    /\ latest' = [isConnected |-> TRUE, isConnecting |-> FALSE]
    /\ reconnects' = 0
    /\ UNCHANGED <<mounted, shown, effectDue, current, retryTimers, timerRef, orphaned>>

MayRetry == reconnects < MaxReconnectAttempts

(* onerror: the stream is closed, and a timer set unless there were too many *)
(* attempts.  A timer that is already set keeps running.                     *)
OnError(e) ==
    /\ stream[e] # "none"
    /\ stream' = [stream EXCEPT ![e] = "none"]
    /\ current' = {}
    /\ latest' = Idle
    /\ IF MayRetry
       THEN \E t \in Timers \ retryTimers :
              /\ retryTimers' = retryTimers \cup {t} /\ timerRef' = {t}
              /\ orphaned' = (orphaned \/ retryTimers # {})
       ELSE UNCHANGED <<retryTimers, timerRef, orphaned>>
    /\ UNCHANGED <<mounted, shown, effectDue, reconnects>>

(* The timer calls the connect it was made with, which was not connecting.   *)
(* The reference to the timer stays.                                         *)
TimerFires(t) ==
    /\ t \in retryTimers /\ Free(Now) # {}
    /\ reconnects' = reconnects + 1
    /\ Becomes(WithStream([Now EXCEPT !.retryTimers = @ \ {t}], FALSE))
    /\ UNCHANGED <<mounted, shown, effectDue, orphaned>>

HookNext ==
    \/ Render \/ RunEffect \/ Unmount
    \/ \E call \in UserCalls : Call(call)
    \/ \E e \in Streams : OnOpen(e) \/ OnError(e)
    \/ \E t \in Timers : TimerFires(t)

(* React renders and runs effects, timers fire, and a stream that stays      *)
(* opens or fails.                                                           *)
HookFairness ==
    /\ WF_hookVars(Render) /\ WF_hookVars(RunEffect)
    /\ \A e \in Streams : WF_hookVars(OnOpen(e))
    /\ \A t \in Timers : WF_hookVars(TimerFires(t))

HookSpec == HookInit /\ [][HookNext]_hookVars /\ HookFairness

-----------------------------------------------------------------------------
(* There is one stream at most, the one of the reference, and isConnected    *)
(* says that it is open: cleanups, timers, errors and calls that cross leave *)
(* no other behind.                                                          *)
OneStream ==
    /\ {e \in Streams : stream[e] # "none"} = current
    /\ latest.isConnected <=> \E e \in current : stream[e] = "open"

(* Once unmounted, the hook opens nothing any more, unless a timer had lost  *)
(* its reference to another: that happens when connect is called while a     *)
(* timer is set, and fails before it fires.                                  *)
QuietOnceUnmounted == ~mounted /\ ~orphaned => current = {} /\ retryTimers = {}

(* Timers are set while there are attempts left: those that are set by       *)
(* streams that fail one after another cannot add up to more.                *)
AttemptsBounded ==
    reconnects + Cardinality(retryTimers) <= MaxReconnectAttempts + Cardinality(Timers)

(* Until one loses its reference, the timer that is set is the one of the    *)
(* reference, which disconnect clears.                                       *)
TimerIsReferenced == ~orphaned => retryTimers \subseteq timerRef

(* One stream while mounted, and none afterwards.                            *)
HookInv ==
    /\ HookTypeOK
    /\ OneStream
    /\ AttemptsBounded
    /\ TimerIsReferenced
    /\ QuietOnceUnmounted

(* useIntervention.ts:255: "Auto-connect on mount".  So a hook that stays     *)
(* mounted is connected some time, unless a stream fails, which sets a timer.*)
ConnectsOnMount == <>(latest.isConnected \/ ~mounted \/ retryTimers # {})
=============================================================================
