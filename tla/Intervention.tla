---------------------------- MODULE Intervention ----------------------------
(***************************************************************************)
(* The intervention manager, packages/core/src/intervention/manager.ts,    *)
(* for one conversation: humans join it, and pause, resume, redirect or    *)
(* terminate it as their roles permit.                                     *)
(*                                                                         *)
(* requestIntervention checks and applies the action, then awaits, then    *)
(* updates the session, so it is two actions: Request and a Counted or     *)
(* Uncounted.  Several requests of one turn of the event loop, those of a  *)
(* Promise.all for instance, all pass before the first is counted.  The    *)
(* timer of a redirection is a turn of its own.                            *)
(*                                                                         *)
(* Left out: the lists of messages and of clarification requests, which    *)
(* nothing else depends on, and the hooks, which are configuration.  The   *)
(* event handlers are taken not to throw.                                  *)
(***************************************************************************)
EXTENDS Integers, FiniteSets

CONSTANTS
  Humans,            (* humanParticipantIds                                 *)
  Roles,             (* roles, with the permissions of custom ones          *)
  Permitted,         (* Permitted[r]: permissions.actions of the role r     *)
  MaxInterventions,  (* permissions.maxInterventions                        *)
  MaxParticipants,   (* config.maxParticipants                              *)
  Cooldown,          (* config.interventionCooldown > 0                     *)
  MaxSessions,       (* bound: sessions, over the life of the system        *)
  MaxConcurrent,     (* bound: requests of a session in a turn              *)
  MaxTimers          (* bound: redirections whose timers are set            *)

\* The other actions are recorded and change nothing, like "send_message".
Actions == {"send_message", "pause", "resume", "terminate", "redirect"}

ASSUME ConstantsAssumption ==
  /\ Humans # {} /\ Roles # {}
  /\ Permitted \in [Roles -> SUBSET Actions]
  /\ MaxInterventions \in Nat
  /\ MaxParticipants \in Nat
  /\ Cooldown \in BOOLEAN
  /\ MaxSessions \in Nat
  /\ MaxConcurrent \in Nat \ {0}
  /\ MaxTimers \in Nat

VARIABLES
  state,      (* the conversation's state, "none" when there is none        *)
  pausedBy,   (* its pausedBy, 0 when undefined                             *)
  sessions,   (* the ids of its sessions: the order in which they joined    *)
  joined,     (* sessions that joined so far, in this conversation or not   *)
  who,        (* who[s]: the human of s                                     *)
  role,       (* role[s]: the role of s                                     *)
  count,      (* count[s]: interventionCount                                *)
  resting,    (* sessions within the cooldown of their lastActiveAt         *)
  applied,    (* applied[s]: requests applied that are still to be counted  *)
  failing,    (* sessions with a failed request that has still to go on     *)
  timers      (* redirect timers that are set                               *)

conversation == <<state, pausedBy, sessions, timers>>
identity == <<joined, who, role>>
requests == <<count, resting, applied, failing>>
vars == <<conversation, identity, requests>>

SessionIds == 1..MaxSessions

TypeOK ==
  /\ state \in {"none", "active", "paused", "redirected", "terminated"}
  /\ pausedBy \in SessionIds \cup {0}
  /\ sessions \in SUBSET SessionIds
  /\ joined \in 0..MaxSessions
  /\ \A s \in sessions : s <= joined
  /\ who \in [SessionIds -> Humans]
  /\ role \in [SessionIds -> Roles]
  /\ count \in [SessionIds -> Nat]
  /\ resting \in SUBSET SessionIds
  /\ applied \in [SessionIds -> 0..MaxConcurrent]
  /\ failing \in SUBSET SessionIds
  /\ timers \in 0..MaxTimers

-----------------------------------------------------------------------------
(* Reading the state                                                       *)

Exists == state # "none"

\* The session requestIntervention finds: the first of a human who may have
\* joined more than once
IsSessionOf(s, h) ==
  /\ s \in sessions
  /\ who[s] = h
  /\ \A t \in sessions : who[t] = h => s <= t

\* Every request of this turn went on
TurnEnded == failing = {} /\ \A s \in SessionIds : applied[s] = 0

\* The checks on cooldown, permission and number
Allowed(s, action) ==
  /\ s \notin resting
  /\ action \in Permitted[role[s]]
  /\ count[s] < MaxInterventions

-----------------------------------------------------------------------------
(* Conversations and sessions                                              *)

\* Also over an existing conversation, whose timers and requests then go on
\* in an object nobody sees
CreateConversation ==
  /\ state' = "active"
  /\ pausedBy' = 0
  /\ sessions' = {}
  /\ timers' = 0
  /\ UNCHANGED <<identity, requests>>

DeleteConversation ==
  /\ Exists
  /\ state' = "none"
  /\ pausedBy' = 0
  /\ sessions' = {}
  /\ timers' = 0
  /\ UNCHANGED <<identity, requests>>

EndConversation ==
  /\ Exists
  /\ state' = "terminated"
  /\ sessions' = {}
  /\ UNCHANGED <<pausedBy, timers, identity, requests>>

\* The human may have joined already, and the state does not matter
JoinConversation(h, r) ==
  /\ Exists
  /\ Cardinality(sessions) < MaxParticipants
  /\ joined < MaxSessions
  /\ joined' = joined + 1
  /\ sessions' = sessions \cup {joined + 1}
  /\ who' = [who EXCEPT ![joined + 1] = h]
  /\ role' = [role EXCEPT ![joined + 1] = r]
  /\ resting' = IF Cooldown THEN resting \cup {joined + 1} ELSE resting
  /\ UNCHANGED <<state, pausedBy, timers, count, applied, failing>>

LeaveStayingPaused(s) ==
  /\ s \in sessions
  /\ sessions' = sessions \ {s}
  /\ UNCHANGED <<state, pausedBy, timers, identity, requests>>

\* Whoever paused the conversation resumes it by leaving, in any state it has
\* come to since
LeaveConversation(s) ==
  /\ s \in sessions
  /\ sessions' = sessions \ {s}
  /\ IF pausedBy = s
     THEN state' = "active" /\ pausedBy' = 0
     ELSE UNCHANGED <<state, pausedBy>>
  /\ UNCHANGED <<timers, identity, requests>>

-----------------------------------------------------------------------------
(* applyIntervention: each action, for the session s, with its success     *)

Succeeds(s) ==
  /\ applied[s] < MaxConcurrent
  /\ applied' = [applied EXCEPT ![s] = @ + 1]
  /\ UNCHANGED failing

FailsFor(s) ==
  /\ failing' = failing \cup {s}
  /\ UNCHANGED applied

Record(s) == Succeeds(s) /\ UNCHANGED <<state, pausedBy, timers>>

Pause(s) ==
  IF state = "active"
  THEN Succeeds(s) /\ state' = "paused" /\ pausedBy' = s /\ UNCHANGED timers
  ELSE FailsFor(s) /\ UNCHANGED <<state, pausedBy, timers>>

Resume(s) ==
  IF state = "paused"
  THEN Succeeds(s) /\ state' = "active" /\ pausedBy' = 0 /\ UNCHANGED timers
  ELSE FailsFor(s) /\ UNCHANGED <<state, pausedBy, timers>>

\* pausedBy stays
Terminate(s) ==
  Succeeds(s) /\ state' = "terminated" /\ UNCHANGED <<pausedBy, timers>>

\* In any state, and pausedBy stays
Redirect(s) ==
  /\ Succeeds(s)
  /\ timers < MaxTimers
  /\ timers' = timers + 1
  /\ state' = "redirected"
  /\ UNCHANGED pausedBy

Apply(s, action) ==
  \/ action = "send_message" /\ Record(s)
  \/ action = "pause" /\ Pause(s)
  \/ action = "resume" /\ Resume(s)
  \/ action = "terminate" /\ Terminate(s)
  \/ action = "redirect" /\ Redirect(s)

-----------------------------------------------------------------------------
(* requestIntervention                                                     *)

\* Up to the await
Request(h, action) ==
  /\ Exists
  /\ \E s \in sessions :
       /\ IsSessionOf(s, h)
       /\ Allowed(s, action)
       /\ Apply(s, action)
  /\ UNCHANGED <<sessions, identity, count, resting>>

\* The session is updated, whether or not it is still in a conversation
Rest(s) == resting' = IF Cooldown THEN resting \cup {s} ELSE resting

Counted(s) ==
  /\ applied[s] > 0
  /\ applied' = [applied EXCEPT ![s] = @ - 1]
  /\ count' = [count EXCEPT ![s] = @ + 1]
  /\ Rest(s)
  /\ UNCHANGED <<conversation, identity, failing>>

Uncounted(s) ==
  /\ s \in failing
  /\ failing' = failing \ {s}
  /\ Rest(s)
  /\ UNCHANGED <<conversation, identity, count, applied>>

-----------------------------------------------------------------------------
(* Timers                                                                  *)

\* The timer of a redirection, perhaps not of the last one
RedirectTimer ==
  /\ timers > 0
  /\ TurnEnded
  /\ timers' = timers - 1
  /\ state' = IF state = "redirected" THEN "active" ELSE state
  /\ UNCHANGED <<pausedBy, sessions, identity, requests>>

\* The cooldown of s has elapsed
Cool(s) ==
  /\ s \in resting
  /\ resting' = resting \ {s}
  /\ UNCHANGED <<conversation, identity, count, applied, failing>>

-----------------------------------------------------------------------------
Init ==
  /\ state = "none"
  /\ pausedBy = 0
  /\ sessions = {}
  /\ joined = 0
  /\ who = [s \in SessionIds |-> CHOOSE h \in Humans : TRUE]
  /\ role = [s \in SessionIds |-> CHOOSE r \in Roles : TRUE]
  /\ count = [s \in SessionIds |-> 0]
  /\ resting = {}
  /\ applied = [s \in SessionIds |-> 0]
  /\ failing = {}
  /\ timers = 0

Next ==
  \/ CreateConversation
  \/ DeleteConversation
  \/ EndConversation
  \/ \E h \in Humans, r \in Roles : JoinConversation(h, r)
  \/ \E s \in SessionIds : LeaveConversation(s)
  \/ \E h \in Humans, action \in Actions : Request(h, action)
  \/ \E s \in SessionIds : Counted(s)
  \/ \E s \in SessionIds : Uncounted(s)
  \/ RedirectTimer
  \/ \E s \in SessionIds : Cool(s)

Spec == Init /\ [][Next]_vars

-----------------------------------------------------------------------------
(* Safety                                                                  *)

\* A paused conversation was paused by someone who is still in it, and who
\* will resume it by leaving: no order of pauses, redirections, timers, ends
\* and departures leaves it paused by nobody.
PauserIsPresent == state = "paused" => pausedBy \in sessions

\* A redirected conversation has a timer that makes it active again, though
\* every redirection sets one, any of them ends any redirection, and the
\* conversation may be terminated, ended or paused in between.
RedirectHasTimer == state = "redirected" => timers > 0

\* Requests that run at the same time pass the same check, so a session can
\* exceed its maximum, but only by those of a single turn.
InterventionsBounded ==
  \A s \in SessionIds :
    count[s] + applied[s] <= MaxInterventions - 1 + MaxConcurrent

\* The inductive invariant.
InterventionInv ==
  /\ TypeOK
  /\ PauserIsPresent
  /\ RedirectHasTimer
  /\ InterventionsBounded

-----------------------------------------------------------------------------
(* What the source says and the code does not do                           *)

\* types.ts, of the state 'terminated': "Ended by human intervention".  So the
\* conversation does not become active again unless it is created anew, which
\* takes its sessions away.
TerminatedIsFinal ==
  [][state = "terminated" /\ state' \notin {"terminated", "none"} =>
       CreateConversation]_vars
=============================================================================
