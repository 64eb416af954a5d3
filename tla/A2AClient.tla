----------------------------- MODULE A2AClient -----------------------------
(***************************************************************************)
(* The relay client, packages/p2p/src/transport/client.ts: one logical     *)
(* connection to the relay made of one WebSocket after another, with a     *)
(* connection timeout and automatic reconnection.                          *)
(*                                                                         *)
(* Every call of connect makes a promise and a socket, so a socket also    *)
(* names its call.  The promise's functions are kept in one field that the *)
(* next call overwrites, and so is the socket; the handlers of an earlier  *)
(* socket use the fields all the same.                                     *)
(*                                                                         *)
(* One event-loop callback, with the promise reactions it sets off, is one *)
(* action.  The ws library is external: it emits error and close together  *)
(* when a connection cannot be made or is aborted, and close alone when an *)
(* open one ends.  What is kept of time is which timers are set.           *)
(***************************************************************************)
EXTENDS Naturals, FiniteSets

CONSTANTS
  Sockets,       (* bound: sockets, and calls of connect, at a time         *)
  MaxOrphans,    (* bound: timers set that the field no longer holds        *)
  NoSocket,      (* null, for a socket                                      *)
  MaxReconnectAttempts

ASSUME ConstantsAssumption ==
  /\ NoSocket \notin Sockets
  /\ MaxOrphans \in Nat
  /\ MaxReconnectAttempts \in Nat

VARIABLES
  sock,        (* sock[s]: "idle", the readyState, or "aborting", that is    *)
               (* closing before it was open                                 *)
  ws,          (* this.ws                                                    *)
  promise,     (* promise[s]: the promise of the connect that made s         *)
  retrying,    (* sockets whose connect was called by a reconnection timer   *)
  resolver,    (* the connect whose functions are in connectResolve/Reject   *)
  limit,       (* sockets whose connection timeout is set                    *)
  signing,     (* sockets whose open handler awaits the signature            *)
  asked,       (* sockets a register message was sent on, not yet answered   *)
  registered,  (* sockets that are registered with the relay                 *)
  connected,   (* this.connected, and agentId is set                         *)
  attempts,    (* reconnectAttempts                                          *)
  held,        (* a timer is set and in reconnectTimer                       *)
  orphans,     (* how many more are set, their place in the field taken      *)
  intentional  (* intentionalDisconnect                                      *)

sockets == <<sock, ws, limit, signing, asked, registered>>
promises == <<promise, retrying, resolver>>
reconnection == <<attempts, held, orphans, intentional>>
vars == <<sockets, promises, connected, reconnection>>

SockStates == {"idle", "connecting", "aborting", "open", "closing", "closed"}

TypeOK ==
  /\ sock \in [Sockets -> SockStates]
  /\ ws \in Sockets \cup {NoSocket}
  /\ promise \in [Sockets -> {"none", "pending", "resolved", "rejected"}]
  /\ retrying \in SUBSET Sockets
  /\ resolver \in Sockets \cup {NoSocket}
  /\ limit \in SUBSET Sockets
  /\ signing \in SUBSET Sockets
  /\ asked \in SUBSET Sockets
  /\ registered \in SUBSET Sockets
  /\ connected \in BOOLEAN
  /\ attempts \in Nat
  /\ held \in BOOLEAN
  /\ orphans \in 0 .. MaxOrphans
  /\ intentional \in BOOLEAN

-----------------------------------------------------------------------------
(* Pieces of the handlers                                                  *)

\* s can stand for a new connection: nothing of an earlier one is left
Free(s) == sock[s] \in {"idle", "closed"} /\ s \notin limit \cup signing

Receiving(s) == sock[s] \in {"open", "closing"}

\* ws.close()
Closing(state) ==
  CASE state = "connecting" -> "aborting"
    [] state = "open" -> "closing"
    [] OTHER -> state

CloseCurrent ==
  sock' = [s \in Sockets |-> IF s = ws THEN Closing(sock[s]) ELSE sock[s]]

TimersSet == held \/ orphans > 0

\* attemptReconnect does nothing
Stopped == attempts >= MaxReconnectAttempts \/ intentional

\* attemptReconnect, called n times.  Each call overwrites the field and leaves
\* the timer that was in it set.
AttemptReconnect(n) ==
  IF Stopped \/ n = 0
  THEN UNCHANGED <<held, orphans>>
  ELSE /\ held' = TRUE
       /\ orphans' = orphans + n - (IF held THEN 0 ELSE 1)
       /\ orphans' <= MaxOrphans

\* connectReject: the caller is told.  A reconnection timer that made the call
\* reacts with one more attemptReconnect.
Reject ==
  /\ promise' = [s \in Sockets |-> IF s = resolver THEN "rejected"
                                                   ELSE promise[s]]
  /\ resolver' = NoSocket

\* How many attemptReconnect calls the rejection sets off
Reactions == IF resolver \in retrying THEN 1 ELSE 0

\* The body of connect, which clears the timer in the field
StartConnect(s) ==
  /\ Free(s)
  /\ held' = FALSE
  /\ sock' = [sock EXCEPT ![s] = "connecting"]
  /\ ws' = s
  /\ promise' = [promise EXCEPT ![s] = "pending"]
  /\ resolver' = s
  /\ limit' = limit \cup {s}
  /\ UNCHANGED <<signing, asked, registered, connected, intentional>>

-----------------------------------------------------------------------------
(* Calls                                                                   *)

Connect(s) ==
  /\ StartConnect(s)
  /\ retrying' = retrying \ {s}
  /\ UNCHANGED <<attempts, orphans>>

Disconnect ==
  /\ intentional' = TRUE
  /\ held' = FALSE
  /\ CloseCurrent
  /\ ws' = NoSocket
  /\ connected' = FALSE
  /\ UNCHANGED <<promises, limit, signing, asked, registered, attempts,
                 orphans>>

-----------------------------------------------------------------------------
(* Socket events                                                           *)

\* open, up to the await of the signature
Opened(s) ==
  /\ sock[s] = "connecting"
  /\ sock' = [sock EXCEPT ![s] = "open"]
  /\ limit' = limit \ {s}
  /\ signing' = signing \cup {s}
  /\ UNCHANGED <<ws, asked, registered, promises, connected, reconnection>>

\* The rest of the open handler sends on this.ws, whichever socket that is by
\* now.  It throws when there is none, or one that is not open yet.
Signed(s) ==
  /\ s \in signing
  /\ signing' = signing \ {s}
  /\ IF ws = NoSocket \/ (ws \in Sockets /\ sock[ws] = "connecting")
     THEN /\ Reject
          /\ AttemptReconnect(Reactions)
          /\ UNCHANGED asked
     ELSE /\ asked' = IF sock[ws] = "open" THEN asked \cup {ws} ELSE asked
          /\ UNCHANGED <<promise, resolver, held, orphans>>
  /\ UNCHANGED <<sock, ws, limit, registered, retrying, connected, attempts,
                 intentional>>

\* The relay confirms the registration
Registered(s) ==
  /\ s \in asked
  /\ Receiving(s)
  /\ asked' = asked \ {s}
  /\ registered' = registered \cup {s}
  /\ connected' = TRUE
  /\ attempts' = 0
  /\ promise' = [t \in Sockets |-> IF t = resolver THEN "resolved"
                                                   ELSE promise[t]]
  /\ resolver' = NoSocket
  /\ UNCHANGED <<sock, ws, limit, signing, retrying, held, orphans,
                 intentional>>

\* It refuses it: the error is logged
Refused(s) ==
  /\ s \in asked
  /\ Receiving(s)
  /\ asked' = asked \ {s}
  /\ UNCHANGED <<sock, ws, limit, signing, registered, promises, connected,
                 reconnection>>

FailsQuietly(s) ==
  /\ sock[s] \in {"connecting", "aborting"}
  /\ sock' = [sock EXCEPT ![s] = "closed"]
  /\ connected' = FALSE
  /\ IF resolver # NoSocket /\ ~connected
     THEN /\ limit' = limit \ {s}
          /\ Reject
          /\ AttemptReconnect(Reactions)
     ELSE /\ UNCHANGED <<limit, promise, resolver, held, orphans>>
  /\ UNCHANGED <<ws, signing, asked, registered, retrying, attempts,
                 intentional>>

\* error, then close: the connection could not be made, or was aborted.  The
\* rejection and the close handler both call attemptReconnect.
Fails(s) ==
  /\ sock[s] \in {"connecting", "aborting"}
  /\ sock' = [sock EXCEPT ![s] = "closed"]
  /\ connected' = FALSE
  /\ IF resolver # NoSocket /\ ~connected
     THEN /\ limit' = limit \ {s}
          /\ Reject
          /\ AttemptReconnect(1 + Reactions)
     ELSE /\ AttemptReconnect(1)
          /\ UNCHANGED <<limit, promise, resolver>>
  /\ UNCHANGED <<ws, signing, asked, registered, retrying, attempts,
                 intentional>>

\* error on an open connection, which closes it
ReceiveError(s) ==
  /\ sock[s] = "open"
  /\ sock' = [sock EXCEPT ![s] = "closing"]
  /\ IF resolver # NoSocket /\ ~connected
     THEN /\ limit' = limit \ {s}
          /\ Reject
          /\ AttemptReconnect(Reactions)
     ELSE UNCHANGED <<limit, promise, resolver, held, orphans>>
  /\ UNCHANGED <<ws, signing, asked, registered, retrying, connected, attempts,
                 intentional>>

DropsOnlyCurrent(s) ==
  /\ sock[s] \in {"open", "closing"}
  /\ sock' = [sock EXCEPT ![s] = "closed"]
  /\ asked' = asked \ {s}
  /\ registered' = registered \ {s}
  /\ connected' = (connected /\ s # ws)
  /\ AttemptReconnect(1)
  /\ UNCHANGED <<ws, limit, signing, promises, attempts, intentional>>

\* close of a connection that was open: of any, not only of this.ws
Drops(s) ==
  /\ sock[s] \in {"open", "closing"}
  /\ sock' = [sock EXCEPT ![s] = "closed"]
  /\ asked' = asked \ {s}
  /\ registered' = registered \ {s}
  /\ connected' = FALSE
  /\ AttemptReconnect(1)
  /\ UNCHANGED <<ws, limit, signing, promises, attempts, intentional>>

-----------------------------------------------------------------------------
(* Timers                                                                  *)

\* The connection timeout of the call that made s closes this.ws and rejects
\* what is in the field
TimedOut(s) ==
  /\ s \in limit
  /\ limit' = limit \ {s}
  /\ IF resolver # NoSocket /\ ~connected
     THEN /\ CloseCurrent
          /\ Reject
          /\ AttemptReconnect(Reactions)
     ELSE UNCHANGED <<sock, promise, resolver, held, orphans>>
  /\ UNCHANGED <<ws, signing, asked, registered, retrying, connected, attempts,
                 intentional>>

\* The callback attemptReconnect gave to setTimeout.  It does not look at
\* intentionalDisconnect, and connect clears only the timer in the field.
TimerFires(s) ==
  /\ \/ held /\ UNCHANGED orphans
     \/ orphans > 0 /\ orphans' = orphans - 1
  /\ attempts' = attempts + 1
  /\ StartConnect(s)
  /\ retrying' = retrying \cup {s}

-----------------------------------------------------------------------------
Init ==
  /\ sock = [s \in Sockets |-> "idle"]
  /\ ws = NoSocket
  /\ promise = [s \in Sockets |-> "none"]
  /\ retrying = {}
  /\ resolver = NoSocket
  /\ limit = {}
  /\ signing = {}
  /\ asked = {}
  /\ registered = {}
  /\ connected = FALSE
  /\ attempts = 0
  /\ held = FALSE
  /\ orphans = 0
  /\ intentional = FALSE

Next ==
  \/ \E s \in Sockets : Connect(s)
  \/ Disconnect
  \/ \E s \in Sockets : Opened(s)
  \/ \E s \in Sockets : Signed(s)
  \/ \E s \in Sockets : Registered(s)
  \/ \E s \in Sockets : Refused(s)
  \/ \E s \in Sockets : Fails(s)
  \/ \E s \in Sockets : ReceiveError(s)
  \/ \E s \in Sockets : Drops(s)
  \/ \E s \in Sockets : TimedOut(s)
  \/ \E s \in Sockets : TimerFires(s)

Spec == Init /\ [][Next]_vars

-----------------------------------------------------------------------------
(* Safety                                                                  *)

\* The close of any socket, also of one replaced long ago, clears connected,
\* so connected never outlives the registration that set it: some socket is
\* registered with the relay and not closed.
ConnectedIsRegistered ==
  connected => \E s \in registered : Receiving(s)

\* Without disconnect, and with attempts left, the client is never idle while
\* it is not connected: a timer is set or there is a socket, though every
\* connect clears a timer and sockets fail, time out and replace each other.
NeverIdle ==
  /\ \E s \in Sockets : sock[s] # "idle"
  /\ ~connected /\ ~intentional /\ attempts < MaxReconnectAttempts
  => TimersSet \/ \E s \in Sockets : sock[s] \notin {"idle", "closed"}

\* The functions in connectResolve and connectReject are of a promise that is
\* not settled, and a settled socket's failure settles no promise twice.
ResolverIsPending == resolver # NoSocket => promise[resolver] = "pending"

\* The inductive invariant: what the client says of itself agrees with its
\* sockets and timers.
ClientInv ==
  /\ TypeOK
  /\ ConnectedIsRegistered
  /\ NeverIdle
  /\ ResolverIsPending

-----------------------------------------------------------------------------
(* Liveness                                                                *)

\* Connections are made or fail, signatures are computed, timers fire.  The
\* relay need not answer.
Fairness ==
  /\ \A s \in Sockets : WF_vars(Opened(s) \/ Fails(s))
  /\ \A s \in Sockets : WF_vars(sock[s] = "closing" /\ Drops(s))
  /\ \A s \in Sockets : WF_vars(Signed(s))
  /\ \A s \in Sockets : WF_vars(TimedOut(s))
  /\ WF_vars(\E s \in Sockets : TimerFires(s))

FairSpec == Spec /\ Fairness

\* A caller that calls connect over and over clears the timer every time: from
\* some time on the client is left to itself.
CallsEnd == <>[][\A s \in Sockets : ~Connect(s)]_vars

LeftAloneSpec == FairSpec /\ CallsEnd

\* An open connection on which the relay has still to answer, or refused
Unanswered(s) == sock[s] = "open" /\ s \notin signing \cup registered

\* The bound on timers is reached: one more failure may not fit
OutOfTimers == orphans + 2 > MaxOrphans

\* A client that lost its connection gets one, gives up after its attempts or
\* is disconnected, unless an open connection waits for the relay's answer (or
\* the instance runs out of timers).
Reconnects ==
  TimersSet /\ ~connected ~>
    \/ connected
    \/ intentional \/ attempts >= MaxReconnectAttempts
    \/ \E s \in Sockets : Unanswered(s)
    \/ OutOfTimers

-----------------------------------------------------------------------------
(* What the source says and the code does not do                           *)

\* client-reconnect.test.ts: "should not reconnect on intentional disconnect"
NoReconnectAfterDisconnect ==
  [][\A s \in Sockets : TimerFires(s) => ~intentional]_vars
=============================================================================
