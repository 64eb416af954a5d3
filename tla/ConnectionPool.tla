---------------------------- MODULE ConnectionPool ----------------------------
(***************************************************************************)
(* The pool of WebSocket connections,                                      *)
(* packages/core/src/intervention/performance/connection-pool.ts: it       *)
(* creates connections up to a maximum, evicts idle ones, checks           *)
(* heartbeats and reconnects.  A pooled connection outlives its sockets:   *)
(* each reconnection makes a new one, and the handlers of every socket act *)
(* on the same connection, also after the pool removed it.                 *)
(*                                                                         *)
(* One event-loop callback is one action.  close sets 'disconnecting' and  *)
(* 'disconnected' in the same callback, so no other one sees the first.    *)
(* The index by URL changes with the map of connections and is the map's   *)
(* grouping; the other statistics are counted when they are read.          *)
(* WebSocket is external: a socket that cannot be made emits error and     *)
(* close together, one that was open emits close, and what is sent on a    *)
(* closing one is discarded without an error.  A constructor that throws   *)
(* is a socket that fails at once.                                         *)
(***************************************************************************)
EXTENDS Integers, Sequences, FiniteSets

CONSTANTS
  Connections,     (* bound: connections created, each once                *)
  Sockets,         (* bound: WebSockets in use at a time                   *)
  NoSocket,        (* null, for a socket                                   *)
  NoConnection,    (* the owner of a socket not used yet                   *)
  Urls,
  MaxConnections,  (* config.maxConnections                                *)
  MaxAttempts,     (* config.reconnectAttempts                             *)
  MaxTimers,       (* bound: reconnection timers of a connection           *)
  MaxMsgs          (* bound: messages sent                                 *)

ASSUME ConstantsAssumption ==
  /\ IsFiniteSet(Connections)
  /\ NoSocket \notin Sockets
  /\ NoConnection \notin Connections
  /\ Urls # {}
  /\ MaxConnections \in Nat /\ MaxAttempts \in Nat
  /\ MaxTimers \in Nat /\ MaxMsgs \in Nat

VARIABLES
  connections,  (* the connections in the map                              *)
  url,          (* url[c]                                                  *)
  state,        (* state[c], "none" before it is created                   *)
  ws,           (* ws[c]: its socket                                       *)
  attempts,     (* attempts[c]: reconnectAttempts                          *)
  timers,       (* timers[c]: reconnection timers that are set             *)
  pending,      (* pending[c]: pendingMessages                             *)
  sock,         (* sock[s]: the readyState, or "aborting": closing before  *)
                (* it was open                                             *)
  owner,        (* owner[s]: the connection of the handlers of s           *)
  total,        (* stats.totalConnections                                  *)
  running,      (* the heartbeat and clean-up intervals are set            *)
  next,         (* identity of the next message                            *)
  written       (* history: written[c], messages given to a socket of c    *)

connection == <<connections, url, state, attempts, timers, total>>
sockets == <<ws, sock, owner>>
messages == <<pending, next, written>>
vars == <<connection, sockets, messages, running>>

States == {"none", "connecting", "connected", "disconnected", "reconnecting",
           "error"}
SockStates == {"idle", "connecting", "aborting", "open", "closing", "closed"}
MsgIds == 1..MaxMsgs

TypeOK ==
  /\ connections \in SUBSET Connections
  /\ url \in [Connections -> Urls]
  /\ state \in [Connections -> States]
  /\ ws \in [Connections -> Sockets \cup {NoSocket}]
  /\ attempts \in [Connections -> 0..MaxAttempts]
  /\ timers \in [Connections -> 0..MaxTimers]
  /\ pending \in [Connections -> Seq(MsgIds)]
  /\ sock \in [Sockets -> SockStates]
  /\ owner \in [Sockets -> Connections \cup {NoConnection}]
  /\ total \in Int
  /\ running \in BOOLEAN
  /\ next \in 1..(MaxMsgs + 1)
  /\ written \in [Connections -> SUBSET MsgIds]

-----------------------------------------------------------------------------
(* Reading the state                                                       *)

\* A socket that has still an event to come
Live(s) == sock[s] \in {"connecting", "aborting", "open", "closing"}

Connected(c) == state[c] = "connected" /\ ws[c] # NoSocket

\* findAvailableConnection finds one
Available(u) == \E c \in connections : url[c] = u /\ Connected(c)

\* The connections an eviction can find: what is idle depends on the clock
Evictable == {c \in connections : state[c] = "connected"}

Members(q) == {q[i] : i \in DOMAIN q}

-----------------------------------------------------------------------------
(* Pieces of the handlers                                                  *)

ReconnectKeeping(C, st) ==
  LET out == {c \in C : attempts[c] >= MaxAttempts}
  IN  /\ state' = [c \in Connections |->
                     IF c \in out THEN st
                     ELSE IF c \in C THEN "reconnecting" ELSE state[c]]
      /\ attempts' = [c \in Connections |->
                        IF c \in C \ out THEN attempts[c] + 1 ELSE attempts[c]]
      /\ timers' = [c \in Connections |->
                      IF c \in C \ out THEN timers[c] + 1 ELSE timers[c]]
      /\ \A c \in C : timers'[c] <= MaxTimers
      /\ UNCHANGED <<connections, total>>

\* handleReconnect for the connections of C, whose state is st: those out of
\* attempts are removed from the map, in it or not, and counted down.
HandleReconnect(C, st) ==
  LET out == {c \in C : attempts[c] >= MaxAttempts}
  IN  /\ connections' = connections \ out
      /\ total' = total - Cardinality(out)
      /\ state' = [c \in Connections |->
                     IF c \in out THEN st
                     ELSE IF c \in C THEN "reconnecting" ELSE state[c]]
      /\ attempts' = [c \in Connections |->
                        IF c \in C \ out THEN attempts[c] + 1 ELSE attempts[c]]
      /\ timers' = [c \in Connections |->
                      IF c \in C \ out THEN timers[c] + 1 ELSE timers[c]]
      /\ \A c \in C : timers'[c] <= MaxTimers

\* ws.close()
Closing(st) ==
  CASE st = "connecting" -> "aborting"
    [] st = "open" -> "closing"
    [] OTHER -> st

\* The sockets after close was called on those of the connections of C
SocketsClosing(C) ==
  [s \in Sockets |-> IF \E c \in C : ws[c] = s THEN Closing(sock[s])
                     ELSE sock[s]]

SocketsDropped(C) == [c \in Connections |-> IF c \in C THEN NoSocket ELSE ws[c]]

CanBeNew(s) == sock[s] \in {"idle", "closed"}

\* close, of the connections of C
CloseThem(C) ==
  /\ connections' = connections \ C
  /\ total' = total - Cardinality(C)
  /\ state' = [c \in Connections |-> IF c \in C THEN "disconnected"
                                     ELSE state[c]]
  /\ sock' = SocketsClosing(C)
  /\ ws' = SocketsDropped(C)
  /\ UNCHANGED <<url, attempts, timers, owner, messages>>

-----------------------------------------------------------------------------
(* Calls                                                                   *)

\* acquire, when no connection of u is available: in a full pool it closes
\* those that are idle, and if there is room creates c, up to the await of its
\* socket s.
Acquire(c, u, s, idle) ==
  /\ state[c] = "none"
  /\ ~Available(u)
  /\ idle # {} => Cardinality(connections) >= MaxConnections
  /\ Cardinality(connections \ idle) < MaxConnections
  /\ CanBeNew(s)
  /\ connections' = (connections \ idle) \cup {c}
  /\ total' = total - Cardinality(idle) + 1
  /\ url' = [url EXCEPT ![c] = u]
  /\ state' = [d \in Connections |->
                 IF d = c THEN "connecting"
                 ELSE IF d \in idle THEN "disconnected" ELSE state[d]]
  /\ sock' = [SocketsClosing(idle) EXCEPT ![s] = "connecting"]
  /\ ws' = SocketsDropped(idle)
  /\ owner' = [owner EXCEPT ![s] = c]
  /\ UNCHANGED <<attempts, timers, messages, running>>

\* send: only what is not connected keeps the message
Send(c) ==
  /\ c \in connections
  /\ next <= MaxMsgs
  /\ next' = next + 1
  /\ IF Connected(c)
     THEN /\ written' = [written EXCEPT ![c] = @ \cup {next}]
          /\ UNCHANGED pending
     ELSE /\ pending' = [pending EXCEPT ![c] = Append(@, next)]
          /\ UNCHANGED written
  /\ UNCHANGED <<connection, sockets, running>>

Close(c) ==
  /\ c \in connections
  /\ CloseThem({c})
  /\ UNCHANGED running

\* closeAll closes one after the other without a wait in between.
CloseAll ==
  /\ connections # {} \/ running
  /\ CloseThem(connections)
  /\ running' = FALSE

Start ==
  /\ ~running
  /\ running' = TRUE
  /\ UNCHANGED <<connection, sockets, messages>>

Stop ==
  /\ running
  /\ running' = FALSE
  /\ UNCHANGED <<connection, sockets, messages>>

-----------------------------------------------------------------------------
(* Socket events                                                           *)

\* open: the messages that waited are sent, unless the connection is no longer
\* in the map, where send does not find it and they are kept.
Opened(s) ==
  LET c == owner[s]
  IN  /\ sock[s] = "connecting"
      /\ sock' = [sock EXCEPT ![s] = "open"]
      /\ ws' = [ws EXCEPT ![c] = s]
      /\ state' = [state EXCEPT ![c] = "connected"]
      /\ attempts' = [attempts EXCEPT ![c] = 0]
      /\ IF c \in connections
         THEN /\ written' = [written EXCEPT ![c] = @ \cup Members(pending[c])]
              /\ pending' = [pending EXCEPT ![c] = <<>>]
         ELSE UNCHANGED <<written, pending>>
      /\ UNCHANGED <<connections, url, timers, total, owner, next, running>>

\* close, after error for a socket that was never open: whichever socket the
\* connection has by now is forgotten.
Closed(s) ==
  LET c == owner[s]
  IN  /\ Live(s)
      /\ sock' = [sock EXCEPT ![s] = "closed"]
      /\ ws' = [ws EXCEPT ![c] = NoSocket]
      /\ HandleReconnect({c}, "disconnected")
      /\ UNCHANGED <<url, owner, messages, running>>

\* The readyState of an open socket changes before its close event
PeerClose(s) ==
  /\ sock[s] = "open"
  /\ sock' = [sock EXCEPT ![s] = "closing"]
  /\ UNCHANGED <<connection, ws, owner, messages, running>>

-----------------------------------------------------------------------------
(* Timers                                                                  *)

\* The timeout of connectWebSocket.  Only the first socket of a connection is
\* made in the state 'connecting', so those of the others do nothing.
TimedOut(s) ==
  LET c == owner[s]
  IN  /\ sock[s] = "connecting"
      /\ state[c] = "connecting"
      /\ sock' = [sock EXCEPT ![s] = "aborting"]
      /\ HandleReconnect({c}, "error")
      /\ UNCHANGED <<url, ws, owner, messages, running>>

\* A reconnection timer
Reconnect(c, s) ==
  /\ timers[c] > 0
  /\ timers' = [timers EXCEPT ![c] = @ - 1]
  /\ IF state[c] = "reconnecting"
     THEN /\ CanBeNew(s)
          /\ sock' = [sock EXCEPT ![s] = "connecting"]
          /\ owner' = [owner EXCEPT ![s] = c]
     ELSE UNCHANGED <<sock, owner>>
  /\ UNCHANGED <<connections, url, state, attempts, total, ws, messages,
                 running>>

\* sendHeartbeats: what did not answer in time reconnects, its socket stays
Heartbeat(late) ==
  /\ running
  /\ late # {}
  /\ late \subseteq {c \in connections : Connected(c)}
  /\ HandleReconnect(late, "error")
  /\ UNCHANGED <<url, sockets, messages, running>>

\* The clean-up interval
EvictIdle(idle) ==
  /\ running
  /\ idle # {}
  /\ CloseThem(idle)
  /\ UNCHANGED running

-----------------------------------------------------------------------------
Init ==
  /\ connections = {}
  /\ url = [c \in Connections |-> CHOOSE u \in Urls : TRUE]
  /\ state = [c \in Connections |-> "none"]
  /\ ws = [c \in Connections |-> NoSocket]
  /\ attempts = [c \in Connections |-> 0]
  /\ timers = [c \in Connections |-> 0]
  /\ pending = [c \in Connections |-> <<>>]
  /\ sock = [s \in Sockets |-> "idle"]
  /\ owner = [s \in Sockets |-> NoConnection]
  /\ total = 0
  /\ running = FALSE
  /\ next = 1
  /\ written = [c \in Connections |-> {}]

Next ==
  \/ \E c \in Connections, u \in Urls, s \in Sockets :
       \E idle \in SUBSET Evictable : Acquire(c, u, s, idle)
  \/ \E c \in Connections : Send(c)
  \/ \E c \in Connections : Close(c)
  \/ CloseAll
  \/ Start
  \/ Stop
  \/ \E s \in Sockets : Opened(s)
  \/ \E s \in Sockets : Closed(s)
  \/ \E s \in Sockets : PeerClose(s)
  \/ \E s \in Sockets : TimedOut(s)
  \/ \E c \in Connections, s \in Sockets : Reconnect(c, s)
  \/ \E late \in SUBSET connections : Heartbeat(late)
  \/ \E idle \in SUBSET Evictable : EvictIdle(idle)

Spec == Init /\ [][Next]_vars

-----------------------------------------------------------------------------
(* Safety                                                                  *)

\* A connection that says it is connected has a socket of its own that was
\* opened and has not emitted close: late events of earlier sockets, which
\* share its handlers, at worst make it forget a good socket.
ConnectedHasSocket ==
  \A c \in Connections : state[c] = "connected" =>
    /\ ws[c] # NoSocket
    /\ owner[ws[c]] = c
    /\ sock[ws[c]] \in {"open", "closing"}

\* No connection rots in the pool: one that is not connected has a timer that
\* will reconnect it or a socket whose next event will connect it, set such a
\* timer or remove it.
StillTrying ==
  \A c \in connections : state[c] # "connected" =>
    \/ timers[c] > 0 /\ state[c] = "reconnecting"
    \/ \E s \in Sockets : owner[s] = c /\ Live(s)

\* The messages of a connection go out in the order they were sent, over all
\* its reconnections, and none is sent twice: what waits is in order and
\* younger than what went out, and nothing waits while it is connected.
SentInOrder ==
  \A c \in Connections :
    /\ \A i, j \in DOMAIN pending[c] : i < j => pending[c][i] < pending[c][j]
    /\ \A m \in written[c], w \in Members(pending[c]) : m < w
    /\ c \in connections /\ state[c] = "connected" => pending[c] = <<>>

\* totalConnections, which getHealth compares with the maximum, counts a
\* connection down once for every time it is removed, so it never says more
\* than there are, and the pool itself never has more than the maximum.
CountedAtMost ==
  /\ total <= Cardinality(connections)
  /\ Cardinality(connections) <= MaxConnections

-----------------------------------------------------------------------------
(* The inductive invariant                                                 *)

\* A socket belongs to the connection it was made for, and only open ones are
\* kept in a connection, so that no event of a socket reaches another
\* connection.
SocketsOwned ==
  /\ \A s \in Sockets : sock[s] # "idle" => owner[s] \in Connections
  /\ \A c \in Connections : ws[c] # NoSocket =>
       owner[ws[c]] = c /\ sock[ws[c]] \in {"open", "closing"}

\* What is in the pool was created, and the messages were sent before.
InThePast ==
  /\ \A c \in connections : state[c] # "none"
  /\ \A c \in Connections :
       \A m \in written[c] \cup Members(pending[c]) : m < next

\* The inductive invariant from which the properties above follow.
PoolInv ==
  /\ TypeOK
  /\ SocketsOwned
  /\ InThePast
  /\ ConnectedHasSocket
  /\ StillTrying
  /\ SentInOrder
  /\ CountedAtMost
=============================================================================
