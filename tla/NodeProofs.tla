------------------------------ MODULE NodeProofs ------------------------------
(* Proofs about what a node is made of: its connection pool, its start and   *)
(* stop, the parts beside them, and how it finds others, for any             *)
(* connections, callers, keys, peers and limits.                             *)
EXTENDS ConnectionPool, ClawNode, InterventionHook, KeyRotation, LimitsAndReputation,
        NatTraversal, ConnectionPaths, NodeDiscovery,
        FiniteSetTheorems, SequenceTheorems, WellFoundedInduction, TLAPS

-----------------------------------------------------------------------------
(***************************************************************************)
(* Proofs about the connection pool, for any connections, sockets, URLs    *)
(* and limits.  PoolInv is inductive: what an event of a socket may do     *)
(* rests on the socket having one owner (SocketsOwned), and that nothing   *)
(* waits while connected on a connected connection having its socket.      *)
(***************************************************************************)

-----------------------------------------------------------------------------
(* The pieces of the handlers                                              *)

\* The sockets in use after close was called on some of them
LEMMA ClosingType ==
  ASSUME TypeOK, NEW C \in SUBSET Connections
  PROVE  /\ SocketsClosing(C) \in [Sockets -> SockStates]
         /\ SocketsDropped(C) \in [Connections -> Sockets \cup {NoSocket}]
         /\ \A s \in Sockets :
              /\ SocketsClosing(C)[s] # "idle" <=> sock[s] # "idle"
              /\ Live(s) <=> SocketsClosing(C)[s] \in
                               {"connecting", "aborting", "open", "closing"}
              /\ (\A c \in C : ws[c] # s) => SocketsClosing(C)[s] = sock[s]
BY DEF TypeOK, SocketsClosing, SocketsDropped, Closing, SockStates, Live

\* Removing some connections takes at most as many from the pool.
LEMMA Removing ==
  ASSUME NEW S \in SUBSET Connections, NEW C \in SUBSET Connections
  PROVE  /\ IsFiniteSet(S) /\ IsFiniteSet(C) /\ IsFiniteSet(S \ C)
         /\ Cardinality(S) \in Nat /\ Cardinality(C) \in Nat
         /\ Cardinality(S \ C) \in Nat
         /\ Cardinality(S \ C) <= Cardinality(S)
         /\ Cardinality(S) - Cardinality(C) <= Cardinality(S \ C)
         /\ C \subseteq S =>
              Cardinality(S \ C) = Cardinality(S) - Cardinality(C)
<1>1. IsFiniteSet(S) /\ IsFiniteSet(C) /\ IsFiniteSet(S \ C)
  BY ConstantsAssumption, FS_Subset
<1>2. /\ Cardinality(S) \in Nat /\ Cardinality(C) \in Nat
      /\ Cardinality(S \ C) \in Nat
  BY <1>1, FS_CardinalityType
<1>3. /\ Cardinality(S \ C) = Cardinality(S) - Cardinality(S \cap C)
      /\ IsFiniteSet(S \cap C)
  BY <1>1, FS_Difference
<1>4. /\ Cardinality(S \cap C) <= Cardinality(C)
      /\ Cardinality(S \cap C) \in Nat
  BY <1>1, <1>3, FS_Subset, FS_CardinalityType
<1>5. C \subseteq S => S \cap C = C
  OBVIOUS
<1> QED
  BY <1>1, <1>2, <1>3, <1>4, <1>5

\* handleReconnect keeps the types; a connection it leaves in the pool has a
\* timer and reconnects, and it counts down at least as far as it removes.
LEMMA Reconnecting ==
  ASSUME PoolInv, NEW C \in SUBSET Connections, NEW st \in States,
         HandleReconnect(C, st)
  PROVE  /\ connections' \in SUBSET connections
         /\ state' \in [Connections -> States]
         /\ attempts' \in [Connections -> 0..MaxAttempts]
         /\ timers' \in [Connections -> 0..MaxTimers]
         /\ total' \in Int
         /\ \A c \in C : c \in connections' =>
              timers'[c] > 0 /\ state'[c] = "reconnecting"
         /\ \A c \in C : state'[c] \in {st, "reconnecting"}
         /\ \A c \in Connections \ C :
              /\ state'[c] = state[c] /\ timers'[c] = timers[c]
              /\ c \in connections' <=> c \in connections
         /\ total' <= Cardinality(connections')
         /\ Cardinality(connections') <= MaxConnections
<1> DEFINE out == {c \in C : attempts[c] >= MaxAttempts}
<1>1. TypeOK /\ CountedAtMost
  BY DEF PoolInv
<1>2. /\ connections' = connections \ out
      /\ total' = total - Cardinality(out)
  BY DEF HandleReconnect
<1>3. /\ state' = [c \in Connections |->
                     IF c \in out THEN st
                     ELSE IF c \in C THEN "reconnecting" ELSE state[c]]
      /\ attempts' = [c \in Connections |->
                        IF c \in C \ out THEN attempts[c] + 1 ELSE attempts[c]]
      /\ timers' = [c \in Connections |->
                      IF c \in C \ out THEN timers[c] + 1 ELSE timers[c]]
      /\ \A c \in C : timers'[c] <= MaxTimers
  BY DEF HandleReconnect
<1>4. state' \in [Connections -> States]
  BY <1>1, <1>3 DEF TypeOK, States
<1>5. attempts' \in [Connections -> 0..MaxAttempts]
  BY <1>1, <1>3, ConstantsAssumption DEF TypeOK
<1>6. timers' \in [Connections -> 0..MaxTimers]
  <2>1. ASSUME NEW c \in Connections PROVE timers'[c] \in 0..MaxTimers
    <3>1. timers[c] \in Nat /\ timers[c] <= MaxTimers /\ MaxTimers \in Nat
      BY <1>1, ConstantsAssumption DEF TypeOK
    <3>2. CASE c \in C \ out
      BY <1>3, <3>1, <3>2
    <3>3. CASE c \notin C \ out
      BY <1>3, <3>1, <3>3
    <3> QED
      BY <3>2, <3>3
  <2> QED
    BY <1>3, <2>1
<1>7. /\ total \in Int
      /\ total <= Cardinality(connections)
      /\ Cardinality(connections) <= MaxConnections
      /\ MaxConnections \in Nat
  BY <1>1, ConstantsAssumption DEF TypeOK, CountedAtMost
<1>8. /\ Cardinality(connections) \in Nat /\ Cardinality(out) \in Nat
      /\ Cardinality(connections') \in Nat
      /\ Cardinality(connections') <= Cardinality(connections)
      /\ Cardinality(connections) - Cardinality(out)
           <= Cardinality(connections')
  BY <1>1, <1>2, Removing DEF TypeOK
<1>9. /\ total' \in Int
      /\ total' <= Cardinality(connections')
      /\ Cardinality(connections') <= MaxConnections
  BY <1>2, <1>7, <1>8
<1>10. \A c \in C : c \in connections' =>
         timers'[c] > 0 /\ state'[c] = "reconnecting"
  BY <1>1, <1>2, <1>3, ConstantsAssumption DEF TypeOK
<1> HIDE DEF out
<1>11. out \subseteq C
  BY DEF out
<1> QED
  BY <1>1, <1>2, <1>3, <1>4, <1>5, <1>6, <1>9, <1>10, <1>11 DEF TypeOK

\* What waits and went out does not depend on the sockets, as long as nothing
\* that waits becomes connected.
LEMMA OrderKept ==
  ASSUME PoolInv, UNCHANGED messages,
         NEW N \in SUBSET Connections,
         connections' \subseteq connections \cup N,
         \A c \in N : state'[c] # "connected",
         \A c \in connections : state'[c] = "connected" =>
                                state[c] = "connected"
  PROVE  /\ SentInOrder'
         /\ \A c \in Connections :
              \A m \in written'[c] \cup Members(pending'[c]) : m < next'
BY DEF PoolInv, SentInOrder, InThePast, Members, messages

-----------------------------------------------------------------------------
(* Every operation keeps the invariant                                     *)

\* The initial state satisfies the invariant.
LEMMA InitInv == Init => PoolInv
<1> SUFFICES ASSUME Init PROVE PoolInv
  OBVIOUS
<1>1. (CHOOSE u \in Urls : TRUE) \in Urls
  BY ConstantsAssumption
<1>2. TypeOK
  <2>1. pending \in [Connections -> Seq(MsgIds)]
    BY DEF Init
  <2>2. next \in 1..(MaxMsgs + 1) /\ total \in Int
    BY ConstantsAssumption DEF Init
  <2>3. /\ attempts \in [Connections -> 0..MaxAttempts]
        /\ timers \in [Connections -> 0..MaxTimers]
    BY ConstantsAssumption DEF Init
  <2> QED
    BY <1>1, <2>1, <2>2, <2>3 DEF Init, TypeOK, States, SockStates
<1>3. Cardinality({}) = 0
  BY FS_EmptySet
<1>4. CountedAtMost
  BY <1>3, ConstantsAssumption DEF Init, CountedAtMost
<1> QED
  BY <1>2, <1>4 DEF Init, PoolInv, SocketsOwned, InThePast, ConnectedHasSocket,
     StillTrying, SentInOrder, Members

\* close, of connections of the pool
LEMMA CloseStep ==
  ASSUME PoolInv, NEW C \in SUBSET connections, CloseThem(C),
         running' \in BOOLEAN
  PROVE  PoolInv'
<1>1. /\ TypeOK /\ SocketsOwned /\ InThePast /\ ConnectedHasSocket
      /\ StillTrying /\ SentInOrder /\ CountedAtMost
  BY DEF PoolInv
<1>2. C \in SUBSET Connections /\ connections \in SUBSET Connections
  BY <1>1 DEF TypeOK
<1>3. /\ connections' = connections \ C
      /\ total' = total - Cardinality(C)
      /\ state' = [c \in Connections |-> IF c \in C THEN "disconnected"
                                         ELSE state[c]]
      /\ sock' = SocketsClosing(C)
      /\ ws' = SocketsDropped(C)
      /\ UNCHANGED <<url, attempts, timers, owner, messages>>
  BY DEF CloseThem
<1>4. /\ Cardinality(C) \in Nat /\ Cardinality(connections) \in Nat
      /\ Cardinality(connections') = Cardinality(connections) - Cardinality(C)
  BY <1>2, <1>3, Removing
<1>5. TypeOK'
  BY <1>1, <1>2, <1>3, <1>4, ClosingType DEF TypeOK, States, messages
<1>6. CountedAtMost'
  BY <1>1, <1>3, <1>4, ConstantsAssumption DEF CountedAtMost, TypeOK
<1>7. \A c \in Connections \ C : ws'[c] = ws[c] /\ state'[c] = state[c]
  BY <1>3 DEF SocketsDropped
<1>8. \A c \in C : ws'[c] = NoSocket /\ state'[c] = "disconnected"
  BY <1>2, <1>3 DEF SocketsDropped
<1>9. \A c \in Connections \ C : ws[c] # NoSocket => sock'[ws[c]] = sock[ws[c]]
  <2> SUFFICES ASSUME NEW c \in Connections \ C, ws[c] # NoSocket
               PROVE  sock'[ws[c]] = sock[ws[c]]
    OBVIOUS
  <2>1. ws[c] \in Sockets /\ owner[ws[c]] = c
    BY <1>1 DEF TypeOK, SocketsOwned
  <2>2. \A d \in C : ws[d] # ws[c]
    BY <1>1, <1>2, <2>1 DEF SocketsOwned, TypeOK
  <2> QED
    BY <1>1, <1>2, <1>3, <2>1, <2>2, ClosingType
<1>10. \A s \in Sockets : /\ sock'[s] # "idle" <=> sock[s] # "idle"
                          /\ Live(s) => Live(s)'
  BY <1>1, <1>2, <1>3, ClosingType DEF Live
<1>11. SocketsOwned'
  BY <1>1, <1>3, <1>7, <1>8, <1>9, <1>10 DEF SocketsOwned
<1>12. ConnectedHasSocket'
  BY <1>1, <1>3, <1>7, <1>8, <1>9 DEF ConnectedHasSocket
<1>13. StillTrying'
  BY <1>1, <1>2, <1>3, <1>7, <1>10 DEF StillTrying
<1>14. /\ SentInOrder'
       /\ \A c \in Connections :
            \A m \in written'[c] \cup Members(pending'[c]) : m < next'
  BY <1>2, <1>3, <1>7, <1>8, OrderKept
<1>15. InThePast'
  BY <1>1, <1>2, <1>3, <1>7, <1>14 DEF InThePast
<1> QED
  BY <1>5, <1>6, <1>11, <1>12, <1>13, <1>14, <1>15 DEF PoolInv

\* A new connection has a socket of its own that was not in use, and there was
\* room for it.
LEMMA AcquireStep ==
  ASSUME PoolInv, NEW c \in Connections, NEW u \in Urls, NEW s \in Sockets,
         NEW idle \in SUBSET Evictable, Acquire(c, u, s, idle)
  PROVE  PoolInv'
<1>1. /\ TypeOK /\ SocketsOwned /\ InThePast /\ ConnectedHasSocket
      /\ StillTrying /\ SentInOrder /\ CountedAtMost
  BY DEF PoolInv
<1>2. idle \in SUBSET connections /\ connections \in SUBSET Connections
  BY <1>1 DEF TypeOK, Evictable
<1>3. c \notin connections
  BY <1>1 DEF InThePast, Acquire
<1> DEFINE kept == connections \ idle
<1>4. /\ connections' = kept \cup {c}
      /\ total' = total - Cardinality(idle) + 1
      /\ Cardinality(kept) < MaxConnections
      /\ url' = [url EXCEPT ![c] = u]
      /\ state' = [d \in Connections |->
                     IF d = c THEN "connecting"
                     ELSE IF d \in idle THEN "disconnected" ELSE state[d]]
      /\ sock' = [SocketsClosing(idle) EXCEPT ![s] = "connecting"]
      /\ ws' = SocketsDropped(idle)
      /\ owner' = [owner EXCEPT ![s] = c]
      /\ sock[s] \in {"idle", "closed"}
      /\ UNCHANGED <<attempts, timers, messages, running>>
  BY DEF Acquire, CanBeNew
<1>5. /\ Cardinality(idle) \in Nat /\ Cardinality(connections) \in Nat
      /\ Cardinality(kept) = Cardinality(connections) - Cardinality(idle)
      /\ IsFiniteSet(kept)
  BY <1>2, Removing
<1>6. Cardinality(connections') = Cardinality(kept) + 1
  BY <1>3, <1>4, <1>5, FS_AddElement
<1>7. CountedAtMost'
  BY <1>1, <1>4, <1>5, <1>6, ConstantsAssumption DEF CountedAtMost, TypeOK
<1>8. TypeOK'
  <2>1. /\ connections' \in SUBSET Connections
        /\ total' \in Int
    BY <1>1, <1>2, <1>4, <1>5 DEF TypeOK
  <2>2. /\ sock' \in [Sockets -> SockStates]
        /\ ws' \in [Connections -> Sockets \cup {NoSocket}]
    BY <1>1, <1>2, <1>4, ClosingType DEF SockStates
  <2> QED
    BY <1>1, <1>4, <2>1, <2>2 DEF TypeOK, States, messages
<1>9. \A d \in Connections : d # c /\ d \notin idle =>
        ws'[d] = ws[d] /\ state'[d] = state[d]
  BY <1>4 DEF SocketsDropped
<1>10. \A d \in idle : ws'[d] = NoSocket /\ state'[d] # "connected"
  BY <1>2, <1>4 DEF SocketsDropped
<1>11. state'[c] = "connecting" /\ ws'[c] = ws[c]
  BY <1>2, <1>3, <1>4 DEF SocketsDropped
<1>12. \A d \in Connections \ idle : ws[d] # NoSocket =>
         /\ ws[d] # s
         /\ sock'[ws[d]] = sock[ws[d]]
         /\ owner'[ws[d]] = owner[ws[d]]
  <2> SUFFICES ASSUME NEW d \in Connections \ idle, ws[d] # NoSocket
               PROVE  /\ ws[d] # s
                      /\ sock'[ws[d]] = sock[ws[d]]
                      /\ owner'[ws[d]] = owner[ws[d]]
    OBVIOUS
  <2>1. /\ ws[d] \in Sockets /\ owner[ws[d]] = d
        /\ sock[ws[d]] \in {"open", "closing"}
    BY <1>1 DEF TypeOK, SocketsOwned
  <2>2. \A e \in idle : ws[e] # ws[d]
    BY <1>1, <1>2, <2>1 DEF SocketsOwned, TypeOK
  <2>3. SocketsClosing(idle)[ws[d]] = sock[ws[d]]
    BY <1>1, <1>2, <2>1, <2>2, ClosingType
  <2>4. ws[d] # s
    BY <1>4, <2>1
  <2> QED
    BY <1>1, <1>2, <1>4, <2>1, <2>3, <2>4, ClosingType DEF TypeOK
<1>13. \A t \in Sockets : t # s =>
         /\ owner'[t] = owner[t]
         /\ sock'[t] # "idle" <=> sock[t] # "idle"
         /\ Live(t) => Live(t)'
  BY <1>1, <1>2, <1>4, ClosingType DEF Live, TypeOK
<1>14. sock'[s] = "connecting" /\ owner'[s] = c
  BY <1>1, <1>2, <1>4, ClosingType DEF TypeOK
<1>15. SocketsOwned'
  BY <1>1, <1>9, <1>10, <1>11, <1>12, <1>13, <1>14 DEF SocketsOwned
<1>16. ConnectedHasSocket'
  <2> SUFFICES ASSUME NEW d \in Connections, state'[d] = "connected"
               PROVE  /\ ws'[d] # NoSocket
                      /\ owner'[ws'[d]] = d
                      /\ sock'[ws'[d]] \in {"open", "closing"}
    BY DEF ConnectedHasSocket
  <2>1. d # c /\ d \notin idle
    BY <1>10, <1>11
  <2> QED
    BY <1>1, <1>9, <1>12, <2>1 DEF ConnectedHasSocket
<1>17. StillTrying'
  <2> SUFFICES ASSUME NEW d \in connections', state'[d] # "connected"
               PROVE  \/ timers'[d] > 0 /\ state'[d] = "reconnecting"
                      \/ \E t \in Sockets : owner'[t] = d /\ Live(t)'
    BY DEF StillTrying
  <2>1. CASE d = c
    BY <1>14, <2>1 DEF Live
  <2>2. CASE d # c
    <3>1. /\ d \in connections /\ d \in Connections
          /\ state'[d] = state[d] /\ timers'[d] = timers[d]
      BY <1>2, <1>4, <1>9, <2>2
    <3>2. CASE timers[d] > 0 /\ state[d] = "reconnecting"
      BY <3>1, <3>2
    <3>3. CASE \E t \in Sockets : owner[t] = d /\ Live(t)
      <4>1. PICK t \in Sockets : owner[t] = d /\ Live(t)
        BY <3>3
      <4>2. t # s
        BY <1>4, <4>1 DEF Live
      <4> QED
        BY <1>13, <4>1, <4>2
    <3> QED
      BY <1>1, <3>1, <3>2, <3>3 DEF StillTrying
  <2> QED
    BY <2>1, <2>2
<1>18. \A d \in connections : state'[d] = "connected" => state[d] = "connected"
  BY <1>2, <1>9, <1>10, <1>11
<1>19. /\ SentInOrder'
       /\ \A d \in Connections :
            \A m \in written'[d] \cup Members(pending'[d]) : m < next'
  <2>1. /\ connections' \subseteq connections \cup {c}
        /\ \A d \in {c} : state'[d] # "connected"
        /\ {c} \in SUBSET Connections
        /\ UNCHANGED messages
    BY <1>4, <1>11
  <2> QED
    BY <1>18, <2>1, OrderKept
<1>20. InThePast'
  BY <1>1, <1>2, <1>4, <1>19 DEF InThePast
<1> QED
  BY <1>7, <1>8, <1>15, <1>16, <1>17, <1>19, <1>20 DEF PoolInv

\* Connections that reconnect or leave the pool, whatever happens to their own
\* sockets, as long as the socket of another stays what it is.
LEMMA ReconnectStep ==
  ASSUME PoolInv, NEW C \in SUBSET Connections,
         NEW st \in {"disconnected", "error"}, HandleReconnect(C, st),
         UNCHANGED <<url, owner, messages, running>>,
         sock' \in [Sockets -> SockStates],
         ws' \in [Connections -> Sockets \cup {NoSocket}],
         \A s \in Sockets : sock'[s] # "idle" <=> sock[s] # "idle",
         \A c \in Connections : ws'[c] # NoSocket =>
           ws'[c] = ws[c] /\ sock'[ws[c]] = sock[ws[c]],
         \A c \in Connections \ C : ws'[c] = ws[c],
         \A s \in Sockets : owner[s] \notin C /\ Live(s) => Live(s)'
  PROVE  PoolInv'
<1>1. /\ TypeOK /\ SocketsOwned /\ InThePast /\ ConnectedHasSocket
      /\ StillTrying /\ SentInOrder
  BY DEF PoolInv
<1>2. st \in States
  BY DEF States
<1>3. /\ connections' \in SUBSET connections
      /\ state' \in [Connections -> States]
      /\ attempts' \in [Connections -> 0..MaxAttempts]
      /\ timers' \in [Connections -> 0..MaxTimers]
      /\ total' \in Int
      /\ \A c \in C : c \in connections' =>
           timers'[c] > 0 /\ state'[c] = "reconnecting"
      /\ \A c \in C : state'[c] \in {st, "reconnecting"}
      /\ \A c \in Connections \ C :
           /\ state'[c] = state[c] /\ timers'[c] = timers[c]
           /\ c \in connections' <=> c \in connections
      /\ total' <= Cardinality(connections')
      /\ Cardinality(connections') <= MaxConnections
  BY <1>2, Reconnecting
<1>4. TypeOK'
  BY <1>1, <1>3 DEF TypeOK, messages
<1>5. SocketsOwned'
  BY <1>1 DEF SocketsOwned, TypeOK
<1>6. ConnectedHasSocket'
  <2> SUFFICES ASSUME NEW c \in Connections, state'[c] = "connected"
               PROVE  /\ ws'[c] # NoSocket
                      /\ owner'[ws'[c]] = c
                      /\ sock'[ws'[c]] \in {"open", "closing"}
    BY DEF ConnectedHasSocket
  <2>1. c \notin C
    BY <1>3
  <2>2. state[c] = "connected" /\ ws'[c] = ws[c]
    BY <1>3, <2>1
  <2> QED
    BY <1>1, <2>2 DEF ConnectedHasSocket
<1>7. StillTrying'
  <2> SUFFICES ASSUME NEW c \in connections', state'[c] # "connected", c \notin C
               PROVE  \/ timers'[c] > 0 /\ state'[c] = "reconnecting"
                      \/ \E s \in Sockets : owner'[s] = c /\ Live(s)'
    BY <1>3 DEF StillTrying
  <2>1. /\ c \in connections /\ c \in Connections
        /\ state'[c] = state[c] /\ timers'[c] = timers[c]
    BY <1>1, <1>3 DEF TypeOK
  <2> QED
    BY <1>1, <2>1 DEF StillTrying
<1>8. \A c \in connections : state'[c] = "connected" => state[c] = "connected"
  BY <1>1, <1>3 DEF TypeOK
<1>9. /\ SentInOrder'
      /\ \A c \in Connections :
           \A m \in written'[c] \cup Members(pending'[c]) : m < next'
  <2>1. /\ connections' \subseteq connections \cup {}
        /\ \A c \in {} : state'[c] # "connected"
        /\ {} \in SUBSET Connections
    BY <1>3
  <2> QED
    BY <1>8, <2>1, OrderKept
<1>10. InThePast'
  BY <1>1, <1>3, <1>9 DEF InThePast, TypeOK
<1> QED
  BY <1>3, <1>4, <1>5, <1>6, <1>7, <1>9, <1>10 DEF PoolInv, CountedAtMost

\* A socket in use belongs to a connection, and only that connection keeps it.
LEMMA OwnSocket ==
  ASSUME PoolInv, NEW s \in Sockets, sock[s] # "idle"
  PROVE  /\ owner[s] \in Connections
         /\ \A c \in Connections : ws[c] = s => c = owner[s]
         /\ sock[s] \notin {"open", "closing"} =>
              \A c \in Connections : ws[c] # s
<1>1. TypeOK /\ SocketsOwned
  BY DEF PoolInv
<1>2. s # NoSocket
  BY ConstantsAssumption
<1> QED
  BY <1>1, <1>2 DEF SocketsOwned, TypeOK

\* close of a socket: its connection forgets the socket it has by now.
LEMMA ClosedStep ==
  ASSUME PoolInv, NEW s \in Sockets, Closed(s)
  PROVE  PoolInv'
<1> DEFINE c == owner[s]
<1>1. TypeOK
  BY DEF PoolInv
<1>2. /\ sock[s] # "idle"
      /\ sock' = [sock EXCEPT ![s] = "closed"]
      /\ ws' = [ws EXCEPT ![c] = NoSocket]
      /\ HandleReconnect({c}, "disconnected")
      /\ UNCHANGED <<url, owner, messages, running>>
  BY DEF Closed, Live
<1>3. c \in Connections /\ \A d \in Connections : ws[d] = s => d = c
  BY <1>2, OwnSocket
<1>4. /\ sock' \in [Sockets -> SockStates]
      /\ ws' \in [Connections -> Sockets \cup {NoSocket}]
      /\ \A t \in Sockets : sock'[t] # "idle" <=> sock[t] # "idle"
  BY <1>1, <1>2 DEF TypeOK, SockStates
<1>5. \A d \in Connections : ws'[d] # NoSocket =>
        ws'[d] = ws[d] /\ sock'[ws[d]] = sock[ws[d]]
  BY <1>1, <1>2, <1>3 DEF TypeOK
<1>6. /\ \A d \in Connections \ {c} : ws'[d] = ws[d]
      /\ \A t \in Sockets : owner[t] \notin {c} /\ Live(t) => Live(t)'
  BY <1>1, <1>2 DEF TypeOK, Live
<1> HIDE DEF c
<1>7. {c} \in SUBSET Connections
  BY <1>3
<1> QED
  BY <1>2, <1>4, <1>5, <1>6, <1>7, ReconnectStep

\* The connection timeout acts on a socket that no connection keeps yet.
LEMMA TimedOutStep ==
  ASSUME PoolInv, NEW s \in Sockets, TimedOut(s)
  PROVE  PoolInv'
<1> DEFINE c == owner[s]
<1>1. TypeOK
  BY DEF PoolInv
<1>2. /\ sock[s] = "connecting"
      /\ sock' = [sock EXCEPT ![s] = "aborting"]
      /\ HandleReconnect({c}, "error")
      /\ UNCHANGED <<url, ws, owner, messages, running>>
  BY DEF TimedOut
<1>3. c \in Connections /\ \A d \in Connections : ws[d] # s
  BY <1>2, OwnSocket
<1>4. /\ sock' \in [Sockets -> SockStates]
      /\ ws' \in [Connections -> Sockets \cup {NoSocket}]
      /\ \A t \in Sockets : sock'[t] # "idle" <=> sock[t] # "idle"
  BY <1>1, <1>2 DEF TypeOK, SockStates
<1>5. \A d \in Connections : ws'[d] # NoSocket =>
        ws'[d] = ws[d] /\ sock'[ws[d]] = sock[ws[d]]
  BY <1>1, <1>2, <1>3 DEF TypeOK
<1>6. /\ \A d \in Connections \ {c} : ws'[d] = ws[d]
      /\ \A t \in Sockets : owner[t] \notin {c} /\ Live(t) => Live(t)'
  BY <1>1, <1>2 DEF TypeOK, Live
<1> HIDE DEF c
<1>7. {c} \in SUBSET Connections
  BY <1>3
<1> QED
  BY <1>2, <1>4, <1>5, <1>6, <1>7, ReconnectStep

\* A heartbeat leaves all sockets alone.
LEMMA HeartbeatStep ==
  ASSUME PoolInv, NEW late \in SUBSET connections, Heartbeat(late)
  PROVE  PoolInv'
<1>1. TypeOK
  BY DEF PoolInv
<1>2. /\ HandleReconnect(late, "error")
      /\ UNCHANGED <<url, ws, sock, owner, messages, running>>
  BY DEF Heartbeat, sockets
<1>3. /\ late \in SUBSET Connections
      /\ sock' \in [Sockets -> SockStates]
      /\ ws' \in [Connections -> Sockets \cup {NoSocket}]
  BY <1>1, <1>2 DEF TypeOK
<1>4. \A t \in Sockets : Live(t) => Live(t)'
  BY <1>2 DEF Live
<1> QED
  BY <1>2, <1>3, <1>4, ReconnectStep

\* The members of a sequence, and of one with one more element
LEMMA MembersOf ==
  ASSUME NEW S, NEW q \in Seq(S), NEW e
  PROVE  /\ Members(q) \subseteq S
         /\ Members(Append(q, e)) = Members(q) \cup {e}
<1>1. DOMAIN q = 1..Len(q) /\ \A i \in 1..Len(q) : q[i] \in S
  OBVIOUS
<1>2. /\ DOMAIN Append(q, e) = 1..(Len(q) + 1)
      /\ \A i \in 1..Len(q) : Append(q, e)[i] = q[i]
      /\ Append(q, e)[Len(q) + 1] = e
      /\ Len(q) \in Nat
  OBVIOUS
<1>3. 1..(Len(q) + 1) = 1..Len(q) \cup {Len(q) + 1}
  BY <1>2
<1> QED
  BY <1>1, <1>2, <1>3 DEF Members

\* All messages of a connection were sent before the next.
LEMMA MessagesBefore ==
  ASSUME PoolInv, NEW c \in Connections,
         NEW m \in written[c] \cup Members(pending[c])
  PROVE  m \in MsgIds /\ m \in Nat /\ m < next
<1>1. TypeOK /\ InThePast
  BY DEF PoolInv
<1>2. Members(pending[c]) \subseteq MsgIds /\ written[c] \subseteq MsgIds
  BY <1>1, MembersOf DEF TypeOK
<1> QED
  BY <1>1, <1>2, ConstantsAssumption DEF InThePast, MsgIds

\* A message that is sent is younger than all others.
LEMMA SendStep ==
  ASSUME PoolInv, NEW c \in Connections, Send(c)
  PROVE  PoolInv'
<1>1. /\ TypeOK /\ SocketsOwned /\ InThePast /\ ConnectedHasSocket
      /\ StillTrying /\ SentInOrder /\ CountedAtMost
  BY DEF PoolInv
<1>2. /\ c \in connections
      /\ next \in MsgIds /\ next' = next + 1
      /\ next' \in 1..(MaxMsgs + 1)
      /\ UNCHANGED <<connection, sockets, running>>
  BY <1>1, ConstantsAssumption DEF Send, TypeOK, MsgIds
<1>3. UNCHANGED <<connections, url, state, attempts, timers, total, ws, sock,
                  owner>>
  BY <1>2 DEF connection, sockets
<1>4. ConnectedHasSocket' /\ SocketsOwned' /\ CountedAtMost'
  BY <1>1, <1>3 DEF ConnectedHasSocket, SocketsOwned, CountedAtMost
<1>5. StillTrying'
  BY <1>1, <1>3 DEF StillTrying, Live
<1>6. CASE Connected(c)
  <2>1. /\ written' = [written EXCEPT ![c] = @ \cup {next}]
        /\ UNCHANGED pending
    BY <1>6 DEF Send
  <2>2. pending[c] = <<>>
    BY <1>1, <1>2, <1>6 DEF SentInOrder, Connected
  <2>3. TypeOK'
    BY <1>1, <1>2, <1>3, <2>1 DEF TypeOK
  <2>4. \A d \in Connections : \A m \in written[d] \cup Members(pending[d]) :
          m \in Nat /\ m < next
    BY MessagesBefore
  <2>5. InThePast'
    BY <1>1, <1>2, <1>3, <2>1, <2>4 DEF InThePast, TypeOK, MsgIds
  <2>6. Members(pending[c]) = {}
    BY <2>2 DEF Members
  <2>7. SentInOrder'
    BY <1>1, <1>3, <2>1, <2>2, <2>6 DEF SentInOrder, TypeOK
  <2> QED
    BY <1>4, <1>5, <2>3, <2>5, <2>7 DEF PoolInv
<1>7. CASE ~Connected(c)
  <2>1. /\ pending' = [pending EXCEPT ![c] = Append(@, next)]
        /\ UNCHANGED written
    BY <1>7 DEF Send
  <2>2. state[c] # "connected"
    BY <1>1, <1>7 DEF ConnectedHasSocket, Connected
  <2>3. TypeOK'
    BY <1>1, <1>2, <1>3, <2>1 DEF TypeOK
  <2>4. \A d \in Connections : \A m \in written[d] \cup Members(pending[d]) :
          m \in Nat /\ m < next
    BY MessagesBefore
  <2>5. /\ Members(pending'[c]) = Members(pending[c]) \cup {next}
        /\ \A d \in Connections : d # c => pending'[d] = pending[d]
    BY <1>1, <1>2, <2>1, MembersOf DEF TypeOK
  <2>6. InThePast'
    BY <1>1, <1>2, <1>3, <2>1, <2>4, <2>5 DEF InThePast, TypeOK, MsgIds
  <2>7. \A i, j \in DOMAIN pending'[c] :
          i < j => pending'[c][i] < pending'[c][j]
    <3> SUFFICES ASSUME NEW i \in DOMAIN pending'[c],
                        NEW j \in DOMAIN pending'[c], i < j
                 PROVE  pending'[c][i] < pending'[c][j]
      OBVIOUS
    <3>1. /\ pending[c] \in Seq(MsgIds)
          /\ pending'[c] = Append(pending[c], next)
      BY <1>1, <2>1 DEF TypeOK
    <3>2. /\ i \in DOMAIN pending[c] /\ pending'[c][i] = pending[c][i]
          /\ pending[c][i] \in Members(pending[c])
      BY <3>1 DEF Members
    <3>3. CASE j \in DOMAIN pending[c]
      BY <1>1, <3>1, <3>2, <3>3 DEF SentInOrder
    <3>4. CASE j \notin DOMAIN pending[c]
      <4>1. pending'[c][j] = next
        BY <3>1, <3>4
      <4> QED
        BY <2>4, <3>2, <4>1
    <3> QED
      BY <3>3, <3>4
  <2>8. \A m \in written[c], w \in Members(pending'[c]) : m < w
    BY <1>1, <2>4, <2>5 DEF SentInOrder
  <2>9. SentInOrder'
    BY <1>1, <1>3, <2>1, <2>2, <2>5, <2>7, <2>8 DEF SentInOrder
  <2> QED
    BY <1>4, <1>5, <2>3, <2>6, <2>9 DEF PoolInv
<1> QED
  BY <1>6, <1>7

\* A socket that opens becomes the one of its connection, which is then
\* connected with nothing waiting if it is in the pool.
LEMMA OpenedStep ==
  ASSUME PoolInv, NEW s \in Sockets, Opened(s)
  PROVE  PoolInv'
<1> DEFINE c == owner[s]
<1>1. /\ TypeOK /\ SocketsOwned /\ InThePast /\ ConnectedHasSocket
      /\ StillTrying /\ SentInOrder /\ CountedAtMost
  BY DEF PoolInv
<1>2. /\ sock[s] = "connecting"
      /\ sock' = [sock EXCEPT ![s] = "open"]
      /\ ws' = [ws EXCEPT ![c] = s]
      /\ state' = [state EXCEPT ![c] = "connected"]
      /\ attempts' = [attempts EXCEPT ![c] = 0]
      /\ UNCHANGED <<connections, url, timers, total, owner, next, running>>
  BY DEF Opened
<1>3. c \in Connections /\ \A d \in Connections : ws[d] # s
  BY <1>2, OwnSocket
<1>4. \/ /\ c \in connections
         /\ written' = [written EXCEPT ![c] = @ \cup Members(pending[c])]
         /\ pending' = [pending EXCEPT ![c] = <<>>]
      \/ c \notin connections /\ UNCHANGED <<written, pending>>
  BY DEF Opened
<1>5. \A d \in Connections : \A m \in written[d] \cup Members(pending[d]) :
        m \in MsgIds /\ m \in Nat /\ m < next
  BY MessagesBefore
<1> HIDE DEF c
<1>6. Members(<<>>) = {}
  BY DEF Members
<1>7. /\ written' \in [Connections -> SUBSET MsgIds]
      /\ pending' \in [Connections -> Seq(MsgIds)]
  <2>1. Members(pending[c]) \subseteq MsgIds
    BY <1>3, <1>5
  <2>2. /\ written \in [Connections -> SUBSET MsgIds]
        /\ pending \in [Connections -> Seq(MsgIds)]
        /\ <<>> \in Seq(MsgIds)
    BY <1>1 DEF TypeOK
  <2> QED
    BY <1>4, <2>1, <2>2
<1>8. TypeOK'
  <2>1. attempts' \in [Connections -> 0..MaxAttempts]
    <3>1. 0 \in 0..MaxAttempts
      BY ConstantsAssumption
    <3> QED
      BY <1>1, <1>2, <3>1 DEF TypeOK
  <2>2. /\ sock' \in [Sockets -> SockStates]
        /\ ws' \in [Connections -> Sockets \cup {NoSocket}]
        /\ state' \in [Connections -> States]
    BY <1>1, <1>2 DEF TypeOK, States, SockStates
  <2> QED
    BY <1>1, <1>2, <1>7, <2>1, <2>2 DEF TypeOK
<1>9. SocketsOwned'
  BY <1>1, <1>2, <1>3 DEF SocketsOwned, TypeOK, c
<1>10. ConnectedHasSocket'
  <2> SUFFICES ASSUME NEW d \in Connections, state'[d] = "connected"
               PROVE  /\ ws'[d] # NoSocket
                      /\ owner'[ws'[d]] = d
                      /\ sock'[ws'[d]] \in {"open", "closing"}
    BY DEF ConnectedHasSocket
  <2>1. CASE d = c
    BY <1>1, <1>2, <1>3, <2>1, ConstantsAssumption DEF TypeOK, c
  <2>2. CASE d # c
    BY <1>1, <1>2, <1>3, <2>2 DEF TypeOK, ConnectedHasSocket
  <2> QED
    BY <2>1, <2>2
<1>11. StillTrying'
  <2> SUFFICES ASSUME NEW d \in connections', state'[d] # "connected"
               PROVE  \/ timers'[d] > 0 /\ state'[d] = "reconnecting"
                      \/ \E t \in Sockets : owner'[t] = d /\ Live(t)'
    BY DEF StillTrying
  <2>1. d # c /\ d \in connections /\ state'[d] = state[d]
    BY <1>1, <1>2 DEF TypeOK
  <2>2. \A t \in Sockets : Live(t) => Live(t)'
    BY <1>1, <1>2 DEF Live, TypeOK
  <2> QED
    BY <1>1, <1>2, <2>1, <2>2 DEF StillTrying
<1>12. \A d \in Connections : d # c =>
         /\ written'[d] = written[d] /\ pending'[d] = pending[d]
         /\ state'[d] = state[d]
  BY <1>1, <1>2, <1>4 DEF TypeOK
<1>13. \/ /\ c \in connections
          /\ written'[c] = written[c] \cup Members(pending[c])
          /\ pending'[c] = <<>>
       \/ /\ c \notin connections
          /\ written'[c] = written[c] /\ pending'[c] = pending[c]
  BY <1>1, <1>3, <1>4 DEF TypeOK
<1>14. InThePast'
  BY <1>1, <1>2, <1>3, <1>6, <1>12, <1>13 DEF InThePast, TypeOK
<1>15. SentInOrder'
  BY <1>1, <1>2, <1>3, <1>6, <1>12, <1>13 DEF SentInOrder
<1>16. CountedAtMost'
  BY <1>1, <1>2 DEF CountedAtMost
<1> QED
  BY <1>8, <1>9, <1>10, <1>11, <1>14, <1>15, <1>16 DEF PoolInv

\* The end of a connection is seen before its close event.
LEMMA PeerCloseStep ==
  ASSUME PoolInv, NEW s \in Sockets, PeerClose(s)
  PROVE  PoolInv'
<1>1. /\ TypeOK /\ SocketsOwned /\ InThePast /\ ConnectedHasSocket
      /\ StillTrying /\ SentInOrder /\ CountedAtMost
  BY DEF PoolInv
<1>2. /\ sock[s] = "open" /\ sock' = [sock EXCEPT ![s] = "closing"]
      /\ UNCHANGED <<connections, url, state, attempts, timers, total, ws,
                     owner, pending, next, written, running>>
  BY DEF PeerClose, connection, messages
<1>3. \A t \in Sockets : Live(t) => Live(t)'
  BY <1>1, <1>2 DEF Live, TypeOK
<1>4. TypeOK' /\ SocketsOwned' /\ ConnectedHasSocket'
  BY <1>1, <1>2 DEF TypeOK, SockStates, SocketsOwned, ConnectedHasSocket
<1>5. StillTrying'
  BY <1>1, <1>2, <1>3 DEF StillTrying
<1>6. InThePast' /\ SentInOrder' /\ CountedAtMost'
  BY <1>1, <1>2 DEF InThePast, SentInOrder, CountedAtMost, Members
<1> QED
  BY <1>4, <1>5, <1>6 DEF PoolInv

\* A reconnection timer gives its place to a socket.
LEMMA TimerStep ==
  ASSUME PoolInv, NEW c \in Connections, NEW s \in Sockets, Reconnect(c, s)
  PROVE  PoolInv'
<1>1. /\ TypeOK /\ SocketsOwned /\ InThePast /\ ConnectedHasSocket
      /\ StillTrying /\ SentInOrder /\ CountedAtMost
  BY DEF PoolInv
<1>2. /\ timers[c] > 0 /\ timers' = [timers EXCEPT ![c] = @ - 1]
      /\ UNCHANGED <<connections, url, state, attempts, total, ws, pending,
                     next, written, running>>
      /\ \/ /\ state[c] = "reconnecting"
            /\ sock[s] \in {"idle", "closed"}
            /\ sock' = [sock EXCEPT ![s] = "connecting"]
            /\ owner' = [owner EXCEPT ![s] = c]
         \/ state[c] # "reconnecting" /\ UNCHANGED <<sock, owner>>
  BY DEF Reconnect, CanBeNew, messages
<1>3. timers[c] - 1 \in 0..MaxTimers
  BY <1>1, <1>2, ConstantsAssumption DEF TypeOK
<1>4. TypeOK'
  <2>1. timers' \in [Connections -> 0..MaxTimers]
    BY <1>1, <1>2, <1>3 DEF TypeOK
  <2>2. /\ sock' \in [Sockets -> SockStates]
        /\ owner' \in [Sockets -> Connections \cup {NoConnection}]
    BY <1>1, <1>2 DEF TypeOK, SockStates
  <2> QED
    BY <1>1, <1>2, <2>1, <2>2 DEF TypeOK
<1>5. \A d \in Connections : ws[d] # NoSocket =>
        owner'[ws[d]] = owner[ws[d]] /\ sock'[ws[d]] = sock[ws[d]]
  <2> SUFFICES ASSUME NEW d \in Connections, ws[d] # NoSocket
               PROVE  /\ owner'[ws[d]] = owner[ws[d]]
                      /\ sock'[ws[d]] = sock[ws[d]]
    OBVIOUS
  <2>1. ws[d] \in Sockets /\ sock[ws[d]] \in {"open", "closing"}
    BY <1>1 DEF SocketsOwned, TypeOK
  <2>2. CASE state[c] = "reconnecting"
    <3>1. ws[d] # s
      BY <1>2, <2>1, <2>2
    <3> QED
      BY <1>1, <1>2, <2>1, <2>2, <3>1 DEF TypeOK
  <2>3. CASE state[c] # "reconnecting"
    BY <1>2, <2>3
  <2> QED
    BY <2>2, <2>3
<1>6. SocketsOwned' /\ ConnectedHasSocket'
  <2>1. \A t \in Sockets : sock'[t] # "idle" => owner'[t] \in Connections
    <3>1. CASE state[c] = "reconnecting"
      <4>1. /\ owner' = [owner EXCEPT ![s] = c]
            /\ sock' = [sock EXCEPT ![s] = "connecting"]
        BY <1>2, <3>1
      <4> QED
        BY <1>1, <4>1 DEF SocketsOwned, TypeOK
    <3>2. CASE state[c] # "reconnecting"
      BY <1>1, <1>2, <3>2 DEF SocketsOwned
    <3> QED
      BY <3>1, <3>2
  <2>2. SocketsOwned'
    BY <1>1, <1>2, <1>5, <2>1 DEF SocketsOwned
  <2> QED
    BY <1>1, <1>2, <1>5, <2>2 DEF ConnectedHasSocket
<1>7. StillTrying'
  <2> SUFFICES ASSUME NEW d \in connections, state[d] # "connected"
               PROVE  \/ timers'[d] > 0 /\ state[d] = "reconnecting"
                      \/ \E t \in Sockets : owner'[t] = d /\ Live(t)'
    BY <1>2 DEF StillTrying
  <2>1. CASE d = c /\ state[c] = "reconnecting"
    BY <1>1, <1>2, <2>1 DEF TypeOK, Live
  <2>2. CASE d # c /\ timers[d] > 0 /\ state[d] = "reconnecting"
    BY <1>1, <1>2, <2>2 DEF TypeOK
  <2>3. CASE \E t \in Sockets : owner[t] = d /\ Live(t)
    BY <1>1, <1>2, <2>3 DEF TypeOK, Live
  <2> QED
    BY <1>1, <2>1, <2>2, <2>3 DEF StillTrying
<1>8. InThePast' /\ SentInOrder' /\ CountedAtMost'
  BY <1>1, <1>2 DEF InThePast, SentInOrder, CountedAtMost, Members
<1> QED
  BY <1>4, <1>6, <1>7, <1>8 DEF PoolInv

\* A step that changes nothing that PoolInv mentions but the intervals
LEMMA IntervalStep ==
  ASSUME PoolInv, UNCHANGED <<connection, sockets, messages>>,
         running' \in BOOLEAN
  PROVE  PoolInv'
BY DEF PoolInv, TypeOK, SocketsOwned, InThePast, ConnectedHasSocket, Live,
   StillTrying, SentInOrder, CountedAtMost, Members, connection, sockets,
   messages

-----------------------------------------------------------------------------
(* The theorems                                                            *)

\* The inductive invariant of the pool.
THEOREM PoolInvariance == Spec => []PoolInv
<1>1. ASSUME PoolInv, [Next]_vars PROVE PoolInv'
  <2>1. TypeOK /\ connections \in SUBSET Connections
    BY <1>1 DEF PoolInv, TypeOK
  <2>2. running \in BOOLEAN
    BY <2>1 DEF TypeOK
  <2>3. ASSUME NEW c \in Connections, NEW u \in Urls, NEW s \in Sockets,
               NEW idle \in SUBSET Evictable, Acquire(c, u, s, idle)
        PROVE  PoolInv'
    BY <1>1, <2>3, AcquireStep
  <2>4. ASSUME NEW c \in Connections, Close(c) PROVE PoolInv'
    <3>1. {c} \in SUBSET connections /\ CloseThem({c}) /\ running' \in BOOLEAN
      BY <2>2, <2>4 DEF Close
    <3> QED
      BY <1>1, <3>1, CloseStep
  <2>5. CASE CloseAll
    <3>1. CloseThem(connections) /\ running' \in BOOLEAN
      BY <2>5 DEF CloseAll
    <3> QED
      BY <1>1, <3>1, CloseStep
  <2>6. ASSUME NEW idle \in SUBSET Evictable, EvictIdle(idle) PROVE PoolInv'
    <3>1. /\ idle \in SUBSET connections
          /\ CloseThem(idle) /\ running' \in BOOLEAN
      BY <2>2, <2>6 DEF EvictIdle, Evictable
    <3> QED
      BY <1>1, <3>1, CloseStep
  <2>7. CASE Start \/ Stop \/ UNCHANGED vars
    <3>1. UNCHANGED <<connection, sockets, messages>> /\ running' \in BOOLEAN
      BY <2>2, <2>7 DEF Start, Stop, vars
    <3> QED
      BY <1>1, <3>1, IntervalStep
  <2> QED
    BY <1>1, <2>3, <2>4, <2>5, <2>6, <2>7, SendStep, OpenedStep, ClosedStep,
       PeerCloseStep, TimedOutStep, TimerStep, HeartbeatStep DEF Next
<1> QED
  BY <1>1, InitInv, PTL DEF Spec

\* The pool keeps its types.
THEOREM PoolTypeCorrect == Spec => []TypeOK
BY PoolInvariance, PTL DEF PoolInv

\* A connected connection has its own open socket, whatever events of earlier
\* sockets arrive late.
THEOREM ConnectedMeansSocket == Spec => []ConnectedHasSocket
BY PoolInvariance, PTL DEF PoolInv

\* A connection in the pool is connected or still tries to be.
THEOREM PoolKeepsTrying == Spec => []StillTrying
BY PoolInvariance, PTL DEF PoolInv

\* The messages of a connection go out in order and once, over its
\* reconnections.
THEOREM PoolSendsInOrder == Spec => []SentInOrder
BY PoolInvariance, PTL DEF PoolInv

\* The count of connections never exceeds their number, nor that the maximum.
THEOREM PoolCount == Spec => []CountedAtMost
BY PoolInvariance, PTL DEF PoolInv

-----------------------------------------------------------------------------
(***************************************************************************)
(* Proofs about the start and stop of the node, for any number of calls of *)
(* either and any optional parts.  A stop that crossed no start is alone   *)
(* (StopsAlone), so what it has closed stays closed until it is done; and  *)
(* what may store has the storage open (OpenWhileUsed).                    *)
(***************************************************************************)

\* The calls of start that have registered handlers are finitely many.
LEMMA BegunStarts ==
  ASSUME NEW S \in SUBSET Starters, NEW s \in Starters, s \notin S
  PROVE  /\ Cardinality(S) \in Nat
         /\ Cardinality(S \cup {s}) = Cardinality(S) + 1
<1>1. IsFiniteSet(S)
  BY NodeAssumption, FS_Subset
<1> QED
  BY <1>1, FS_AddElement, FS_CardinalityType

Begun == {s \in Starters : startAt[s] \notin {"idle", "init"}}

\* As many handlers stay allowed when no start is taken back.
LEMMA HandlersAllowed ==
  ASSUME NodeTypeOK, Begun \subseteq Begun', handlers' = handlers
  PROVE  handlers' \in Nat /\ handlers' <= Cardinality(Begun')
<1>1. IsFiniteSet(Begun) /\ IsFiniteSet(Begun')
  BY NodeAssumption, FS_Subset DEF Begun
<1>2. Cardinality(Begun) \in Nat /\ Cardinality(Begun') \in Nat
      /\ Cardinality(Begun) <= Cardinality(Begun')
  BY <1>1, FS_Subset, FS_CardinalityType
<1> QED
  BY <1>2 DEF NodeTypeOK, Begun

\* What the invariant says of the state, without its history of messages.
NodeStateInv ==
  NodeTypeOK /\ MadeBeforeUse /\ StopsAlone /\ OpenWhileUsed /\ UpUntilStopped
  /\ StoppedIsDown /\ RunningIsUp /\ OneStops

LEMMA NodeParts ==
  NodeInv <=> NodeStateInv /\ RandomIdsAreNew /\ LostIsRepeated
BY DEF NodeInv, NodeStateInv

\* A call of start begins: the handlers, the retries and the first await.
LEMMA BeginStep ==
  ASSUME NodeStateInv, NEW s \in Starters, startAt[s] \in {"idle", "init"}, Begin(s),
         made', storageOpen' = storageOpen,
         startAt[s] = "idle" => nodeState = "initialized",
         nodeState' = "initialized",
         UNCHANGED <<closedOnce, stopAt, crossed, received>>
  PROVE  NodeStateInv'
<1> USE DEF NodeStateInv
<1>1. /\ handlers' = handlers + 1 /\ up' = up \cup {"retry"}
      /\ startAt' = [startAt EXCEPT ![s] = "client"]
      /\ startAt'[s] = "client"
      /\ \A r \in Starters : r # s => startAt'[r] = startAt[r]
      /\ storageOpen \/ crossed
      /\ crossed \/ nodeState \notin {"stopping", "stopped"}
  BY DEF Begin, StartBecomes, NodeTypeOK, OpenWhileUsed, StopsAlone, StartUnderWay
<1>2. handlers' \in Nat /\ handlers' <= Cardinality(Begun')
  <2>1. s \notin Begun /\ Begun' = Begun \cup {s}
    BY <1>1 DEF Begun
  <2>2. handlers \in Nat /\ handlers <= Cardinality(Begun)
    BY DEF NodeTypeOK, Begun
  <2>3. Cardinality(Begun) \in Nat /\ Cardinality(Begun') = Cardinality(Begun) + 1
    BY <2>1, BegunStarts DEF Begun
  <2> QED
    BY <1>1, <2>2, <2>3
<1>3. NodeTypeOK'
  BY <1>1, <1>2 DEF NodeTypeOK, Begun, StartUnderWay
<1>4. MadeBeforeUse'
  BY DEF MadeBeforeUse
<1>5. StopsAlone'
  BY <1>1 DEF StopsAlone, StopUnderWay
<1>6. OpenWhileUsed'
  BY <1>1 DEF OpenWhileUsed
<1>7. UpUntilStopped'
  BY <1>1 DEF UpUntilStopped
<1>8. StoppedIsDown' /\ RunningIsUp' /\ OneStops'
  BY <1>1 DEF StoppedIsDown, RunningIsUp, OneStops
<1> QED
  BY <1>3, <1>4, <1>5, <1>6, <1>7, <1>8

\* start, and init up to its await.
LEMMA StartNodeStep ==
  ASSUME NodeStateInv, NEW s \in Starters, StartNode(s)
  PROVE  NodeStateInv'
<1> USE DEF NodeStateInv
<1>1. CASE nodeState = "initialized"
  <2>1. made /\ Begin(s) /\ nodeState' = nodeState /\ storageOpen' = storageOpen
        /\ made' = made
    BY <1>1 DEF StartNode, MadeBeforeUse
  <2> QED
    BY <1>1, <2>1, BeginStep DEF StartNode
<1>2. CASE nodeState # "initialized"
  <2>1. /\ startAt[s] = "idle"
        /\ \/ /\ nodeState = "uninitialized" /\ nodeState' = "initializing"
              /\ storageOpen' = TRUE /\ startAt' = [startAt EXCEPT ![s] = "init"]
           \/ /\ nodeState' = nodeState /\ storageOpen' = storageOpen
              /\ startAt' = [startAt EXCEPT ![s] = "failed"]
        /\ UNCHANGED <<made, up, handlers, closedOnce, stopAt, crossed, received>>
    BY <1>2 DEF StartNode, StartBecomes
  <2>2. Begun \subseteq Begun'
    BY <2>1 DEF Begun, NodeTypeOK
  <2>3. handlers' \in Nat /\ handlers' <= Cardinality(Begun')
    BY <2>1, <2>2, HandlersAllowed
  <2>4. NodeTypeOK'
    BY <2>1, <2>3 DEF NodeTypeOK, Begun, StartUnderWay
  <2>5. MadeBeforeUse' /\ OpenWhileUsed' /\ UpUntilStopped'
    BY <2>1, NodeAssumption DEF NodeTypeOK, MadeBeforeUse, OpenWhileUsed, UpUntilStopped, StartUnderWay
  <2>6. StopsAlone'
    BY <2>1, NodeAssumption DEF NodeTypeOK, StopsAlone, StartUnderWay, StopUnderWay
  <2>7. StoppedIsDown' /\ RunningIsUp' /\ OneStops'
    BY <2>1 DEF StoppedIsDown, RunningIsUp, OneStops
  <2> QED
    BY <2>4, <2>5, <2>6, <2>7
<1> QED
  BY <1>1, <1>2

\* A start that goes on or ends, and what it may bring up.
LEMMA StartGoesOn ==
  ASSUME NodeStateInv, NEW s \in Starters, startAt[s] \in StartUnderWay,
         NEW at \in {"done", "failed"} \cup (StartUnderWay \ {"init"}),
         startAt[s] = "init" => at = "failed",
         startAt' = [startAt EXCEPT ![s] = at],
         up \subseteq up', up' \subseteq up \cup {"client", "health"} \cup Optional,
         startAt[s] = "init" => up' = up,
         \/ nodeState' = nodeState
         \/ nodeState' = "running" /\ "health" \in up' /\ startAt[s] # "init",
         UNCHANGED <<made, storageOpen, closedOnce, handlers, stopAt, crossed, received>>
  PROVE  NodeStateInv'
<1> USE DEF NodeStateInv
<1>1. /\ startAt'[s] = at /\ at # "init" /\ at # "idle"
      /\ \A r \in Starters : r # s => startAt'[r] = startAt[r]
      /\ storageOpen \/ crossed
      /\ crossed \/ nodeState \notin {"stopping", "stopped"}
      /\ at \in StartUnderWay => startAt[s] \in StartUnderWay \ {"init"}
      /\ startAt[s] # "init" => made
  BY NodeAssumption DEF NodeTypeOK, OpenWhileUsed, StopsAlone, MadeBeforeUse, StartUnderWay
<1>2. handlers' \in Nat /\ handlers' <= Cardinality(Begun')
  <2>1. Begun \subseteq Begun'
    BY <1>1 DEF Begun
  <2> QED
    BY <2>1, HandlersAllowed
<1>3. NodeTypeOK'
  BY <1>1, <1>2 DEF NodeTypeOK, Begun
<1>4. MadeBeforeUse'
  BY <1>1 DEF MadeBeforeUse
<1>5. StopsAlone'
  BY <1>1 DEF StopsAlone, StopUnderWay
<1>6. OpenWhileUsed'
  BY <1>1 DEF OpenWhileUsed
<1>7. UpUntilStopped'
  BY <1>1 DEF UpUntilStopped
<1>8. StoppedIsDown' /\ RunningIsUp' /\ OneStops'
  <2>1. StoppedIsDown'
    BY <1>1 DEF StoppedIsDown
  <2>2. RunningIsUp'
    BY <1>1, <1>7 DEF RunningIsUp, UpUntilStopped
  <2> QED
    BY <2>1, <2>2 DEF OneStops
<1> QED
  BY <1>3, <1>4, <1>5, <1>6, <1>7, <1>8

\* The steps of start after its first await.
LEMMA StartStep ==
  ASSUME NodeStateInv, NEW s \in Starters, NEW success \in BOOLEAN,
         \/ Initialized(s) \/ InitFails(s) \/ HealthStarts(s) \/ HealthFails(s)
         \/ PartStarted(s, success)
  PROVE  NodeStateInv'
<1>1. CASE Initialized(s)
  BY <1>1, BeginStep DEF Initialized
<1>2. CASE InitFails(s)
  BY <1>2, StartGoesOn DEF InitFails, StartBecomes, StartUnderWay
<1>3. CASE HealthStarts(s)
  BY <1>3, StartGoesOn DEF HealthStarts, StartBecomes, StartUnderWay
<1>4. CASE HealthFails(s)
  BY <1>4, StartGoesOn DEF HealthFails, StartBecomes, StartUnderWay
<1>5. CASE PartStarted(s, success)
  <2> DEFINE at == After(startAt[s])
  <2>1. /\ startAt[s] \in {"client", "cut", "dht", "relay"}
        /\ at \in StartUnderWay \ {"init"}
    BY <1>5 DEF PartStarted, After, StartUnderWay
  <2>2. /\ startAt' = [startAt EXCEPT ![s] = at]
        /\ UNCHANGED <<nodeState, made, storageOpen, closedOnce, handlers, stopAt,
                       crossed, received>>
        /\ up' = IF success THEN up \cup {startAt[s]} ELSE up
        /\ success => startAt[s] # "cut"
    BY <1>5 DEF PartStarted, StartBecomes
  <2>3. startAt[s] \in {"dht", "relay"} => startAt[s] \in Optional
    BY <2>1 DEF NodeStateInv, NodeTypeOK, StartUnderWay
  <2> QED
    BY <2>1, <2>2, <2>3, StartGoesOn DEF StartUnderWay
<1> QED
  BY <1>1, <1>2, <1>3, <1>4, <1>5

\* A stop marks the starts it crosses, and takes the health server down.
LEMMA StopNodeStep ==
  ASSUME NodeStateInv, NEW t \in Stoppers, StopNode(t)
  PROVE  NodeStateInv'
<1> USE DEF NodeStateInv
<1>1. /\ stopAt[t] = "idle"
      /\ made' = made /\ storageOpen' = storageOpen /\ handlers' = handlers
      /\ startAt' = startAt /\ received' = received
  BY DEF StopNode
<1>2. handlers' \in Nat /\ handlers' <= Cardinality(Begun')
  BY <1>1, HandlersAllowed DEF Begun
<1>3. CASE MayStop
  <2>1. /\ nodeState \notin {"stopped", "stopping"} /\ nodeState' = "stopping"
        /\ stopAt' = [stopAt EXCEPT ![t] = "health"]
        /\ crossed' = (crossed \/ \E s \in Starters : startAt[s] \in StartUnderWay)
        /\ up' = up \ {"health"}
        /\ closedOnce' = closedOnce \cup (up \cap {"health"} \cap {"relay", "health"})
    BY <1>3 DEF StopNode, StopBecomes, CloseServer, MayStop
  <2>2. /\ stopAt'[t] = "health" /\ \A u \in Stoppers : u # t => stopAt'[u] = stopAt[u]
        /\ crossed' \in BOOLEAN /\ crossed => crossed'
    BY <2>1 DEF NodeTypeOK
  <2>3. NodeTypeOK'
    BY <1>1, <1>2, <2>1, <2>2 DEF NodeTypeOK, Begun, StopUnderWay
  <2>4. ~crossed' => \A u \in Stoppers : stopAt[u] \notin StopUnderWay
    BY <2>1, <2>2 DEF StopsAlone
  <2>5. StopsAlone'
    BY <1>1, <2>1, <2>2, <2>4 DEF StopsAlone, StopUnderWay
  <2>6. OneStops'
    BY <2>2, <2>4 DEF OneStops
  <2>7. MadeBeforeUse' /\ OpenWhileUsed'
    BY <1>1, <2>1 DEF MadeBeforeUse, OpenWhileUsed
  <2>8. UpUntilStopped' /\ StoppedIsDown' /\ RunningIsUp'
    BY <2>1, <2>2 DEF UpUntilStopped, StoppedIsDown, RunningIsUp
  <2> QED
    BY <2>3, <2>5, <2>6, <2>7, <2>8
<1>4. CASE ~MayStop
  <2>1. /\ stopAt' = [stopAt EXCEPT ![t] = "done"]
        /\ UNCHANGED <<nodeState, crossed, up, closedOnce>>
    BY <1>4 DEF StopNode, StopBecomes
  <2>2. stopAt'[t] = "done" /\ \A u \in Stoppers : u # t => stopAt'[u] = stopAt[u]
    BY <2>1 DEF NodeTypeOK
  <2>3. NodeTypeOK'
    BY <1>1, <1>2, <2>1 DEF NodeTypeOK, Begun
  <2>4. StopsAlone' /\ OneStops'
    BY <1>1, <2>1, <2>2 DEF StopsAlone, StopUnderWay, OneStops
  <2>5. MadeBeforeUse' /\ OpenWhileUsed' /\ StoppedIsDown'
    BY <1>1, <2>1 DEF MadeBeforeUse, OpenWhileUsed, StoppedIsDown
  <2>6. UpUntilStopped' /\ RunningIsUp'
    BY <2>2 DEF UpUntilStopped, RunningIsUp
  <2> QED
    BY <2>3, <2>4, <2>5, <2>6
<1> QED
  BY <1>3, <1>4

\* One server after another is closed.
LEMMA NextStopsStep ==
  ASSUME NodeStateInv, NEW t \in Stoppers, NextStops(t)
  PROVE  NodeStateInv'
<1> USE DEF NodeStateInv
<1> DEFINE following == IF stopAt[t] = "health" THEN "relay" ELSE "dht"
<1>1. /\ stopAt[t] \in {"health", "relay"}
      /\ stopAt' = [stopAt EXCEPT ![t] = following]
      /\ up' = up \ {following}
      /\ closedOnce' = closedOnce \cup (up \cap {following} \cap {"relay", "health"})
      /\ UNCHANGED <<nodeState, made, storageOpen, handlers, startAt, crossed, received>>
  BY DEF NextStops, CloseServer, StopBecomes
<1>2. stopAt'[t] = following /\ \A u \in Stoppers : u # t => stopAt'[u] = stopAt[u]
  BY <1>1 DEF NodeTypeOK
<1>3. handlers' \in Nat /\ handlers' <= Cardinality(Begun')
  BY <1>1, HandlersAllowed DEF Begun
<1>4. NodeTypeOK'
  BY <1>1, <1>3 DEF NodeTypeOK, Begun, StopUnderWay
<1>5. StopsAlone' /\ OneStops'
  BY <1>1, <1>2 DEF StopsAlone, OneStops, StopUnderWay
<1>6. MadeBeforeUse' /\ OpenWhileUsed' /\ StoppedIsDown'
  BY <1>1 DEF MadeBeforeUse, OpenWhileUsed, StoppedIsDown
<1>7. UpUntilStopped' /\ RunningIsUp'
  BY <1>1, <1>2 DEF UpUntilStopped, RunningIsUp
<1> QED
  BY <1>4, <1>5, <1>6, <1>7

\* The end of a stop leaves nothing up that it had not closed before.
LEMMA StopsStep ==
  ASSUME NodeStateInv, NEW t \in Stoppers, Stops(t)
  PROVE  NodeStateInv'
<1> USE DEF NodeStateInv
<1>1. /\ stopAt[t] = "dht"
      /\ startAt' = [s \in Starters |->
                       IF made /\ startAt[s] = "client" THEN "cut" ELSE startAt[s]]
      /\ UNCHANGED <<made, closedOnce, crossed, received>>
  BY DEF Stops
<1>2. /\ startAt' \in [Starters -> {"idle", "done", "failed"} \cup StartUnderWay]
      /\ \A s \in Starters :
           /\ startAt'[s] \in StartUnderWay <=> startAt[s] \in StartUnderWay
           /\ startAt'[s] \in StartUnderWay \ {"init"} <=>
                startAt[s] \in StartUnderWay \ {"init"}
           /\ startAt'[s] \in {"idle", "init"} <=> startAt[s] \in {"idle", "init"}
  BY <1>1, NodeAssumption DEF NodeTypeOK, StartUnderWay
<1>3. IsFiniteSet(Begun) /\ Begun' = Begun /\ Cardinality(Begun) \in Nat
  <2>1. IsFiniteSet(Begun)
    BY NodeAssumption, FS_Subset DEF Begun
  <2>2. Begun' = Begun
    BY <1>2 DEF Begun
  <2> QED
    BY <2>1, <2>2, FS_CardinalityType
<1>4. CASE made
  <2>1. /\ up' = up \ {"client", "retry"} /\ storageOpen' = FALSE
        /\ handlers' = 0 /\ nodeState' = "stopped"
        /\ stopAt' = [stopAt EXCEPT ![t] = "done"]
    BY <1>4 DEF Stops, Finish, StopBecomes
  <2>2. stopAt'[t] = "done" /\ \A u \in Stoppers : u # t => stopAt'[u] = stopAt[u]
    BY <2>1 DEF NodeTypeOK
  <2>3. ~crossed => /\ nodeState = "stopping" /\ up' = {}
                    /\ \A u \in Stoppers : u # t => stopAt[u] \notin StopUnderWay
                    /\ \A s \in Starters : startAt[s] \notin StartUnderWay
    BY <1>1, <2>1, NodeAssumption
    DEF StopsAlone, StopUnderWay, OneStops, NodeTypeOK
  <2>4. NodeTypeOK'
    <3>1. handlers' \in Nat /\ handlers' <= Cardinality(Begun')
      BY <1>3, <2>1
    <3>2. up' \subseteq {"retry", "client", "health"} \cup Optional
      BY <2>1 DEF NodeTypeOK
    <3>3. stopAt' \in [Stoppers -> {"idle", "done", "failed"} \cup StopUnderWay]
      BY <2>1 DEF NodeTypeOK
    <3> QED
      BY <1>1, <1>2, <2>1, <3>1, <3>2, <3>3 DEF NodeTypeOK, Begun
  <2>5. StopsAlone' /\ OneStops'
    BY <1>1, <1>2, <2>1, <2>2, <2>3 DEF StopsAlone, OneStops, StopUnderWay
  <2>6. MadeBeforeUse' /\ StoppedIsDown'
    BY <1>1, <1>4, <2>1, <2>3 DEF MadeBeforeUse, StoppedIsDown
  <2>7. OpenWhileUsed'
    BY <1>1, <1>2, <2>1, <2>3 DEF OpenWhileUsed
  <2>8. UpUntilStopped' /\ RunningIsUp'
    BY <2>2 DEF UpUntilStopped, RunningIsUp
  <2> QED
    BY <2>4, <2>5, <2>6, <2>7, <2>8
<1>5. CASE ~made
  <2>1. /\ stopAt' = [stopAt EXCEPT ![t] = "failed"]
        /\ UNCHANGED <<up, storageOpen, handlers, nodeState>>
    BY <1>5 DEF Stops, StopBecomes
  <2>2. stopAt'[t] = "failed" /\ \A u \in Stoppers : u # t => stopAt'[u] = stopAt[u]
    BY <2>1 DEF NodeTypeOK
  <2>3. NodeTypeOK'
    <3>1. handlers \in Nat /\ handlers <= Cardinality(Begun')
      BY <1>3 DEF NodeTypeOK, Begun
    <3> QED
      BY <1>1, <1>2, <3>1, <2>1 DEF NodeTypeOK, Begun
  <2>4. StopsAlone' /\ OneStops'
    BY <1>1, <1>2, <2>1, <2>2 DEF StopsAlone, OneStops, StopUnderWay
  <2>5. MadeBeforeUse' /\ OpenWhileUsed' /\ StoppedIsDown'
    BY <1>1, <1>2, <2>1 DEF MadeBeforeUse, OpenWhileUsed, StoppedIsDown
  <2>6. UpUntilStopped' /\ RunningIsUp'
    BY <2>2 DEF UpUntilStopped, RunningIsUp
  <2> QED
    BY <2>3, <2>4, <2>5, <2>6
<1> QED
  BY <1>4, <1>5

\* A message that comes while the storage is open is lost only to one that
\* was kept before and has its id.
LEMMA ReceiveStep ==
  ASSUME NodeInv, NEW context \in Contexts \cup {NoContext}, Receive(context)
  PROVE  NodeInv'
<1> USE DEF NodeInv
<1> DEFINE n == Len(received)
           id == RowId(context)
           x == [id |-> id, kept |-> storageOpen /\ id \notin KeptIds]
           Rows == [id : (Contexts \cup {NoContext}) \X Nat, kept : BOOLEAN]
<1>1. /\ "client" \in up /\ received' = Append(received, x)
      /\ UNCHANGED <<nodeState, made, storageOpen, up, closedOnce, handlers, startAt,
                     stopAt, crossed>>
  BY DEF Receive
<1>2. /\ received \in Seq(Rows) /\ n \in Nat /\ DOMAIN received = 1..n
  BY LenProperties DEF NodeTypeOK
<1>3. /\ id \in (Contexts \cup {NoContext}) \X Nat
      /\ id[1] = context
      /\ context = NoContext => id[2] = n
  BY <1>2 DEF RowId
<1>4. x \in Rows /\ x.id = id /\ x.kept = (storageOpen /\ id \notin KeptIds)
  <2>1. (storageOpen /\ id \notin KeptIds) \in BOOLEAN
    OBVIOUS
  <2> HIDE DEF id
  <2> QED
    BY <1>3, <2>1
<1> HIDE DEF x, id
<1>5. /\ received' \in Seq(Rows) /\ Len(received') = n + 1
      /\ \A i \in 1..n : received'[i] = received[i]
      /\ received'[n + 1] = x
  BY <1>1, <1>2, <1>4, AppendProperties
<1>6. DOMAIN received' = 1..(n + 1)
  BY <1>5, LenProperties
<1>7. NodeStateInv'
  <2>1. NodeTypeOK'
    BY <1>1, <1>5 DEF NodeTypeOK
  <2> QED
    BY <1>1, <2>1 DEF MadeBeforeUse, StopsAlone, OpenWhileUsed, UpUntilStopped,
       StoppedIsDown, RunningIsUp, OneStops, NodeStateInv
<1>8. RandomIdsAreNew'
  <2> SUFFICES ASSUME NEW i \in 1..(n + 1), received'[i].id[1] = NoContext
               PROVE  received'[i].id[2] = i - 1
    BY <1>6 DEF RandomIdsAreNew
  <2>1. CASE i \in 1..n
    BY <1>2, <1>5, <2>1 DEF RandomIdsAreNew
  <2>2. CASE i = n + 1
    <3>1. received'[i].id = id
      BY <1>4, <1>5, <2>2
    <3>2. id[2] = n
      BY <1>3, <3>1
    <3> QED
      BY <1>2, <2>2, <3>1, <3>2
  <2> QED
    BY <1>2, <2>1, <2>2
<1>9. LostIsRepeated'
  <2> SUFFICES ASSUME ~crossed', NEW i \in DOMAIN received', ~received'[i].kept
               PROVE  \E j \in 1..(i - 1) :
                        /\ received'[j].kept /\ received'[j].id = received'[i].id
                        /\ received'[i].id[1] # NoContext
    BY DEF LostIsRepeated
  <2>1. CASE i \in 1..n
    <3>1. PICK j \in 1..(i - 1) :
            /\ received[j].kept /\ received[j].id = received[i].id
            /\ received[i].id[1] # NoContext
      BY <1>1, <1>2, <1>5, <2>1 DEF LostIsRepeated
    <3> QED
      BY <1>2, <1>5, <2>1, <3>1
  <2>2. CASE i = n + 1
    <3>1. storageOpen
      BY <1>1 DEF OpenWhileUsed
    <3>2. ~x.kept
      BY <1>5, <2>2
    <3>3. id \in KeptIds
      BY <1>4, <3>1, <3>2
    <3>4. PICK j \in 1..n : received[j].kept /\ received[j].id = id
      BY <1>2, <3>3 DEF KeptIds
    <3>5. id[1] # NoContext
      BY <1>2, <1>3, <3>4 DEF RandomIdsAreNew
    <3>6. received'[j].kept /\ received'[j].id = id /\ received'[i].id = id
      BY <1>4, <1>5, <2>2, <3>4
    <3>7. j \in 1..(i - 1)
      BY <1>2, <2>2
    <3> QED
      BY <3>5, <3>6, <3>7
  <2> QED
    BY <1>2, <1>6, <2>1, <2>2
<1> QED
  BY <1>7, <1>8, <1>9 DEF NodeStateInv

\* A start or a stop leaves the messages that were received.
LEMMA ReceivedStays ==
  ASSUME NodeInv, NodeStateInv', received' = received, crossed => crossed'
  PROVE  NodeInv'
BY DEF NodeInv, NodeStateInv, RandomIdsAreNew, LostIsRepeated

\* However starts and stops cross and whatever parts fail, a node that runs is
\* up, one that was stopped in peace is down, and what it received is stored
\* or has the id of a message that is.
THEOREM NodeInvariance == NodeSpec => []NodeInv
<1>1. NodeInit => NodeInv
  <2> SUFFICES ASSUME NodeInit PROVE NodeInv
    OBVIOUS
  <2>1. received = <<>> /\ DOMAIN received = {}
        /\ received \in Seq([id : (Contexts \cup {NoContext}) \X Nat, kept : BOOLEAN])
    BY EmptySeq DEF NodeInit
  <2>2. {s \in Starters : startAt[s] \notin {"idle", "init"}} = {}
    BY DEF NodeInit
  <2>3. handlers \in Nat
        /\ handlers <= Cardinality({s \in Starters : startAt[s] \notin {"idle", "init"}})
    <3>1. Cardinality({s \in Starters : startAt[s] \notin {"idle", "init"}}) = 0
      BY <2>2, FS_EmptySet
    <3>2. handlers = 0
      BY DEF NodeInit
    <3> QED
      BY <3>1, <3>2
  <2>4. NodeTypeOK
    BY <2>1, <2>3 DEF NodeInit, NodeTypeOK
  <2> QED
    BY <2>1, <2>4, NodeAssumption
    DEF NodeInit, NodeInv, MadeBeforeUse, StopsAlone, OpenWhileUsed,
        UpUntilStopped, RandomIdsAreNew, StoppedIsDown, RunningIsUp, OneStops,
        LostIsRepeated, StartUnderWay, StopUnderWay
<1>2. NodeInv /\ [NodeNext]_nodeVars => NodeInv'
  <2> SUFFICES ASSUME NodeInv, [NodeNext]_nodeVars PROVE NodeInv'
    OBVIOUS
  <2>1. NodeStateInv
    BY NodeParts
  <2>2. ASSUME NEW s \in Starters, StartNode(s) PROVE NodeInv'
    BY <2>1, <2>2, StartNodeStep, ReceivedStays DEF StartNode
  <2>3. ASSUME NEW s \in Starters, NEW success \in BOOLEAN,
               \/ Initialized(s) \/ InitFails(s) \/ HealthStarts(s) \/ HealthFails(s)
               \/ PartStarted(s, success)
        PROVE  NodeInv'
    <3>1. NodeStateInv'
      BY <2>1, <2>3, StartStep
    <3> QED
      BY <2>3, <3>1, ReceivedStays
      DEF Initialized, InitFails, HealthStarts, HealthFails, PartStarted
  <2>4. ASSUME NEW t \in Stoppers, StopNode(t) \/ NextStops(t) \/ Stops(t)
        PROVE  NodeInv'
    <3>1. NodeStateInv'
      BY <2>1, <2>4, StopNodeStep, NextStopsStep, StopsStep
    <3>2. received' = received /\ (crossed => crossed')
      <4>1. CASE StopNode(t)
        <5>1. received' = received
          BY <4>1 DEF StopNode
        <5>2. ASSUME MayStop, crossed PROVE crossed'
          BY <4>1, <5>2 DEF StopNode
        <5>3. ASSUME ~MayStop, crossed PROVE crossed'
          BY <4>1, <5>3 DEF StopNode
        <5> QED
          BY <5>1, <5>2, <5>3
      <4>2. CASE NextStops(t) \/ Stops(t)
        BY <4>2 DEF NextStops, Stops
      <4> QED
        BY <2>4, <4>1, <4>2
    <3> QED
      BY <3>1, <3>2, ReceivedStays
  <2>5. CASE UNCHANGED nodeVars
    BY <2>5 DEF nodeVars, NodeInv, NodeTypeOK, MadeBeforeUse, StopsAlone,
       OpenWhileUsed, UpUntilStopped, RandomIdsAreNew, StoppedIsDown, RunningIsUp,
       OneStops, LostIsRepeated, KeptIds
  <2>6. TRUE \in BOOLEAN
    OBVIOUS
  <2> QED
    BY <2>2, <2>3, <2>4, <2>5, <2>6, ReceiveStep DEF NodeNext
<1> QED
  BY <1>1, <1>2, PTL DEF NodeSpec

-----------------------------------------------------------------------------
(***************************************************************************)
(* Proofs about the hook of the web interface, for any number of streams   *)
(* and timers that may be open or set.  The operations work on a record of *)
(* the hook's state (Now); what they keep of it is proved once (HookSound) *)
(* and used for renders, effects, calls and timers.                        *)
(***************************************************************************)

HookRecords ==
  [latest : HookStates, stream : [Streams -> {"none", "connecting", "open"}],
   current : SUBSET Streams, retryTimers : SUBSET Timers, timerRef : SUBSET Timers]

\* There is one stream at most, the current one, and the state tells of it.
HookSound(h) ==
  /\ h \in HookRecords
  /\ \A e, f \in h.current : e = f
  /\ \A e \in Streams : h.stream[e] # "none" <=> e \in h.current
  /\ h.latest.isConnected <=> \E e \in h.current : h.stream[e] = "open"
  /\ ~(h.latest.isConnected /\ h.latest.isConnecting)

NowSound == HookSound(Now)

OthersTyped ==
  /\ shown \in HookStates /\ mounted \in BOOLEAN /\ effectDue \in BOOLEAN
  /\ orphaned \in BOOLEAN /\ reconnects \in Nat

LEMMA SoundIsNow == HookTypeOK /\ OneStream <=> NowSound /\ OthersTyped
BY DEF NowSound, OthersTyped, HookTypeOK, OneStream, HookSound, HookRecords, Now

\* What disconnect leaves: no stream, and no timer but those out of reach.
LEMMA WithoutStreamSound ==
  ASSUME NEW h, HookSound(h)
  PROVE  /\ HookSound(WithoutStream(h))
         /\ WithoutStream(h).current = {}
         /\ WithoutStream(h).retryTimers = h.retryTimers \ h.timerRef
         /\ WithoutStream(h).timerRef = {}
         /\ Free(h) \subseteq Free(WithoutStream(h))
<1> DEFINE g == WithoutStream(h)
<1>1. /\ g = [latest |-> Idle, current |-> {}, timerRef |-> {},
              stream |-> [e \in Streams |-> IF e \in h.current THEN "none" ELSE h.stream[e]],
              retryTimers |-> h.retryTimers \ h.timerRef]
  BY DEF WithoutStream, HookSound, HookRecords
<1>2. h.stream \in [Streams -> {"none", "connecting", "open"}]
      /\ h.retryTimers \subseteq Timers
      /\ \A e \in Streams : h.stream[e] # "none" <=> e \in h.current
  BY DEF HookSound, HookRecords
<1>3. Idle \in HookStates /\ Idle.isConnected = FALSE
  BY DEF Idle, HookStates
<1> HIDE DEF g
<1>4. g \in HookRecords /\ g.current = {}
      /\ g.retryTimers = h.retryTimers \ h.timerRef /\ g.timerRef = {}
      /\ g.latest.isConnected = FALSE
      /\ \A e \in Streams : g.stream[e] = "none"
  BY <1>1, <1>2, <1>3 DEF HookRecords
<1>5. HookSound(g)
  BY <1>4 DEF HookSound
<1>6. Free(h) \subseteq Free(g)
  BY <1>4 DEF Free
<1> QED
  BY <1>4, <1>5, <1>6 DEF g

\* connect opens a stream only if there is none.
LEMMA WithStreamSound ==
  ASSUME NEW h, HookSound(h), NEW w \in BOOLEAN, Free(h) # {}
  PROVE  /\ HookSound(WithStream(h, w))
         /\ WithStream(h, w).retryTimers = h.retryTimers
         /\ WithStream(h, w).timerRef = h.timerRef
<1>1. CASE h.current # {} \/ w
  BY <1>1 DEF WithStream
<1>2. CASE h.current = {} /\ ~w
  <2>1. PICK e \in Free(h) :
          WithStream(h, w) = [h EXCEPT !.latest.isConnecting = TRUE,
                                       !.stream[e] = "connecting", !.current = {e}]
    BY <1>2 DEF WithStream
  <2> DEFINE g == WithStream(h, w)
  <2>2. e \in Streams /\ h.latest \in HookStates
        /\ h.stream \in [Streams -> {"none", "connecting", "open"}]
        /\ h.retryTimers \subseteq Timers /\ h.timerRef \subseteq Timers
        /\ \A f \in Streams : h.stream[f] = "none"
        /\ h.latest.isConnected = FALSE
    BY <1>2 DEF HookSound, HookRecords, HookStates, Free
  <2>3. g = [latest |-> [h.latest EXCEPT !.isConnecting = TRUE],
             stream |-> [h.stream EXCEPT ![e] = "connecting"], current |-> {e},
             retryTimers |-> h.retryTimers, timerRef |-> h.timerRef]
    BY <2>1 DEF HookSound, HookRecords
  <2> HIDE DEF g
  <2>4. [h.latest EXCEPT !.isConnecting = TRUE] \in HookStates
        /\ [h.latest EXCEPT !.isConnecting = TRUE].isConnected = FALSE
    BY <2>2 DEF HookStates
  <2>5. /\ g \in HookRecords /\ g.current = {e} /\ g.latest.isConnected = FALSE
        /\ g.retryTimers = h.retryTimers /\ g.timerRef = h.timerRef
        /\ g.stream[e] = "connecting"
        /\ \A f \in Streams : f # e => g.stream[f] = "none"
    BY <2>2, <2>3, <2>4 DEF HookRecords
  <2>6. HookSound(g)
    BY <2>2, <2>5 DEF HookSound
  <2> QED
    BY <2>5, <2>6 DEF g
<1> QED
  BY <1>1, <1>2

\* What the hook becomes is what its variables hold.
LEMMA BecomesIsNow ==
  ASSUME NEW h, HookSound(h), Becomes(h)
  PROVE  /\ NowSound'
         /\ current' = h.current /\ retryTimers' = h.retryTimers /\ timerRef' = h.timerRef
<1>1. Now' = h
  BY DEF Now, Becomes, HookSound, HookRecords
<1> QED
  BY <1>1 DEF NowSound, HookSound, Now

\* Fewer timers leave room for as many attempts.
LEMMA FewerTimers ==
  ASSUME HookTypeOK, AttemptsBounded, NEW n \in Nat,
         retryTimers' \subseteq retryTimers, reconnects' = n, n <= reconnects
  PROVE  AttemptsBounded'
<1>1. IsFiniteSet(retryTimers) /\ IsFiniteSet(Timers)
  BY HookAssumption, FS_Subset DEF HookTypeOK
<1>2. /\ Cardinality(retryTimers) \in Nat /\ Cardinality(retryTimers') \in Nat
      /\ Cardinality(Timers) \in Nat
      /\ Cardinality(retryTimers') <= Cardinality(retryTimers)
  BY <1>1, FS_Subset, FS_CardinalityType
<1> QED
  BY <1>2, HookAssumption DEF AttemptsBounded, HookTypeOK

\* What disconnects, or calls connect, or both, keeps the invariant.
LEMMA OperationStep ==
  ASSUME HookInv, mounted, NEW h, HookSound(h), Becomes(h),
         \/ h.retryTimers = retryTimers /\ h.timerRef = timerRef
         \/ h.retryTimers = retryTimers \ timerRef,
         mounted' \in BOOLEAN, effectDue' \in BOOLEAN,
         ~mounted' => h.current = {} /\ h.retryTimers = retryTimers \ timerRef,
         reconnects' \in Nat, reconnects' <= reconnects,
         UNCHANGED <<shown, orphaned>>
  PROVE  HookInv'
<1> USE DEF HookInv
<1>1. /\ NowSound'
      /\ current' = h.current /\ retryTimers' = h.retryTimers /\ timerRef' = h.timerRef
  BY BecomesIsNow
<1>2. HookTypeOK' /\ OneStream'
  <2>1. OthersTyped'
    BY DEF HookTypeOK, OthersTyped
  <2> QED
    BY <1>1, <2>1, SoundIsNow, PTL
<1>3. AttemptsBounded'
  BY <1>1, FewerTimers
<1>4. TimerIsReferenced'
  BY <1>1 DEF TimerIsReferenced
<1>5. QuietOnceUnmounted'
  BY <1>1 DEF QuietOnceUnmounted, TimerIsReferenced
<1> QED
  BY <1>2, <1>3, <1>4, <1>5

\* The effect, with its cleanup, and what the user calls.
LEMMA EffectAndCallStep ==
  ASSUME HookInv, RunEffect \/ Unmount \/ \E call \in UserCalls : Call(call)
  PROVE  HookInv'
<1>1. HookSound(Now) /\ reconnects \in Nat /\ effectDue \in BOOLEAN /\ shown \in HookStates
  BY SoundIsNow DEF HookInv, NowSound, OthersTyped
<1>2. shown.isConnecting \in BOOLEAN /\ mounted \in BOOLEAN
  BY <1>1 DEF HookStates, HookInv, HookTypeOK
<1>3. Now.retryTimers = retryTimers /\ Now.timerRef = timerRef
  BY DEF Now
<1> DEFINE g == WithoutStream(Now)
<1>4. /\ HookSound(g) /\ g.current = {}
      /\ g.retryTimers = retryTimers \ timerRef /\ g.timerRef = {}
      /\ Free(Now) \subseteq Free(g)
  BY <1>1, <1>3, WithoutStreamSound
<1> DEFINE a == WithStreamAnew(Now, shown.isConnecting)
<1>5. ASSUME Free(g) # {}
      PROVE  HookSound(a) /\ a.retryTimers = retryTimers \ timerRef
  BY <1>2, <1>4, <1>5, WithStreamSound DEF WithStreamAnew
<1> HIDE DEF a, g
<1>6. CASE RunEffect
  <2>1. /\ Free(g) # {} /\ Becomes(a) /\ mounted /\ mounted' = mounted
        /\ effectDue' \in BOOLEAN /\ reconnects' \in Nat /\ reconnects' <= reconnects
        /\ UNCHANGED <<shown, orphaned>>
    <3>1. /\ Free(g) # {} /\ Becomes(a) /\ mounted /\ mounted' = mounted
          /\ effectDue' = FALSE /\ reconnects' = reconnects
          /\ UNCHANGED <<shown, orphaned>>
      BY <1>6 DEF RunEffect, a, g
    <3>2. reconnects <= reconnects
      BY <1>1
    <3> QED
      BY <1>1, <3>1, <3>2
  <2> QED
    BY <1>1, <1>2, <1>5, <2>1, OperationStep
<1>7. CASE Unmount
  <2>1. /\ Becomes(g) /\ mounted /\ mounted' = FALSE
        /\ effectDue' \in BOOLEAN /\ reconnects' \in Nat /\ reconnects' <= reconnects
        /\ UNCHANGED <<shown, orphaned>>
    <3>1. /\ Becomes(g) /\ mounted /\ mounted' = FALSE
          /\ effectDue' = FALSE /\ reconnects' = reconnects
          /\ UNCHANGED <<shown, orphaned>>
      BY <1>7 DEF Unmount, g
    <3>2. reconnects <= reconnects
      BY <1>1
    <3> QED
      BY <1>1, <3>1, <3>2
  <2> QED
    BY <1>1, <1>4, <2>1, OperationStep
<1>8. ASSUME NEW call \in UserCalls, Call(call) PROVE HookInv'
  <2>1. /\ mounted /\ mounted' = mounted /\ effectDue' = effectDue
        /\ reconnects' \in Nat /\ reconnects' <= reconnects
        /\ Free(Now) # {}
        /\ UNCHANGED <<shown, orphaned>>
    BY <1>1, <1>8 DEF Call
  <2>2. CASE call = "connect"
    <3> DEFINE c == WithStream(Now, shown.isConnecting)
    <3>1. HookSound(c) /\ c.retryTimers = retryTimers /\ c.timerRef = timerRef
      BY <1>1, <1>2, <1>3, <2>1, WithStreamSound
    <3>2. Becomes(c)
      BY <1>8, <2>2 DEF Call
    <3> HIDE DEF c
    <3> QED
      BY <1>1, <2>1, <3>1, <3>2, OperationStep
  <2>3. CASE call = "disconnect"
    <3>1. Becomes(g)
      BY <1>8, <2>3 DEF Call, g
    <3> QED
      BY <1>1, <1>4, <2>1, <3>1, OperationStep
  <2>4. CASE call = "reconnect"
    <3>1. Becomes(a) /\ Free(g) # {}
      BY <1>4, <1>8, <2>1, <2>4 DEF Call, a
    <3> QED
      BY <1>1, <1>5, <2>1, <3>1, OperationStep
  <2> QED
    BY <2>2, <2>3, <2>4, HookAssumption
<1> QED
  BY <1>6, <1>7, <1>8

\* A stream opens only if it is the current one.
LEMMA OnOpenStep ==
  ASSUME HookInv, NEW e \in Streams, OnOpen(e)
  PROVE  HookInv'
<1> USE DEF HookInv
<1>1. current = {e}
  BY DEF OnOpen, OneStream, HookTypeOK
<1>2. HookTypeOK'
  BY DEF OnOpen, HookTypeOK, HookStates
<1>3. OneStream'
  BY <1>1 DEF OnOpen, OneStream, HookTypeOK
<1>4. AttemptsBounded'
  BY FewerTimers DEF OnOpen, HookTypeOK
<1>5. TimerIsReferenced' /\ QuietOnceUnmounted'
  BY DEF OnOpen, TimerIsReferenced, QuietOnceUnmounted
<1> QED
  BY <1>2, <1>3, <1>4, <1>5

\* An error closes the current stream, and sets a timer if it may retry.
LEMMA OnErrorStep ==
  ASSUME HookInv, NEW e \in Streams, OnError(e)
  PROVE  HookInv'
<1> USE DEF HookInv
<1>1. /\ current = {e} /\ current' = {} /\ latest' = Idle
      /\ stream' = [stream EXCEPT ![e] = "none"]
      /\ UNCHANGED <<mounted, shown, effectDue, reconnects>>
  BY DEF OnError, OneStream, HookTypeOK
<1>2. /\ retryTimers' \subseteq Timers /\ timerRef' \subseteq Timers
      /\ orphaned' \in BOOLEAN
      /\ TimerIsReferenced'
      /\ MayRetry \/ (retryTimers' = retryTimers)
      /\ ~orphaned' => ~orphaned
  <2>1. CASE MayRetry
    <3>1. PICK t \in Timers : /\ retryTimers' = retryTimers \cup {t} /\ timerRef' = {t}
                              /\ orphaned' = (orphaned \/ retryTimers # {})
      BY <2>1 DEF OnError
    <3> QED
      BY <2>1, <3>1 DEF HookTypeOK, TimerIsReferenced
  <2>2. CASE ~MayRetry
    <3>1. UNCHANGED <<retryTimers, timerRef, orphaned>>
      BY <2>2 DEF OnError
    <3> QED
      BY <3>1 DEF HookTypeOK, TimerIsReferenced
  <2> QED
    BY <2>1, <2>2
<1>3. HookTypeOK'
  BY <1>1, <1>2 DEF HookTypeOK, HookStates, Idle
<1>4. OneStream'
  BY <1>1 DEF OneStream, HookTypeOK, Idle
<1>5. AttemptsBounded'
  <2>1. IsFiniteSet(Timers) /\ IsFiniteSet(retryTimers')
    BY <1>2, HookAssumption, FS_Subset
  <2>2. /\ Cardinality(Timers) \in Nat /\ Cardinality(retryTimers') \in Nat
        /\ Cardinality(retryTimers') <= Cardinality(Timers)
    BY <1>2, <2>1, HookAssumption, FS_Subset, FS_CardinalityType
  <2>3. CASE MayRetry
    BY <1>1, <2>2, <2>3, HookAssumption DEF AttemptsBounded, MayRetry, HookTypeOK
  <2>4. CASE ~MayRetry
    BY <1>1, <1>2, <2>4 DEF AttemptsBounded
  <2> QED
    BY <2>3, <2>4
<1>6. QuietOnceUnmounted'
  <2>1. mounted \/ orphaned
    BY <1>1 DEF QuietOnceUnmounted
  <2> QED
    BY <1>1, <1>2, <2>1 DEF QuietOnceUnmounted
<1> QED
  BY <1>2, <1>3, <1>4, <1>5, <1>6

\* A timer fires once, and connects as connect does.
LEMMA TimerFiresStep ==
  ASSUME HookInv, NEW t \in Timers, TimerFires(t)
  PROVE  HookInv'
<1> USE DEF HookInv
<1> DEFINE h == [Now EXCEPT !.retryTimers = @ \ {t}]
           g == WithStream(h, FALSE)
<1>1. /\ t \in retryTimers /\ Free(Now) # {} /\ reconnects' = reconnects + 1
      /\ Becomes(g)
      /\ UNCHANGED <<mounted, shown, effectDue, orphaned>>
  BY DEF TimerFires
<1>2. HookSound(Now)
  BY SoundIsNow DEF NowSound
<1>3. /\ HookSound(h) /\ h.retryTimers = retryTimers \ {t} /\ h.timerRef = timerRef
      /\ Free(h) = Free(Now)
  <2>1. h = [latest |-> latest, stream |-> stream, current |-> current,
             retryTimers |-> retryTimers \ {t}, timerRef |-> timerRef]
    BY DEF Now
  <2> QED
    BY <1>2, <2>1 DEF HookSound, HookRecords, Now, Free
<1> HIDE DEF h
<1>4. HookSound(g) /\ g.retryTimers = retryTimers \ {t} /\ g.timerRef = timerRef
  BY <1>1, <1>3, WithStreamSound
<1> HIDE DEF g
<1>5. /\ NowSound'
      /\ retryTimers' = retryTimers \ {t} /\ timerRef' = timerRef
  BY <1>1, <1>4, BecomesIsNow
<1>6. HookTypeOK' /\ OneStream'
  <2>1. OthersTyped'
    BY <1>1 DEF HookTypeOK, OthersTyped
  <2> QED
    BY <1>5, <2>1, SoundIsNow, PTL
<1>7. AttemptsBounded'
  <2>1. IsFiniteSet(retryTimers) /\ IsFiniteSet(Timers)
    BY HookAssumption, FS_Subset DEF HookTypeOK
  <2>2. /\ Cardinality(retryTimers) \in Nat /\ Cardinality(Timers) \in Nat
        /\ Cardinality(retryTimers') = Cardinality(retryTimers) - 1
    BY <1>1, <1>5, <2>1, FS_RemoveElement, FS_CardinalityType
  <2> QED
    BY <1>1, <2>2, HookAssumption DEF AttemptsBounded, HookTypeOK
<1>8. TimerIsReferenced'
  BY <1>1, <1>5 DEF TimerIsReferenced
<1>9. QuietOnceUnmounted'
  BY <1>1 DEF QuietOnceUnmounted
<1> QED
  BY <1>6, <1>7, <1>8, <1>9

\* Over all renders, effects, errors, timers and calls, one stream at most is
\* open and it is the current one; the attempts stay bounded, and an unmounted
\* hook is quiet unless a timer had lost its reference.
THEOREM HookInvariance == HookSpec => []HookInv
<1>1. HookInit => HookInv
  <2> SUFFICES ASSUME HookInit PROVE HookInv
    OBVIOUS
  <2>1. HookTypeOK /\ OneStream /\ TimerIsReferenced /\ QuietOnceUnmounted
    BY DEF HookInit, HookTypeOK, HookStates, Idle, OneStream, TimerIsReferenced,
           QuietOnceUnmounted
  <2>2. AttemptsBounded
    BY HookAssumption, FS_EmptySet, FS_CardinalityType DEF HookInit, AttemptsBounded
  <2> QED
    BY <2>1, <2>2 DEF HookInv
<1>2. HookInv /\ [HookNext]_hookVars => HookInv'
  <2> SUFFICES ASSUME HookInv, [HookNext]_hookVars PROVE HookInv'
    OBVIOUS
  <2>1. CASE Render
    <3>1. effectDue' \in BOOLEAN
      <4>1. effectDue' = (latest.isConnecting # shown.isConnecting)
        BY <2>1 DEF Render
      <4> QED
        BY <4>1
    <3> QED
      BY <2>1, <3>1 DEF Render, HookInv, HookTypeOK, OneStream, AttemptsBounded,
                        TimerIsReferenced, QuietOnceUnmounted
  <2>2. CASE UNCHANGED hookVars
    BY <2>2 DEF hookVars, HookInv, HookTypeOK, OneStream, AttemptsBounded,
                TimerIsReferenced, QuietOnceUnmounted
  <2> QED
    BY <2>1, <2>2, EffectAndCallStep, OnOpenStep, OnErrorStep, TimerFiresStep
    DEF HookNext
<1> QED
  BY <1>1, <1>2, PTL DEF HookSpec

-----------------------------------------------------------------------------
(***************************************************************************)
(* Proofs about the rotation of keys, for any callers, intervals and grace *)
(* period.  That the history tells what isValidKey does rests on what a    *)
(* rotation leaves of the state (EntriesFollowState); that a replaced key  *)
(* keeps its grace, on no rotation coming too soon after another           *)
(* (IntervalIsKept), which overlapping calls of rotate may break.          *)
(***************************************************************************)

\* The two records of a key's standing agree in every state whose history
\* follows the state.
LEMMA HistoryFollows ==
  ASSUME KeyTypeOK, EntriesFollowState
  PROVE  HistoryAgrees
<1> SUFFICES ASSUME NEW k \in 1..MaxKeys
             PROVE  /\ GetKeyStatus(k) = "active" <=> k = currentKey
                    /\ GetKeyStatus(k) \in {"active", "grace"} <=> IsValidKey(k)
  BY DEF HistoryAgrees
<1>1. currentKey # previousKey /\ currentKey \in DOMAIN keyHistory /\ k # 0
  BY KeyAssumption DEF EntriesFollowState, KeyTypeOK
<1>2. CASE k = currentKey
  BY <1>1, <1>2 DEF EntriesFollowState, GetKeyStatus, IsValidKey
<1>3. CASE k = previousKey
  <2>1. k \in DOMAIN keyHistory /\ keyHistory[k].status = "grace"
        /\ keyHistory[k].expiresAt = gracePeriodEnds
    BY <1>1, <1>3 DEF EntriesFollowState
  <2>2. keyTime \in Int /\ gracePeriodEnds \in Int
    BY KeyAssumption DEF KeyTypeOK
  <2> QED
    <3>1. k # currentKey
      BY <1>1, <1>3
    <3>2. IsValidKey(k) <=> keyTime < gracePeriodEnds
      BY <1>3, <3>1 DEF IsValidKey
    <3>3. GetKeyStatus(k) = IF keyTime >= gracePeriodEnds THEN "expired" ELSE "grace"
      BY <2>1 DEF GetKeyStatus
    <3> QED
      BY <2>2, <3>1, <3>2, <3>3
<1>4. CASE k # currentKey /\ k # previousKey
  <2>1. k \in DOMAIN keyHistory => keyHistory[k].status = "expired"
    BY <1>4 DEF EntriesFollowState
  <2> QED
    <3>1. GetKeyStatus(k) \in {"unknown", "expired"}
      BY <2>1 DEF GetKeyStatus
    <3>2. ~IsValidKey(k)
      BY <1>4 DEF IsValidKey
    <3> QED
      BY <1>4, <3>1, <3>2
<1> QED
  BY <1>2, <1>3, <1>4

\* A call of rotate that passes the check comes late enough, or overlaps one.
LEMMA RotateStep ==
  ASSUME KeyInv, NEW c \in Callers, Rotate(c)
  PROVE  KeyInv'
<1> USE DEF KeyInv
<1>1. /\ ~TooSoon /\ rotating' = [rotating EXCEPT ![c] = keyTime]
      /\ overlapped' = (overlapped \/ \E d \in Callers : rotating[d] # -1)
      /\ UNCHANGED <<keyTime, currentKey, previousKey, gracePeriodEnds, lastRotation,
                     keyHistory, replacedAt>>
  BY DEF Rotate
<1>2. KeyTypeOK'
  <2>1. overlapped' \in BOOLEAN
    BY <1>1
  <2>2. rotating' \in [Callers -> -1..keyTime]
    BY <1>1, KeyAssumption DEF KeyTypeOK
  <2> QED
    BY <1>1, <2>1, <2>2 DEF KeyTypeOK
<1>3. EntriesFollowState'
  BY <1>1 DEF EntriesFollowState
<1>4. IntervalIsKept'
  <2> SUFFICES ASSUME ~overlapped', NEW d \in Callers, rotating'[d] # -1
               PROVE  /\ rotating'[d] - lastRotation' >= MinRotationInterval
                      /\ \A e \in Callers : rotating'[e] # -1 => d = e
    BY DEF IntervalIsKept
  <2>1. \A e \in Callers : rotating[e] = -1
    BY <1>1
  <2>2. d = c /\ rotating'[c] = keyTime /\ \A e \in Callers : e # c => rotating'[e] = -1
    BY <1>1, <2>1 DEF KeyTypeOK
  <2>3. keyTime - lastRotation >= MinRotationInterval
    BY <1>1, KeyAssumption DEF TooSoon, KeyTypeOK
  <2> QED
    BY <1>1, <2>2, <2>3
<1>5. HistoryAgrees'
  BY <1>1 DEF HistoryAgrees, GetKeyStatus, IsValidKey
<1>6. GraceIsGiven'
  BY <1>1 DEF GraceIsGiven, IsValidKey
<1> QED
  BY <1>2, <1>3, <1>4, <1>5, <1>6

\* A new key takes the place of the current one, which is given its grace.
LEMMA KeyGeneratedStep ==
  ASSUME KeyInv, NEW c \in Callers, KeyGenerated(c)
  PROVE  KeyInv'
<1> USE DEF KeyInv
<1> DEFINE at == rotating[c]
           new == currentKey + 1
<1>1. /\ at # -1 /\ new <= MaxKeys
      /\ keyHistory' = [k \in DOMAIN keyHistory \cup {new} |->
                          IF k = new THEN Entry(at) ELSE Moved(k, at)]
      /\ previousKey' = currentKey /\ gracePeriodEnds' = at + GracePeriod
      /\ currentKey' = new /\ lastRotation' = at
      /\ rotating' = [rotating EXCEPT ![c] = -1]
      /\ replacedAt' = [replacedAt EXCEPT ![currentKey] = at]
      /\ keyTime' = keyTime /\ overlapped' = overlapped
  BY DEF KeyGenerated, RotatedAt
<1>2. /\ keyTime \in 0..MaxKeyTime /\ at \in 0..keyTime /\ at \in Int
      /\ currentKey \in 1..MaxKeys /\ previousKey \in 0..MaxKeys
      /\ lastRotation \in 0..keyTime /\ GracePeriod \in Nat \ {0} /\ MaxKeyTime \in Nat
      /\ MaxKeys \in Nat
      /\ DOMAIN keyHistory \subseteq 1..currentKey
      /\ \A k \in DOMAIN keyHistory : keyHistory[k] \in KeyEntries
  BY <1>1, KeyAssumption DEF KeyTypeOK
<1>3. /\ previousKey = currentKey - 1 /\ currentKey \in DOMAIN keyHistory
      /\ new \notin DOMAIN keyHistory
  BY <1>2 DEF EntriesFollowState
<1>4. /\ DOMAIN keyHistory' = DOMAIN keyHistory \cup {new}
      /\ keyHistory'[new] = Entry(at)
      /\ \A k \in DOMAIN keyHistory : keyHistory'[k] = Moved(k, at)
  BY <1>1, <1>3
<1>5. \A k \in DOMAIN keyHistory' : keyHistory'[k] \in KeyEntries
  <2>1. Entry(at) \in KeyEntries
    BY <1>2 DEF Entry, KeyEntries
  <2>2. \A k \in DOMAIN keyHistory : Moved(k, at) \in KeyEntries
    <3> SUFFICES ASSUME NEW k \in DOMAIN keyHistory PROVE Moved(k, at) \in KeyEntries
      OBVIOUS
    <3> DEFINE e == keyHistory[k]
    <3>1. /\ e \in KeyEntries
          /\ at \in -1..(MaxKeyTime + GracePeriod)
          /\ at + GracePeriod \in -1..(MaxKeyTime + GracePeriod)
      BY <1>2
    <3> HIDE DEF e
    <3>2. [e EXCEPT !.status = "expired", !.expiresAt = at] \in KeyEntries
      BY <3>1 DEF KeyEntries
    <3>3. [e EXCEPT !.status = "grace", !.expiresAt = at + GracePeriod] \in KeyEntries
      BY <3>1 DEF KeyEntries
    <3> QED
      BY <3>1, <3>2, <3>3 DEF Moved, e
  <2> QED
    BY <1>4, <2>1, <2>2
<1>6. KeyTypeOK'
  <2>1. DOMAIN keyHistory' \subseteq 1..new
    BY <1>2, <1>4
  <2>2. keyHistory' \in [DOMAIN keyHistory' -> KeyEntries]
    BY <1>1, <1>5
  <2>3. replacedAt' \in [1..MaxKeys -> -1..keyTime] /\ rotating' \in [Callers -> -1..keyTime]
    BY <1>1, <1>2 DEF KeyTypeOK
  <2>4. currentKey' \in 1..MaxKeys /\ previousKey' \in 0..MaxKeys
        /\ gracePeriodEnds' \in 0..(MaxKeyTime + GracePeriod) /\ lastRotation' \in 0..keyTime
    BY <1>1, <1>2
  <2> QED
    BY <1>1, <1>2, <2>1, <2>2, <2>3, <2>4 DEF KeyTypeOK
<1>7. EntriesFollowState'
  <2>1. previousKey' = currentKey' - 1 /\ previousKey' # 0
        /\ {currentKey', previousKey'} \ {0} \subseteq DOMAIN keyHistory'
    BY <1>1, <1>2, <1>3, <1>4
  <2>2. keyHistory'[new].status = "active"
    BY <1>4 DEF Entry
  <2>3. /\ keyHistory'[currentKey].status = "grace"
        /\ keyHistory'[currentKey].expiresAt = at + GracePeriod
    <3>1. keyHistory'[currentKey] = [keyHistory[currentKey] EXCEPT
                                       !.status = "grace", !.expiresAt = at + GracePeriod]
      <4>1. currentKey # previousKey /\ keyHistory'[currentKey] = Moved(currentKey, at)
        BY <1>2, <1>3, <1>4
      <4> QED
        BY <4>1 DEF Moved
    <3>2. keyHistory[currentKey] \in KeyEntries
      BY <1>2, <1>3
    <3> QED
      BY <3>1, <3>2 DEF KeyEntries
  <2>4. ASSUME NEW k \in DOMAIN keyHistory, k # currentKey
        PROVE  keyHistory'[k].status = "expired"
    <3>1. CASE k = previousKey
      BY <1>2, <1>4, <2>4, <3>1 DEF Moved, KeyEntries
    <3>2. CASE k # previousKey
      BY <1>4, <2>4, <3>2 DEF Moved, EntriesFollowState
    <3> QED
      BY <3>1, <3>2
  <2>5. \A k \in DOMAIN keyHistory' :
          keyHistory'[k].status = CASE k = currentKey' -> "active"
                                    [] k = previousKey' -> "grace"
                                    [] OTHER -> "expired"
    <3> SUFFICES ASSUME NEW k \in DOMAIN keyHistory'
                 PROVE  keyHistory'[k].status = CASE k = new -> "active"
                                                  [] k = currentKey -> "grace"
                                                  [] OTHER -> "expired"
      BY <1>1
    <3>1. CASE k = new
      BY <1>2, <2>2, <3>1
    <3>2. CASE k = currentKey
      BY <1>2, <2>3, <3>2
    <3>3. CASE k # new /\ k # currentKey
      BY <1>4, <2>4, <3>3
    <3> QED
      BY <3>1, <3>2, <3>3
  <2>6. replacedAt'[previousKey'] = lastRotation'
    BY <1>1, <1>2 DEF KeyTypeOK
  <2>7. \A k \in currentKey'..MaxKeys : replacedAt'[k] = -1
    BY <1>1, <1>2 DEF KeyTypeOK, EntriesFollowState
  <2> QED
    BY <1>1, <2>1, <2>3, <2>5, <2>6, <2>7 DEF EntriesFollowState
<1>8. IntervalIsKept'
  BY <1>1, <1>2 DEF IntervalIsKept, KeyTypeOK
<1>9. HistoryAgrees'
  BY <1>6, <1>7, HistoryFollows, PTL
<1>10. GraceIsGiven'
  <2> SUFFICES ASSUME ~overlapped, MinRotationInterval >= GracePeriod,
                      NEW k \in 1..MaxKeys, replacedAt'[k] # -1,
                      keyTime < replacedAt'[k] + GracePeriod
               PROVE  IsValidKey(k)'
    BY <1>1 DEF GraceIsGiven
  <2>1. CASE k = currentKey
    BY <1>1, <1>2, <2>1 DEF IsValidKey, KeyTypeOK
  <2>2. CASE k # currentKey
    <3>1. replacedAt[k] # -1 /\ keyTime < replacedAt[k] + GracePeriod
      BY <1>1, <2>2 DEF KeyTypeOK
    <3>2. IsValidKey(k)
      BY <3>1 DEF GraceIsGiven
    <3>3. k = previousKey /\ keyTime < gracePeriodEnds /\ k # 0
      BY <2>2, <3>2 DEF IsValidKey
    <3>4. gracePeriodEnds = lastRotation + GracePeriod
      BY <3>3 DEF EntriesFollowState
    <3>5. at - lastRotation >= MinRotationInterval
      BY <1>1 DEF IntervalIsKept
    <3> QED
      BY <1>2, <3>3, <3>4, <3>5, KeyAssumption
  <2> QED
    BY <2>1, <2>2
<1> QED
  BY <1>6, <1>7, <1>8, <1>9, <1>10

\* What is pruned has expired.
LEMMA PruneExpiredStep ==
  ASSUME KeyInv, PruneExpired
  PROVE  KeyInv'
<1> USE DEF KeyInv
<1>1. /\ DOMAIN keyHistory' = {k \in DOMAIN keyHistory : ~PrunedEntry(keyHistory[k])}
      /\ keyHistory' = [k \in DOMAIN keyHistory' |-> keyHistory[k]]
      /\ \A k \in DOMAIN keyHistory' : keyHistory'[k] = keyHistory[k]
      /\ \A k \in DOMAIN keyHistory :
           keyHistory[k].status # "expired" => k \in DOMAIN keyHistory'
      /\ UNCHANGED <<keyTime, currentKey, previousKey, gracePeriodEnds, lastRotation,
                     rotating, replacedAt, overlapped>>
  BY DEF PruneExpired, PrunedEntry
<1>2. KeyTypeOK'
  BY <1>1 DEF KeyTypeOK
<1>3. EntriesFollowState'
  <2>1. /\ keyHistory[currentKey].status = "active"
        /\ previousKey # 0 => keyHistory[previousKey].status = "grace"
        /\ currentKey # 0 /\ currentKey # previousKey
    BY KeyAssumption DEF EntriesFollowState, KeyTypeOK
  <2>2. {currentKey, previousKey} \ {0} \subseteq DOMAIN keyHistory'
    BY <1>1, <2>1 DEF EntriesFollowState
  <2> QED
    BY <1>1, <2>2 DEF EntriesFollowState
<1>4. IntervalIsKept' /\ GraceIsGiven'
  BY <1>1 DEF IntervalIsKept, GraceIsGiven, IsValidKey
<1>5. HistoryAgrees'
  BY <1>2, <1>3, HistoryFollows, PTL
<1> QED
  BY <1>2, <1>3, <1>4, <1>5

\* Time ends a grace period for both records at once.
LEMMA KeyTimePassesStep ==
  ASSUME KeyInv, KeyTimePasses
  PROVE  KeyInv'
<1> USE DEF KeyInv
<1>1. /\ keyTime < MaxKeyTime /\ keyTime' = keyTime + 1
      /\ UNCHANGED <<currentKey, previousKey, gracePeriodEnds, lastRotation,
                     keyHistory, rotating, replacedAt, overlapped>>
  BY DEF KeyTimePasses
<1>2. keyTime \in Nat /\ keyTime' \in 0..MaxKeyTime /\ keyTime' > keyTime
  BY <1>1, KeyAssumption DEF KeyTypeOK
<1>3. KeyTypeOK'
  BY <1>1, <1>2, KeyAssumption DEF KeyTypeOK
<1>4. EntriesFollowState' /\ IntervalIsKept'
  BY <1>1 DEF EntriesFollowState, IntervalIsKept
<1>5. HistoryAgrees'
  BY <1>3, <1>4, HistoryFollows, PTL
<1>6. GraceIsGiven'
  <2> SUFFICES ASSUME ~overlapped, MinRotationInterval >= GracePeriod,
                      NEW k \in 1..MaxKeys, replacedAt[k] # -1,
                      keyTime' < replacedAt[k] + GracePeriod
               PROVE  IsValidKey(k)'
    BY <1>1 DEF GraceIsGiven
  <2>1. replacedAt[k] \in Int
    BY <1>2 DEF KeyTypeOK
  <2>2. IsValidKey(k)
    BY <1>2, <2>1, KeyAssumption DEF GraceIsGiven
  <2>3. CASE k = currentKey
    BY <1>1, <2>3 DEF IsValidKey
  <2>4. CASE k # currentKey
    <3>1. k = previousKey /\ k # 0
      BY <2>2, <2>4 DEF IsValidKey
    <3>2. gracePeriodEnds = replacedAt[k] + GracePeriod
      BY <3>1 DEF EntriesFollowState
    <3> QED
      BY <1>1, <3>1, <3>2 DEF IsValidKey
  <2> QED
    BY <2>3, <2>4
<1> QED
  BY <1>3, <1>4, <1>5, <1>6

\* Whatever rotations overlap and whatever is pruned, the history and the
\* state say the same of every key, and a replaced key has its grace period
\* unless rotations overlapped.
THEOREM KeyInvariance == KeySpec => []KeyInv
<1>1. KeyInit => KeyInv
  <2> SUFFICES ASSUME KeyInit PROVE KeyInv
    OBVIOUS
  <2>1. KeyTypeOK
    <3>1. /\ DOMAIN keyHistory = {1} /\ keyHistory \in [{1} -> {Entry(0)}]
          /\ currentKey = 1 /\ keyTime = 0
      BY DEF KeyInit
    <3>2. Entry(0) \in KeyEntries
      BY KeyAssumption DEF Entry, KeyEntries
    <3>3. /\ rotating \in [Callers -> -1..keyTime]
          /\ replacedAt \in [1..MaxKeys -> -1..keyTime]
      BY KeyAssumption DEF KeyInit
    <3>4. keyHistory \in [DOMAIN keyHistory -> KeyEntries] /\ DOMAIN keyHistory \subseteq 1..1
      BY <3>1, <3>2
    <3>5. /\ lastRotation = 0 /\ previousKey = 0 /\ gracePeriodEnds = 0
          /\ overlapped = FALSE
      BY DEF KeyInit
    <3>6. overlapped \in BOOLEAN
      BY <3>5
    <3>7. /\ keyTime \in 0..MaxKeyTime /\ lastRotation \in 0..keyTime
          /\ currentKey \in 1..MaxKeys /\ previousKey \in 0..MaxKeys
          /\ gracePeriodEnds \in 0..(MaxKeyTime + GracePeriod)
      BY <3>1, <3>5, KeyAssumption
    <3>8. DOMAIN keyHistory \subseteq 1..currentKey
      BY <3>1, <3>4
    <3> QED
      BY <3>3, <3>4, <3>6, <3>7, <3>8 DEF KeyTypeOK
  <2>2. EntriesFollowState
    BY KeyAssumption DEF KeyInit, EntriesFollowState, Entry
  <2>3. IntervalIsKept /\ GraceIsGiven
    BY DEF KeyInit, IntervalIsKept, GraceIsGiven
  <2> QED
    BY <2>1, <2>2, <2>3, HistoryFollows DEF KeyInv
<1>2. KeyInv /\ [KeyNext]_keyVars => KeyInv'
  <2> SUFFICES ASSUME KeyInv, [KeyNext]_keyVars PROVE KeyInv'
    OBVIOUS
  <2>1. CASE UNCHANGED keyVars
    BY <2>1 DEF keyVars, KeyInv, KeyTypeOK, EntriesFollowState, IntervalIsKept,
                HistoryAgrees, GraceIsGiven, GetKeyStatus, IsValidKey
  <2> QED
    BY <2>1, RotateStep, KeyGeneratedStep, PruneExpiredStep, KeyTimePassesStep DEF KeyNext
<1> QED
  BY <1>1, <1>2, PTL DEF KeySpec

-----------------------------------------------------------------------------
(***************************************************************************)
(* Proofs about the token buckets, for any rate, burst and window.  RateInv *)
(* is inductive.  A key's tokens are those of the bucket it has, or of the  *)
(* one it would be given, so that a bucket that is forgotten loses it none. *)
(***************************************************************************)

LEMMA Products ==
  ASSUME NEW a \in Nat, NEW b \in Nat
  PROVE  a * b \in Nat
OBVIOUS

LEMMA Distributes ==
  ASSUME NEW a \in Int, NEW b \in Int, NEW r \in Int
  PROVE  /\ (a + b) * r = a * r + b * r
         /\ r * (a + b) = r * a + r * b
         /\ a * r = r * a /\ 0 * r = 0 /\ r * 0 = 0 /\ 1 * r = r /\ r * 1 = r
         /\ a * r \in Int
OBVIOUS

LEMMA ProductsGrow ==
  ASSUME NEW a \in Nat, NEW b \in Nat, NEW r \in Nat, a <= b
  PROVE  a * r <= b * r
<1>1. b - a \in Nat /\ b = a + (b - a)
  OBVIOUS
<1>2. (b - a) * r \in Nat /\ a * r \in Int /\ b * r \in Int
  BY <1>1, Products, Distributes
<1>3. b * r = a * r + (b - a) * r
  BY <1>1, Distributes
<1> QED
  BY <1>2, <1>3

LEMMA Divides ==
  ASSUME NEW n \in Nat, NEW r \in Nat \ {0}
  PROVE  /\ n \div r \in Int /\ n \div r >= 0
         /\ n < r * ((n \div r) + 1)
BY n \div r \in Int, n < r * ((n \div r) + 1), n \div r >= 0

\* A ceiling is what is divided at least.
LEMMA CeilingCovers ==
  ASSUME NEW m \in Nat \ {0}
  PROVE  /\ ResetIn(m) \in Nat \ {0}
         /\ Rate * ResetIn(m) >= m
<1> DEFINE q == (m + Rate - 1) \div Rate
<1>1. Rate \in Nat \ {0} /\ m + Rate - 1 \in Nat
  BY RateAssumption
<1>2. /\ q \in Int /\ q >= 0
      /\ m + Rate - 1 < Rate * (q + 1)
  BY <1>1, Divides
<1> HIDE DEF q
<1>3. Rate * q \in Int /\ Rate * (q + 1) = Rate * q + Rate
  BY <1>1, <1>2, Distributes
<1>4. Rate * q >= m
  BY <1>1, <1>2, <1>3
<1>5. q # 0
  BY <1>1, <1>4, Distributes
<1> QED
  BY <1>2, <1>4, <1>5 DEF q, ResetIn

\* What a bucket has after its refill, and that it has Rate more when a unit
\* of time has passed, up to the burst.
LEMMA RefilledIs ==
  ASSUME RateTypeOK, NEW b \in [tokens : 0..Burst, lastUpdate : 0..limitTime]
  PROVE  /\ Refilled(b) \in 0..Burst
         /\ b.lastUpdate = limitTime => Refilled(b) = b.tokens
         /\ limitTime' = limitTime + 1 =>
              Refilled(b)' = IF Refilled(b) + Rate < Burst THEN Refilled(b) + Rate ELSE Burst
<1> DEFINE span == limitTime - b.lastUpdate
<1>1. /\ b.tokens \in 0..Burst /\ span \in Nat /\ Rate \in Nat /\ Rate > 0 /\ Burst \in Nat
      /\ limitTime \in Nat /\ b.lastUpdate \in Nat
  BY RateAssumption DEF RateTypeOK
<1>2. /\ span * Rate \in Nat /\ (span + 1) * Rate = span * Rate + Rate /\ 0 * Rate = 0
  BY <1>1, Products, Distributes
<1>3. Refilled(b) = IF b.tokens + span * Rate < Burst THEN b.tokens + span * Rate ELSE Burst
  BY DEF Refilled
<1>4. ASSUME limitTime' = limitTime + 1
      PROVE  Refilled(b)' = IF b.tokens + (span + 1) * Rate < Burst
                            THEN b.tokens + (span + 1) * Rate ELSE Burst
  <2>1. limitTime' - b.lastUpdate = span + 1
    BY <1>1, <1>4
  <2> QED
    BY <2>1 DEF Refilled
<1>5. b.lastUpdate = limitTime => span = 0
  BY <1>1
<1> HIDE DEF span
<1> QED
  BY <1>1, <1>2, <1>3, <1>4, <1>5

\* The bucket a key has or would be given
LEMMA BucketTyped ==
  ASSUME RateTypeOK, NEW k \in LimitedKeys
  PROVE  /\ BucketOf(k) \in [tokens : 0..Burst, lastUpdate : 0..limitTime]
         /\ k \notin DOMAIN buckets => Refilled(BucketOf(k)) = Burst
<1>1. Fresh \in [tokens : 0..Burst, lastUpdate : 0..limitTime] /\ Fresh.lastUpdate = limitTime
      /\ Fresh.tokens = Burst
  BY RateAssumption DEF RateTypeOK, Fresh
<1>2. k \in DOMAIN buckets => buckets[k] \in [tokens : 0..Burst, lastUpdate : 0..limitTime]
  BY DEF RateTypeOK
<1> QED
  BY <1>1, <1>2, RefilledIs DEF BucketOf

\* A key is given tokens that it has, or told when it has them.
LEMMA ConsumeStep ==
  ASSUME RateInv, NEW k \in LimitedKeys, NEW n \in 1..(Burst + 1), Consume(k, n)
  PROVE  RateInv'
<1> DEFINE has == Refilled(BucketOf(k))
           rest == IF has >= n THEN has - n ELSE has
           bucket == [tokens |-> rest, lastUpdate |-> limitTime]
<1>0. /\ RateTypeOK /\ Burst \in Nat /\ n \in Nat /\ n > 0 /\ limitTime \in Nat
      /\ limitTime \in 0..MaxLimitTime
  BY RateAssumption DEF RateInv, RateTypeOK
<1>1. has \in 0..Burst
  BY <1>0, BucketTyped, RefilledIs
<1>2. /\ rest \in 0..Burst
      /\ bucket \in [tokens : 0..Burst, lastUpdate : 0..limitTime]
      /\ bucket.lastUpdate = limitTime /\ bucket.tokens = rest
  BY <1>0, <1>1
<1>3. /\ limitTime' = limitTime /\ buckets' = WithBucket(k, bucket)
      /\ granted' = IF has >= n THEN [granted EXCEPT ![k] = GrantedMore(k, n)] ELSE granted
      /\ promised' = [promised EXCEPT ![k] =
           IF has >= n THEN NoPromise
           ELSE [at |-> limitTime + ResetIn(n - has), tokens |-> n]]
  BY DEF Consume
<1>4. /\ DOMAIN buckets' = DOMAIN buckets \cup {k}
      /\ \A j \in DOMAIN buckets' : buckets'[j] = IF j = k THEN bucket ELSE buckets[j]
  BY <1>3 DEF WithBucket
<1>5. \A j \in LimitedKeys : Refilled(BucketOf(j))' = IF j = k THEN rest ELSE Refilled(BucketOf(j))
  <2>1. Refilled(bucket) = rest
    BY <1>0, <1>2, RefilledIs
  <2> SUFFICES ASSUME NEW j \in LimitedKeys
               PROVE  Refilled(BucketOf(j))' = IF j = k THEN rest ELSE Refilled(BucketOf(j))
    OBVIOUS
  <2>2. BucketOf(j)' = IF j = k THEN bucket ELSE BucketOf(j)
    BY <1>3, <1>4 DEF BucketOf, Fresh
  <2> HIDE DEF bucket, has, rest
  <2>3. Refilled(BucketOf(j))' = Refilled(BucketOf(j)')
    BY <1>3 DEF Refilled
  <2> QED
    BY <2>1, <2>2, <2>3
<1> HIDE DEF bucket, has, rest
<1>6. \A j \in LimitedKeys : \A since \in 0..MaxLimitTime :
        granted'[j][since] = IF j = k /\ since <= limitTime /\ has >= n
                             THEN granted[j][since] + n ELSE granted[j][since]
  <2>1. /\ granted \in [LimitedKeys -> [0..MaxLimitTime -> Nat]]
        /\ \A since \in 0..MaxLimitTime : granted[k][since] \in Nat
    BY <1>0 DEF RateTypeOK
  <2>2. \A since \in 0..MaxLimitTime :
          GrantedMore(k, n)[since] = granted[k][since] + IF since <= limitTime THEN n ELSE 0
    BY DEF GrantedMore
  <2> QED
    BY <1>0, <1>3, <2>1, <2>2
<1>7. RateTypeOK'
  <2>1. granted' \in [LimitedKeys -> [0..MaxLimitTime -> Nat]]
    <3>1. GrantedMore(k, n) \in [0..MaxLimitTime -> Nat]
      <4>1. \A since \in 0..MaxLimitTime :
              granted[k][since] + (IF since <= limitTime THEN n ELSE 0) \in Nat
        <5>1. \A since \in 0..MaxLimitTime : granted[k][since] \in Nat
          BY <1>0 DEF RateTypeOK
        <5> QED
          BY <1>0, <5>1
      <4> QED
        BY <4>1 DEF GrantedMore
    <3> QED
      BY <1>0, <1>3, <3>1 DEF RateTypeOK
  <2>2. promised' \in [LimitedKeys -> [at : Nat, tokens : 0..(Burst + 1)]]
    <3>1. NoPromise \in [at : Nat, tokens : 0..(Burst + 1)]
      BY <1>0 DEF NoPromise
    <3>2. ~(has >= n) => [at |-> limitTime + ResetIn(n - has), tokens |-> n]
                           \in [at : Nat, tokens : 0..(Burst + 1)]
      <4>1. ~(has >= n) => n - has \in Nat \ {0}
        BY <1>0, <1>1
      <4> QED
        BY <1>0, <4>1, CeilingCovers
    <3> QED
      BY <1>0, <1>3, <3>1, <3>2 DEF RateTypeOK
  <2>3. /\ DOMAIN buckets' \subseteq LimitedKeys
        /\ buckets' \in [DOMAIN buckets' -> [tokens : 0..Burst, lastUpdate : 0..limitTime]]
    <3>1. \A j \in DOMAIN buckets' : buckets'[j] \in [tokens : 0..Burst, lastUpdate : 0..limitTime]
      BY <1>0, <1>2, <1>4 DEF RateTypeOK
    <3>2. buckets' = [j \in DOMAIN buckets' |-> buckets'[j]]
      BY <1>3, <1>4 DEF WithBucket
    <3> QED
      BY <1>0, <1>4, <3>1, <3>2 DEF RateTypeOK
  <2> QED
    BY <1>0, <1>3, <2>1, <2>2, <2>3 DEF RateTypeOK
<1>8. NothingAhead'
  BY <1>0, <1>3, <1>6 DEF NothingAhead, RateInv
<1>9. WithinBudget'
  <2> SUFFICES ASSUME (Window + 1) * Rate >= Burst, NEW j \in LimitedKeys, NEW since \in 0..limitTime
               PROVE  granted'[j][since] + Refilled(BucketOf(j))' <=
                        Burst + Rate * (limitTime - since)
    BY <1>3 DEF WithinBudget
  <2>1. granted[j][since] + Refilled(BucketOf(j)) <= Burst + Rate * (limitTime - since)
    BY DEF RateInv, WithinBudget
  <2>2. since \in 0..MaxLimitTime /\ since <= limitTime /\ granted[j][since] \in Nat
    <3>1. since \in 0..MaxLimitTime /\ since <= limitTime
      BY <1>0, RateAssumption
    <3> QED
      BY <1>0, <3>1 DEF RateTypeOK
  <2>3. granted'[j][since] + Refilled(BucketOf(j))' = granted[j][since] + Refilled(BucketOf(j))
    <3>1. CASE j = k
      <4>1. Refilled(BucketOf(j)) = has /\ Refilled(BucketOf(j))' = rest
        BY <1>5, <3>1 DEF has
      <4>2. granted'[j][since] = IF has >= n THEN granted[j][since] + n ELSE granted[j][since]
        BY <1>6, <2>2, <3>1
      <4> QED
        BY <1>0, <1>1, <2>2, <4>1, <4>2 DEF rest
    <3>2. CASE j # k
      BY <1>5, <1>6, <2>2, <3>2
    <3> QED
      BY <3>1, <3>2
  <2> QED
    BY <2>1, <2>3
<1>10. ResetInIsEnough'
  <2> SUFFICES ASSUME NEW j \in LimitedKeys, promised'[j].tokens \in 1..Burst
               PROVE  IF limitTime >= promised'[j].at
                      THEN Refilled(BucketOf(j))' >= promised'[j].tokens
                      ELSE Refilled(BucketOf(j))' + Rate * (promised'[j].at - limitTime)
                             >= promised'[j].tokens
    BY <1>3 DEF ResetInIsEnough
  <2>1. CASE j # k
    <3>1. promised'[j] = promised[j] /\ Refilled(BucketOf(j))' = Refilled(BucketOf(j))
      BY <1>0, <1>3, <1>5, <2>1 DEF RateTypeOK
    <3> QED
      BY <3>1 DEF RateInv, ResetInIsEnough
  <2>2. CASE j = k
    <3>1. ~(has >= n) /\ promised'[j] = [at |-> limitTime + ResetIn(n - has), tokens |-> n]
      BY <1>0, <1>3, <2>2 DEF RateTypeOK, NoPromise
    <3>2. /\ n - has \in Nat \ {0} /\ ResetIn(n - has) \in Nat \ {0}
          /\ Rate * ResetIn(n - has) >= n - has
      BY <1>0, <1>1, <3>1, CeilingCovers
    <3>3. promised'[j].at - limitTime = ResetIn(n - has) /\ promised'[j].tokens = n
          /\ ~(limitTime >= promised'[j].at)
      BY <1>0, <3>1, <3>2
    <3>4. Refilled(BucketOf(j))' = has
      BY <1>5, <2>2, <3>1 DEF rest
    <3>5. Rate * ResetIn(n - has) \in Int
      BY <3>2, RateAssumption, Distributes
    <3> QED
      BY <1>0, <1>1, <3>2, <3>3, <3>4, <3>5
  <2> QED
    BY <2>1, <2>2
<1> QED
  BY <1>7, <1>8, <1>9, <1>10 DEF RateInv

\* A bucket that was made or forgotten leaves no key with less than it had,
\* and a key that had the burst with what it had.
LEMMA BucketsChange ==
  ASSUME RateInv, UNCHANGED <<limitTime, granted, promised>>,
         RateTypeOK',
         \A k \in LimitedKeys :
           /\ Refilled(BucketOf(k))' \in 0..Burst
           /\ Refilled(BucketOf(k))' >= Refilled(BucketOf(k))
           /\ (Window + 1) * Rate >= Burst =>
                Refilled(BucketOf(k))' = Refilled(BucketOf(k))
  PROVE  RateInv'
<1>1. NothingAhead' /\ WithinBudget'
  BY DEF RateInv, NothingAhead, WithinBudget
<1>2. ResetInIsEnough'
  <2> SUFFICES ASSUME NEW k \in LimitedKeys, promised[k].tokens \in 1..Burst
               PROVE  IF limitTime >= promised[k].at
                      THEN Refilled(BucketOf(k))' >= promised[k].tokens
                      ELSE Refilled(BucketOf(k))' + Rate * (promised[k].at - limitTime)
                             >= promised[k].tokens
    BY DEF ResetInIsEnough
  <2>1. /\ Refilled(BucketOf(k)) \in 0..Burst /\ Refilled(BucketOf(k))' \in 0..Burst
        /\ Refilled(BucketOf(k))' >= Refilled(BucketOf(k))
    <3>1. Refilled(BucketOf(k)) \in 0..Burst
      BY BucketTyped, RefilledIs DEF RateInv
    <3> QED
      BY <3>1
  <2>2. /\ promised[k].at - limitTime \in Int /\ Rate \in Nat /\ Burst \in Nat
        /\ promised[k].tokens \in Int
    BY RateAssumption DEF RateInv, RateTypeOK
  <2>3. Rate * (promised[k].at - limitTime) \in Int
    BY <2>2, Distributes
  <2>4. IF limitTime >= promised[k].at THEN Refilled(BucketOf(k)) >= promised[k].tokens
        ELSE Refilled(BucketOf(k)) + Rate * (promised[k].at - limitTime) >= promised[k].tokens
    BY DEF RateInv, ResetInIsEnough
  <2> QED
    BY <2>1, <2>2, <2>3, <2>4
<1> QED
  BY <1>1, <1>2 DEF RateInv

\* peek leaves each key what it has.
LEMMA PeekStep ==
  ASSUME RateInv, NEW k \in LimitedKeys, Peek(k)
  PROVE  RateInv'
<1>1. RateTypeOK /\ UNCHANGED <<limitTime, granted, promised>>
  BY DEF RateInv, Peek
<1>2. /\ DOMAIN buckets' = DOMAIN buckets \cup {k}
      /\ \A j \in DOMAIN buckets' : buckets'[j] = IF j = k THEN BucketOf(k) ELSE buckets[j]
      /\ buckets' = [j \in DOMAIN buckets' |-> buckets'[j]]
  BY DEF Peek, WithBucket
<1>3. BucketOf(k) \in [tokens : 0..Burst, lastUpdate : 0..limitTime]
  BY <1>1, BucketTyped
<1>4. \A j \in DOMAIN buckets' : buckets'[j] \in [tokens : 0..Burst, lastUpdate : 0..limitTime]
  BY <1>1, <1>2, <1>3 DEF RateTypeOK
<1>5. RateTypeOK'
  BY <1>1, <1>2, <1>4 DEF RateTypeOK
<1>6. \A j \in LimitedKeys : BucketOf(j)' = BucketOf(j)
  BY <1>1, <1>2 DEF BucketOf, Fresh
<1>7. \A j \in LimitedKeys : Refilled(BucketOf(j))' = Refilled(BucketOf(j))
  BY <1>1, <1>6 DEF Refilled
<1>8. \A j \in LimitedKeys :
        /\ Refilled(BucketOf(j))' \in 0..Burst
        /\ Refilled(BucketOf(j))' >= Refilled(BucketOf(j))
  <2>1. \A j \in LimitedKeys : Refilled(BucketOf(j)) \in 0..Burst
    BY <1>1, BucketTyped, RefilledIs
  <2> QED
    BY <1>7, <2>1
<1> QED
  BY <1>1, <1>5, <1>7, <1>8, BucketsChange

\* Forgetting buckets keeps the types; their keys would be given full ones.
LEMMA Forgetting ==
  ASSUME RateTypeOK, NEW S, buckets' = Without(S), limitTime' = limitTime
  PROVE  /\ DOMAIN buckets' \subseteq LimitedKeys
         /\ buckets' \in [DOMAIN buckets' -> [tokens : 0..Burst, lastUpdate : 0..limitTime]]
         /\ \A k \in LimitedKeys :
              Refilled(BucketOf(k))' = IF k \in S THEN Burst ELSE Refilled(BucketOf(k))
<1>1. /\ DOMAIN buckets' = DOMAIN buckets \ S
      /\ \A k \in DOMAIN buckets' : buckets'[k] = buckets[k]
      /\ buckets' = [k \in DOMAIN buckets' |-> buckets'[k]]
  BY DEF Without
<1>2. \A k \in DOMAIN buckets' : buckets'[k] \in [tokens : 0..Burst, lastUpdate : 0..limitTime]
  BY <1>1 DEF RateTypeOK
<1>3. SUFFICES ASSUME NEW k \in LimitedKeys
               PROVE  Refilled(BucketOf(k))' = IF k \in S THEN Burst ELSE Refilled(BucketOf(k))
  BY <1>1, <1>2 DEF RateTypeOK
<1>4. BucketOf(k)' = IF k \in S THEN Fresh ELSE BucketOf(k)
  BY <1>1 DEF BucketOf, Fresh
<1>5. Refilled(BucketOf(k))' = Refilled(BucketOf(k)')
  BY DEF Refilled
<1>6. Refilled(Fresh) = Burst
  <2>1. /\ Fresh \in [tokens : 0..Burst, lastUpdate : 0..limitTime]
        /\ Fresh.lastUpdate = limitTime /\ Fresh.tokens = Burst
    BY RateAssumption DEF RateTypeOK, Fresh
  <2> QED
    BY <2>1, RefilledIs
<1> QED
  BY <1>4, <1>5, <1>6

LEMMA ResetStep ==
  ASSUME RateInv, ResetBuckets
  PROVE  RateInv'
<1>1. PICK S \in {{k} : k \in LimitedKeys} \cup {LimitedKeys} :
        /\ buckets' = Without(S)
        /\ granted' = [k \in LimitedKeys |-> IF k \in S THEN NothingGranted ELSE granted[k]]
        /\ UNCHANGED <<limitTime, promised>>
  BY DEF ResetBuckets
<1>2. /\ RateTypeOK /\ limitTime \in 0..MaxLimitTime /\ Burst \in Nat /\ Rate \in Nat
      /\ MaxLimitTime \in Nat
  BY RateAssumption DEF RateInv, RateTypeOK
<1>3. /\ DOMAIN buckets' \subseteq LimitedKeys
      /\ buckets' \in [DOMAIN buckets' -> [tokens : 0..Burst, lastUpdate : 0..limitTime]]
      /\ \A k \in LimitedKeys :
           Refilled(BucketOf(k))' = IF k \in S THEN Burst ELSE Refilled(BucketOf(k))
  BY <1>1, <1>2, Forgetting
<1>4. \A k \in LimitedKeys : \A since \in 0..MaxLimitTime :
        granted'[k][since] = IF k \in S THEN 0 ELSE granted[k][since]
  BY <1>1 DEF NothingGranted
<1>5. RateTypeOK'
  <2>1. granted' \in [LimitedKeys -> [0..MaxLimitTime -> Nat]]
    BY <1>1, <1>2 DEF NothingGranted, RateTypeOK
  <2> QED
    BY <1>1, <1>2, <1>3, <2>1 DEF RateTypeOK
<1>6. NothingAhead'
  BY <1>1, <1>2, <1>4 DEF NothingAhead, RateInv
<1>7. \A k \in LimitedKeys : Refilled(BucketOf(k)) \in 0..Burst
  BY <1>2, BucketTyped, RefilledIs
<1>8. WithinBudget'
  <2> SUFFICES ASSUME (Window + 1) * Rate >= Burst, NEW k \in LimitedKeys, NEW since \in 0..limitTime
               PROVE  granted'[k][since] + Refilled(BucketOf(k))' <=
                        Burst + Rate * (limitTime - since)
    BY <1>1 DEF WithinBudget
  <2>1. limitTime - since \in Nat /\ Rate * (limitTime - since) \in Nat /\ since \in 0..MaxLimitTime
    <3>1. limitTime - since \in Nat /\ since \in 0..MaxLimitTime
      BY <1>2
    <3> QED
      BY <1>2, <3>1, Products
  <2>2. CASE k \in S
    BY <1>2, <1>3, <1>4, <2>1, <2>2
  <2>3. CASE k \notin S
    BY <1>3, <1>4, <2>1, <2>3 DEF RateInv, WithinBudget
  <2> QED
    BY <2>2, <2>3
<1>9. ResetInIsEnough'
  <2> SUFFICES ASSUME NEW k \in LimitedKeys, promised[k].tokens \in 1..Burst
               PROVE  IF limitTime >= promised[k].at
                      THEN Refilled(BucketOf(k))' >= promised[k].tokens
                      ELSE Refilled(BucketOf(k))' + Rate * (promised[k].at - limitTime)
                             >= promised[k].tokens
    BY <1>1 DEF ResetInIsEnough
  <2>1. CASE k \in S
    <3>1. promised[k].at \in Nat /\ promised[k].tokens \in Int /\ promised[k].tokens <= Burst
      BY <1>2 DEF RateTypeOK
    <3>2. ~(limitTime >= promised[k].at) => promised[k].at - limitTime \in Nat
      BY <1>2, <3>1
    <3>3. ~(limitTime >= promised[k].at) => Rate * (promised[k].at - limitTime) \in Nat
      BY <1>2, <3>2, Products
    <3>4. Refilled(BucketOf(k))' = Burst
      BY <1>3, <2>1
    <3> QED
      BY <1>2, <3>1, <3>3, <3>4
  <2>2. CASE k \notin S
    BY <1>3, <2>2 DEF RateInv, ResetInIsEnough
  <2> QED
    BY <2>1, <2>2
<1> QED
  BY <1>5, <1>6, <1>8, <1>9 DEF RateInv

\* A bucket that cleanup forgets had the time to fill.
LEMMA CleanupStep ==
  ASSUME RateInv, CleanupBuckets
  PROVE  RateInv'
<1> DEFINE S == {k \in DOMAIN buckets : StaleBucket(buckets[k])}
<1>1. /\ buckets' = Without(S) /\ UNCHANGED <<limitTime, granted, promised>>
  BY DEF CleanupBuckets
<1>2. /\ RateTypeOK /\ limitTime \in Nat /\ Burst \in Nat /\ Rate \in Nat /\ Window \in Nat
  BY RateAssumption DEF RateInv, RateTypeOK
<1>3. /\ DOMAIN buckets' \subseteq LimitedKeys
      /\ buckets' \in [DOMAIN buckets' -> [tokens : 0..Burst, lastUpdate : 0..limitTime]]
      /\ \A k \in LimitedKeys :
           Refilled(BucketOf(k))' = IF k \in S THEN Burst ELSE Refilled(BucketOf(k))
  BY <1>1, <1>2, Forgetting
<1>4. RateTypeOK'
  BY <1>1, <1>2, <1>3 DEF RateTypeOK
<1>5. \A k \in LimitedKeys : Refilled(BucketOf(k)) \in 0..Burst
  BY <1>2, BucketTyped, RefilledIs
<1>6. ASSUME (Window + 1) * Rate >= Burst, NEW k \in S
      PROVE  Refilled(BucketOf(k)) = Burst
  <2>1. /\ k \in DOMAIN buckets /\ buckets[k].lastUpdate < limitTime - Window
        /\ buckets[k].lastUpdate \in Nat /\ buckets[k].tokens \in Nat
        /\ BucketOf(k) = buckets[k]
    BY <1>2 DEF StaleBucket, RateTypeOK, BucketOf
  <2> DEFINE span == limitTime - buckets[k].lastUpdate
  <2>2. Window + 1 \in Nat /\ span \in Nat /\ Window + 1 <= span
    BY <1>2, <2>1
  <2>3. Refilled(BucketOf(k)) = IF buckets[k].tokens + span * Rate < Burst
                                THEN buckets[k].tokens + span * Rate ELSE Burst
    BY <2>1 DEF Refilled
  <2> HIDE DEF span
  <2>4. (Window + 1) * Rate <= span * Rate
    BY <1>2, <2>2, ProductsGrow
  <2>5. (Window + 1) * Rate \in Nat /\ span * Rate \in Nat
    BY <1>2, <2>2, Products
  <2> QED
    BY <1>2, <1>6, <2>1, <2>3, <2>4, <2>5
<1> HIDE DEF S
<1>7. \A k \in LimitedKeys :
        /\ Refilled(BucketOf(k))' \in 0..Burst
        /\ Refilled(BucketOf(k))' >= Refilled(BucketOf(k))
        /\ (Window + 1) * Rate >= Burst => Refilled(BucketOf(k))' = Refilled(BucketOf(k))
  BY <1>2, <1>3, <1>5, <1>6
<1> QED
  BY <1>1, <1>4, <1>7, BucketsChange

\* In a unit of time Rate tokens come, which the budget of each span counts.
LEMMA LimitTimePassesStep ==
  ASSUME RateInv, LimitTimePasses
  PROVE  RateInv'
<1>1. /\ RateTypeOK /\ limitTime \in Nat /\ limitTime < MaxLimitTime /\ MaxLimitTime \in Nat
      /\ Burst \in Nat /\ Rate \in Nat /\ Rate > 0
      /\ limitTime' = limitTime + 1 /\ UNCHANGED <<buckets, granted, promised>>
  BY RateAssumption DEF RateInv, RateTypeOK, LimitTimePasses
<1>2. RateTypeOK'
  <2>1. \A k \in DOMAIN buckets : buckets[k] \in [tokens : 0..Burst, lastUpdate : 0..limitTime']
    BY <1>1 DEF RateTypeOK
  <2>2. limitTime' \in 0..MaxLimitTime
    BY <1>1
  <2> QED
    BY <1>1, <2>1, <2>2 DEF RateTypeOK
<1>3. \A k \in LimitedKeys :
        /\ Refilled(BucketOf(k)) \in 0..Burst
        /\ Refilled(BucketOf(k))' =
             IF Refilled(BucketOf(k)) + Rate < Burst THEN Refilled(BucketOf(k)) + Rate ELSE Burst
  <2> SUFFICES ASSUME NEW k \in LimitedKeys
               PROVE  /\ Refilled(BucketOf(k)) \in 0..Burst
                      /\ Refilled(BucketOf(k))' =
                           IF Refilled(BucketOf(k)) + Rate < Burst
                           THEN Refilled(BucketOf(k)) + Rate ELSE Burst
    OBVIOUS
  <2>1. /\ BucketOf(k) \in [tokens : 0..Burst, lastUpdate : 0..limitTime]
        /\ Refilled(BucketOf(k)) \in 0..Burst
        /\ k \notin DOMAIN buckets => Refilled(BucketOf(k)) = Burst
    BY <1>1, BucketTyped, RefilledIs
  <2>2. CASE k \in DOMAIN buckets
    <3>1. buckets[k] \in [tokens : 0..Burst, lastUpdate : 0..limitTime]
      BY <1>1, <2>2 DEF RateTypeOK
    <3>2. BucketOf(k) = buckets[k] /\ BucketOf(k)' = buckets[k]
      BY <1>1, <2>2 DEF BucketOf
    <3>3. Refilled(buckets[k])' =
            IF Refilled(buckets[k]) + Rate < Burst THEN Refilled(buckets[k]) + Rate ELSE Burst
      BY <1>1, <3>1, RefilledIs
    <3>4. Refilled(BucketOf(k))' = Refilled(buckets[k])'
      BY <1>1, <3>2 DEF Refilled
    <3> QED
      BY <2>1, <3>2, <3>3, <3>4
  <2>3. CASE k \notin DOMAIN buckets
    <3>1. BucketOf(k)' = [tokens |-> Burst, lastUpdate |-> limitTime + 1]
      BY <1>1, <2>3 DEF BucketOf, Fresh
    <3>2. 0 * Rate = 0 /\ limitTime + 1 - (limitTime + 1) = 0
      BY <1>1, Distributes
    <3>3. Refilled(BucketOf(k))' = Burst
      BY <1>1, <3>1, <3>2 DEF Refilled
    <3> QED
      BY <1>1, <2>1, <2>3, <3>3
  <2> QED
    BY <2>2, <2>3
<1>4. NothingAhead'
  BY <1>1 DEF NothingAhead, RateInv
<1>5. WithinBudget'
  <2> SUFFICES ASSUME (Window + 1) * Rate >= Burst, NEW k \in LimitedKeys,
                      NEW since \in 0..(limitTime + 1)
               PROVE  granted[k][since] + Refilled(BucketOf(k))' <=
                        Burst + Rate * (limitTime + 1 - since)
    BY <1>1 DEF WithinBudget
  <2>1. CASE since \in 0..limitTime
    <3>1. /\ limitTime - since \in Nat /\ Rate * (limitTime - since) \in Nat
          /\ limitTime + 1 - since = limitTime - since + 1
          /\ Rate * (limitTime - since + 1) = Rate * (limitTime - since) + Rate
      <4>1. limitTime - since \in Nat /\ limitTime + 1 - since = limitTime - since + 1
        BY <1>1, <2>1
      <4> QED
        BY <1>1, <4>1, Products, Distributes
    <3>2. granted[k][since] \in Nat
      <4>1. since \in 0..MaxLimitTime
        BY <1>1, <2>1
      <4> QED
        BY <1>1, <4>1 DEF RateTypeOK
    <3>3. granted[k][since] + Refilled(BucketOf(k)) <= Burst + Rate * (limitTime - since)
      BY <2>1 DEF RateInv, WithinBudget
    <3> QED
      BY <1>1, <1>3, <3>1, <3>2, <3>3
  <2>2. CASE since = limitTime + 1
    <3>1. granted[k][since] = 0
      <4>1. since \in limitTime + 1..MaxLimitTime
        BY <1>1, <2>2
      <4> QED
        BY <4>1 DEF RateInv, NothingAhead
    <3>2. Rate * (limitTime + 1 - since) = 0
      BY <1>1, <2>2, Distributes
    <3> QED
      BY <1>1, <1>3, <3>1, <3>2
  <2> QED
    BY <1>1, <2>1, <2>2
<1>6. ResetInIsEnough'
  <2> SUFFICES ASSUME NEW k \in LimitedKeys, promised[k].tokens \in 1..Burst
               PROVE  IF limitTime + 1 >= promised[k].at
                      THEN Refilled(BucketOf(k))' >= promised[k].tokens
                      ELSE Refilled(BucketOf(k))' + Rate * (promised[k].at - (limitTime + 1))
                             >= promised[k].tokens
    BY <1>1 DEF ResetInIsEnough
  <2>1. promised[k].at \in Nat /\ promised[k].tokens \in Nat /\ promised[k].tokens <= Burst
    BY <1>1 DEF RateTypeOK
  <2>2. IF limitTime >= promised[k].at THEN Refilled(BucketOf(k)) >= promised[k].tokens
        ELSE Refilled(BucketOf(k)) + Rate * (promised[k].at - limitTime) >= promised[k].tokens
    BY DEF RateInv, ResetInIsEnough
  <2>3. CASE limitTime >= promised[k].at
    BY <1>1, <1>3, <2>1, <2>2, <2>3
  <2>4. CASE limitTime + 1 = promised[k].at
    <3>1. promised[k].at - limitTime = 1 /\ Rate * 1 = Rate
      BY <1>1, <2>1, <2>4, Distributes
    <3> QED
      BY <1>1, <1>3, <2>1, <2>2, <2>4, <3>1
  <2>5. CASE limitTime + 1 < promised[k].at
    <3> DEFINE left == promised[k].at - (limitTime + 1)
    <3>1. left \in Nat /\ promised[k].at - limitTime = left + 1
      BY <1>1, <2>1, <2>5
    <3> HIDE DEF left
    <3>2. Rate * left \in Nat /\ Rate * (left + 1) = Rate * left + Rate
      BY <1>1, <3>1, Products, Distributes
    <3>3. Refilled(BucketOf(k))' + Rate * left >= promised[k].tokens
      BY <1>1, <1>3, <2>1, <2>2, <2>5, <3>1, <3>2
    <3> QED
      BY <1>1, <2>1, <2>5, <3>3 DEF left
  <2> QED
    BY <1>1, <2>1, <2>3, <2>4, <2>5
<1> QED
  BY <1>2, <1>4, <1>5, <1>6 DEF RateInv

\* No key is given more in a span than the burst and what came in it, and
\* one that was refused finds its tokens when it was told to.
THEOREM RateInvariance == RateSpec => []RateInv
<1>1. RateInit => RateInv
  <2> SUFFICES ASSUME RateInit PROVE RateInv
    OBVIOUS
  <2>1. /\ limitTime = 0 /\ DOMAIN buckets = {} /\ MaxLimitTime \in Nat /\ Burst \in Nat
        /\ Rate \in Nat
        /\ \A k \in LimitedKeys : \A since \in 0..MaxLimitTime : granted[k][since] = 0
        /\ \A k \in LimitedKeys : promised[k] = NoPromise
    BY RateAssumption DEF RateInit, NothingGranted
  <2>2. RateTypeOK
    BY <2>1, RateAssumption DEF RateInit, RateTypeOK, NothingGranted, NoPromise
  <2>3. WithinBudget
    <3>1. \A k \in LimitedKeys : Refilled(BucketOf(k)) = Burst
      BY <2>1, <2>2, BucketTyped
    <3>2. Rate * 0 = 0
      BY <2>1, Distributes
    <3> QED
      BY <2>1, <3>1, <3>2 DEF WithinBudget
  <2>4. NothingAhead /\ ResetInIsEnough
    BY <2>1 DEF NothingAhead, ResetInIsEnough, NoPromise
  <2> QED
    BY <2>2, <2>3, <2>4 DEF RateInv
<1>2. RateInv /\ [RateNext]_rateVars => RateInv'
  <2> SUFFICES ASSUME RateInv, [RateNext]_rateVars PROVE RateInv'
    OBVIOUS
  <2>1. CASE UNCHANGED rateVars
    BY <2>1 DEF rateVars, RateInv, RateTypeOK, NothingAhead, WithinBudget, ResetInIsEnough,
                Refilled, BucketOf, Fresh
  <2> QED
    BY <2>1, ConsumeStep, PeekStep, ResetStep, CleanupStep, LimitTimePassesStep DEF RateNext
<1> QED
  BY <1>1, <1>2, PTL DEF RateSpec

-----------------------------------------------------------------------------
(***************************************************************************)
(* Proofs about the scores of agents, for any weights, bounds and decay.   *)
(* ReputationInv is inductive: clamping keeps the order of two scores, and *)
(* decay only takes.                                                       *)
(***************************************************************************)

\* Clamping bounds a score and keeps the order of two.
LEMMA Clamping ==
  ASSUME NEW m \in Int, NEW n \in Int
  PROVE  /\ Clamped(m) \in 0..MaxScore
         /\ m <= n => Clamped(m) <= Clamped(n)
         /\ n \in 0..MaxScore /\ m <= n => Clamped(m) <= n
BY ReputationAssumption DEF Clamped

\* The events that are kept are the last ones, at most MaxEvents.
LEMMA LastEventsKept ==
  ASSUME NEW q \in Seq(EventTypes), NEW type \in EventTypes
  PROVE  /\ LastEvents(Append(q, type)) \in Seq(EventTypes)
         /\ Len(LastEvents(Append(q, type))) <= MaxEvents
<1> DEFINE longer == Append(q, type)
<1>1. longer \in Seq(EventTypes) /\ Len(longer) \in Nat /\ MaxEvents \in Nat \ {0}
  BY ReputationAssumption, AppendProperties, LenProperties
<1> HIDE DEF longer
<1>2. ASSUME Len(longer) > MaxEvents
      PROVE  /\ SubSeq(longer, Len(longer) - MaxEvents + 1, Len(longer)) \in Seq(EventTypes)
             /\ Len(SubSeq(longer, Len(longer) - MaxEvents + 1, Len(longer))) = MaxEvents
  <2> DEFINE m == Len(longer) - MaxEvents + 1
  <2>1. m \in 1..Len(longer) /\ m \in Int /\ Len(longer) - m + 1 = MaxEvents
    BY <1>1, <1>2
  <2> HIDE DEF m
  <2>2. /\ SubSeq(longer, m, Len(longer)) \in Seq(EventTypes)
        /\ Len(SubSeq(longer, m, Len(longer))) = Len(longer) - m + 1
    BY <1>1, <2>1
  <2> QED
    BY <2>1, <2>2 DEF m
<1>3. LastEvents(longer) \in Seq(EventTypes) /\ Len(LastEvents(longer)) <= MaxEvents
  BY <1>1, <1>2 DEF LastEvents
<1> QED
  BY <1>3 DEF longer

\* The record an agent has, or would be given
LEMMA RecordTyped ==
  ASSUME ReputationInv, NEW a \in Agents
  PROVE  /\ GetOrCreateReputation(a) \in
              [score : 0..MaxScore, events : Seq(EventTypes), lastUpdated : 0..hour,
               messages : Nat, successes : Nat, failures : Nat]
         /\ GetOrCreateReputation(a).score <= undecayed[a]
<1>1. New \in [score : 0..MaxScore, events : Seq(EventTypes), lastUpdated : 0..hour,
               messages : Nat, successes : Nat, failures : Nat]
      /\ New.score = InitialScore
  <2>1. hour \in 0..hour /\ <<>> \in Seq(EventTypes)
    BY ReputationAssumption DEF ReputationInv, ReputationTypeOK
  <2> QED
    BY <2>1, ReputationAssumption DEF New
<1>2. a \notin DOMAIN reputations => undecayed[a] = InitialScore
  BY DEF ReputationInv, DecayOnlyLowers
<1>3. a \in DOMAIN reputations =>
        /\ reputations[a] \in
              [score : 0..MaxScore, events : Seq(EventTypes), lastUpdated : 0..hour,
               messages : Nat, successes : Nat, failures : Nat]
        /\ reputations[a].score <= undecayed[a]
  BY DEF ReputationInv, ReputationTypeOK, DecayOnlyLowers
<1> QED
  BY <1>1, <1>2, <1>3, ReputationAssumption DEF GetOrCreateReputation

LEMMA RecordStep ==
  ASSUME ReputationInv, NEW a \in Agents, NEW type \in EventTypes, RecordReputation(a, type)
  PROVE  ReputationInv'
<1> DEFINE r == GetOrCreateReputation(a)
           weight == EVENT_WEIGHTS[type]
           record == [score |-> Clamped(r.score + weight),
                      events |-> LastEvents(Append(r.events, type)),
                      lastUpdated |-> hour,
                      messages |-> r.messages + One(type \in {"message_valid", "message_invalid"}),
                      successes |-> r.successes + One(IsSuccess(type)),
                      failures |-> r.failures + One(IsFailure(type))]
<1>1. /\ reputations' = [b \in DOMAIN reputations \cup {a} |->
                          IF b # a THEN reputations[b] ELSE record]
      /\ undecayed' = [undecayed EXCEPT ![a] = Clamped(undecayed[a] + weight)]
      /\ hour' = hour
  BY DEF RecordReputation
<1>2. /\ r \in [score : 0..MaxScore, events : Seq(EventTypes), lastUpdated : 0..hour,
                messages : Nat, successes : Nat, failures : Nat]
      /\ r.score <= undecayed[a]
  BY RecordTyped
<1>3. weight \in Int
  BY ReputationAssumption DEF EVENT_WEIGHTS
<1>4. undecayed[a] \in 0..MaxScore /\ hour \in 0..hour /\ MaxScore \in Nat
  BY ReputationAssumption DEF ReputationInv, ReputationTypeOK
<1>5. \A c \in BOOLEAN : One(c) \in Nat
  BY DEF One
<1>6. /\ LastEvents(Append(r.events, type)) \in Seq(EventTypes)
      /\ Len(LastEvents(Append(r.events, type))) <= MaxEvents
  BY <1>2, LastEventsKept
<1>7. /\ Clamped(r.score + weight) \in 0..MaxScore
      /\ Clamped(undecayed[a] + weight) \in 0..MaxScore
      /\ Clamped(r.score + weight) <= Clamped(undecayed[a] + weight)
  <2>1. r.score + weight \in Int /\ undecayed[a] + weight \in Int
        /\ r.score + weight <= undecayed[a] + weight
    BY <1>2, <1>3, <1>4
  <2> QED
    BY <2>1, Clamping
<1>8. record \in [score : 0..MaxScore, events : Seq(EventTypes), lastUpdated : 0..hour,
                  messages : Nat, successes : Nat, failures : Nat]
  <2>1. /\ One(type \in {"message_valid", "message_invalid"}) \in Nat
        /\ One(IsSuccess(type)) \in Nat /\ One(IsFailure(type)) \in Nat
    BY DEF One
  <2>2. /\ r.messages + One(type \in {"message_valid", "message_invalid"}) \in Nat
        /\ r.successes + One(IsSuccess(type)) \in Nat
        /\ r.failures + One(IsFailure(type)) \in Nat
    BY <1>2, <2>1
  <2> QED
    BY <1>4, <1>6, <1>7, <2>2
<1>9. record.score = Clamped(r.score + weight)
      /\ record.events = LastEvents(Append(r.events, type))
  OBVIOUS
<1> HIDE DEF record, r, weight
<1>10. /\ DOMAIN reputations' = DOMAIN reputations \cup {a}
       /\ \A b \in DOMAIN reputations' : reputations'[b] = IF b # a THEN reputations[b] ELSE record
       /\ reputations' = [b \in DOMAIN reputations' |-> reputations'[b]]
  BY <1>1
<1>11. ReputationTypeOK'
  <2>1. \A b \in DOMAIN reputations' :
          reputations'[b] \in
            [score : 0..MaxScore, events : Seq(EventTypes), lastUpdated : 0..hour,
             messages : Nat, successes : Nat, failures : Nat]
    BY <1>8, <1>10 DEF ReputationInv, ReputationTypeOK
  <2>2. \A b \in DOMAIN reputations' : Len(reputations'[b].events) <= MaxEvents
    BY <1>6, <1>9, <1>10 DEF ReputationInv, ReputationTypeOK
  <2>3. undecayed' \in [Agents -> 0..MaxScore]
    BY <1>1, <1>7 DEF ReputationInv, ReputationTypeOK
  <2> QED
    BY <1>1, <1>10, <2>1, <2>2, <2>3 DEF ReputationInv, ReputationTypeOK
<1>12. DecayOnlyLowers'
  BY <1>1, <1>7, <1>9, <1>10 DEF ReputationInv, ReputationTypeOK, DecayOnlyLowers
<1> QED
  BY <1>11, <1>12 DEF ReputationInv

LEMMA ReadStep ==
  ASSUME ReputationInv, ReadReputation
  PROVE  ReputationInv'
<1>1. PICK S : /\ reputations' = [a \in DOMAIN reputations |->
                    IF a \in S THEN [reputations[a] EXCEPT !.score = Decayed(reputations[a])]
                    ELSE reputations[a]]
               /\ UNCHANGED <<hour, undecayed>>
  BY DEF ReadReputation, ApplyDecay
<1>2. \A a \in DOMAIN reputations :
        /\ Decayed(reputations[a]) \in 0..MaxScore
        /\ Decayed(reputations[a]) <= reputations[a].score
  <2> SUFFICES ASSUME NEW a \in DOMAIN reputations
               PROVE  /\ Decayed(reputations[a]) \in 0..MaxScore
                      /\ Decayed(reputations[a]) <= reputations[a].score
    OBVIOUS
  <2>1. reputations[a].score \in 0..MaxScore /\ hour - reputations[a].lastUpdated \in Nat
    BY DEF ReputationInv, ReputationTypeOK
  <2>2. (hour - reputations[a].lastUpdated) * DecayPerHour \in Nat
    BY <2>1, ReputationAssumption, Products
  <2>3. /\ reputations[a].score - (hour - reputations[a].lastUpdated) * DecayPerHour \in Int
        /\ reputations[a].score - (hour - reputations[a].lastUpdated) * DecayPerHour
             <= reputations[a].score
    BY <2>1, <2>2, ReputationAssumption
  <2> QED
    BY <2>1, <2>3, Clamping DEF Decayed
<1>3. DOMAIN reputations' = DOMAIN reputations
      /\ \A a \in DOMAIN reputations' :
           reputations'[a] = IF a \in S THEN [reputations[a] EXCEPT !.score = Decayed(reputations[a])]
                             ELSE reputations[a]
  BY <1>1
<1>4. \A a \in DOMAIN reputations' :
        /\ reputations'[a] \in
             [score : 0..MaxScore, events : Seq(EventTypes), lastUpdated : 0..hour,
              messages : Nat, successes : Nat, failures : Nat]
        /\ Len(reputations'[a].events) <= MaxEvents
        /\ reputations'[a].score <= undecayed[a]
  <2> SUFFICES ASSUME NEW a \in DOMAIN reputations
               PROVE  /\ reputations'[a] \in
                           [score : 0..MaxScore, events : Seq(EventTypes), lastUpdated : 0..hour,
                            messages : Nat, successes : Nat, failures : Nat]
                      /\ Len(reputations'[a].events) <= MaxEvents
                      /\ reputations'[a].score <= undecayed[a]
    BY <1>3
  <2>1. /\ reputations[a] \in
             [score : 0..MaxScore, events : Seq(EventTypes), lastUpdated : 0..hour,
              messages : Nat, successes : Nat, failures : Nat]
        /\ Len(reputations[a].events) <= MaxEvents
        /\ reputations[a].score <= undecayed[a]
        /\ undecayed[a] \in 0..MaxScore
    BY DEF ReputationInv, ReputationTypeOK, DecayOnlyLowers
  <2>2. CASE a \notin S
    BY <1>3, <2>1, <2>2
  <2>3. CASE a \in S
    <3>1. /\ reputations'[a].score = Decayed(reputations[a])
          /\ reputations'[a].events = reputations[a].events
          /\ reputations'[a] \in
               [score : 0..MaxScore, events : Seq(EventTypes), lastUpdated : 0..hour,
                messages : Nat, successes : Nat, failures : Nat]
      BY <1>2, <1>3, <2>1, <2>3
    <3>2. Decayed(reputations[a]) <= undecayed[a]
      BY <1>2, <2>1
    <3> QED
      BY <2>1, <3>1, <3>2
  <2> QED
    BY <2>2, <2>3
<1>5. ReputationTypeOK'
  BY <1>1, <1>3, <1>4 DEF ReputationInv, ReputationTypeOK
<1>6. DecayOnlyLowers'
  BY <1>1, <1>3, <1>4 DEF ReputationInv, DecayOnlyLowers
<1> QED
  BY <1>5, <1>6 DEF ReputationInv

\* An agent never stands better than its events alone would have it.
THEOREM ReputationInvariance == ReputationSpec => []ReputationInv
<1>1. ReputationInit => ReputationInv
  BY ReputationAssumption
  DEF ReputationInit, ReputationInv, ReputationTypeOK, DecayOnlyLowers
<1>2. ReputationInv /\ [ReputationNext]_reputationVars => ReputationInv'
  <2> SUFFICES ASSUME ReputationInv, [ReputationNext]_reputationVars PROVE ReputationInv'
    OBVIOUS
  <2>1. CASE UNCHANGED reputationVars
    BY <2>1 DEF reputationVars, ReputationInv, ReputationTypeOK, DecayOnlyLowers
  <2>2. CASE ResetReputation
    BY <2>2, ReputationAssumption
    DEF ResetReputation, ReputationInv, ReputationTypeOK, DecayOnlyLowers
  <2>3. CASE HourPasses
    <3>1. /\ hour' = hour + 1 /\ hour' \in 0..MaxHours /\ 0..hour \subseteq 0..hour'
          /\ UNCHANGED <<reputations, undecayed>>
      BY <2>3, ReputationAssumption DEF HourPasses, ReputationInv, ReputationTypeOK
    <3>2. \A a \in DOMAIN reputations :
            reputations[a] \in
              [score : 0..MaxScore, events : Seq(EventTypes), lastUpdated : 0..hour',
               messages : Nat, successes : Nat, failures : Nat]
      BY <3>1 DEF ReputationInv, ReputationTypeOK
    <3> QED
      BY <3>1, <3>2 DEF ReputationInv, ReputationTypeOK, DecayOnlyLowers
  <2> QED
    BY <2>1, <2>2, <2>3, RecordStep, ReadStep DEF ReputationNext
<1> QED
  BY <1>1, <1>2, PTL DEF ReputationSpec

\* Both hold together, as the parts share no state.
THEOREM LimitsInvariance == RateSpec /\ ReputationSpec => []LimitsInv
BY RateInvariance, ReputationInvariance, PTL DEF LimitsInv

-----------------------------------------------------------------------------
(***************************************************************************)
(* How a node finds others, for any number of peers, tries and nodes: the  *)
(* kind of NAT, hole punching, the choice of a path with its cache and     *)
(* sockets, bootstrap nodes, and the services of the local network.        *)
(***************************************************************************)

-----------------------------------------------------------------------------
(* Detection of the kind of NAT                                            *)

NatPart == NatTypeOK /\ SymmetricIsTrue /\ ResolvedInTurn

LEMMA NatPartInit == NatInit => NatPart
  BY AnswersAssumption
  DEF NatInit, NatPart, NatTypeOK, SymmetricIsTrue, ResolvedInTurn, Addresses, MappedBy

LEMMA MappedByAddress ==
  ASSUME NatTypeOK, NEW s \in 1..2
  PROVE  MappedBy(s) \in Addresses
  BY DEF NatTypeOK, MappedBy, Addresses

(* What Resolve does, of nothing or of the answer of the server in turn.     *)
LEMMA ResolveKeepsNatPart ==
  ASSUME NatPart, test \in 1..2, NEW to, to \in {"null", MappedBy(test)}, Resolve(to),
         answers' \in [1..2 -> 0..MaxAnswers], \A s \in 1..2 : answers'[s] <= sent[s],
         UNCHANGED <<nat, sent>>
  PROVE  NatPart'
  <1> USE DEF NatPart
  <1>1. to \in Addresses \cup {"null"} /\ to # "none"
    BY MappedByAddress DEF Addresses
  <1>2. \A s \in 1..2 : MappedBy(s)' = MappedBy(s)
    BY DEF MappedBy
  <1>3. /\ natType = "none" /\ sent' \in [1..2 -> 0..MaxAnswers] /\ nat' \in {"none", "cone", "symmetric"}
        /\ \A s \in 1..2 : answers'[s] <= sent'[s]
    BY DEF NatTypeOK
  <1>4. CASE test = 1
    <2>0. mapped[1] = "none" /\ mapped[2] = "none"
      BY <1>4 DEF ResolvedInTurn, NatTypeOK, Addresses
    <2>1. mapped' = [mapped EXCEPT ![1] = to]
      BY <2>0 DEF Resolve
    <2>2. mapped' \in [1..2 -> Addresses \cup {"none", "null"}] /\ mapped'[1] = to /\ mapped'[2] = "none"
      BY <1>1, <2>0, <2>1 DEF NatTypeOK
    <2>3. CASE to = "null"
      <3>1. test' = 3 /\ natType' = "public"
        BY <2>0, <2>1, <2>2, <2>3 DEF Resolve, Verdict, NoNat
      <3> QED
        BY <1>2, <1>3, <2>2, <2>3, <3>1 DEF NatTypeOK, SymmetricIsTrue, ResolvedInTurn
    <2>4. CASE to # "null"
      <3>1. test' = 2 /\ natType' = "none"
        BY <1>1, <1>3, <2>0, <2>1, <2>4 DEF Resolve, NoNat, LocalAddress, Addresses
      <3> QED
        BY <1>1, <1>2, <1>3, <1>4, <2>2, <2>4, <3>1 DEF NatTypeOK, SymmetricIsTrue, ResolvedInTurn
    <2> QED BY <2>3, <2>4
  <1>5. CASE test = 2
    <2>1. mapped' = [mapped EXCEPT ![2] = to] /\ mapped[1] # "none" /\ mapped[1] \in Addresses
      BY <1>5 DEF Resolve, ResolvedInTurn, NatTypeOK, Addresses
    <2>2. mapped' \in [1..2 -> Addresses \cup {"none", "null"}] /\ mapped'[1] = mapped[1] /\ mapped'[2] = to
      BY <1>1, <2>1 DEF NatTypeOK
    <2>3. test' = 3 /\ natType' = Verdict(mapped[1], to)
      BY <2>1, <2>2 DEF Resolve
    <2>4. mapped[1] = MappedBy(1)
      BY <2>1 DEF ResolvedInTurn, Addresses
    <2>5. natType' \in {"symmetric", "port_restricted"}
          /\ (natType' = "symmetric") = (to # "null" /\ to # mapped[1])
      BY <2>1, <2>3 DEF Verdict, NoNat, LocalAddress, Addresses
    <2>6. NatTypeOK'
      BY <1>3, <2>1, <2>2, <2>3, <2>5 DEF NatTypeOK
    <2>7. ResolvedInTurn'
      BY <1>1, <1>2, <1>5, <2>1, <2>2, <2>3 DEF ResolvedInTurn
    <2>8. SymmetricIsTrue'
      BY <1>3, <1>5, <2>2, <2>4, <2>5 DEF SymmetricIsTrue, MappedBy
    <2> QED BY <2>6, <2>7, <2>8
  <1> QED BY <1>4, <1>5

(* A server sends a datagram, or one is lost. *)
LEMMA DatagramKeepsNatPart ==
  ASSUME NatPart, NEW s \in 1..2, ServerAnswers(s) \/ Lost(s)
  PROVE  NatPart'
  <1> USE AnswersAssumption DEF NatPart
  <1>1. /\ answers' \in [1..2 -> 0..MaxAnswers] /\ sent' \in [1..2 -> 0..MaxAnswers]
        /\ \A t \in 1..2 : answers'[t] <= sent'[t]
    <2>1. CASE ServerAnswers(s)
      BY <2>1 DEF ServerAnswers, NatTypeOK
    <2>2. CASE Lost(s)
      BY <2>2 DEF Lost, NatTypeOK
    <2> QED BY <2>1, <2>2
  <1> QED
    BY <1>1 DEF ServerAnswers, Lost, NatTypeOK, SymmetricIsTrue, ResolvedInTurn, MappedBy

LEMMA NatPartStep == NatPart /\ [NatNext]_natVars => NatPart'
  <1> SUFFICES ASSUME NatPart, [NatNext]_natVars PROVE NatPart'
    OBVIOUS
  <1> USE AnswersAssumption DEF NatPart
  <1>1. CASE DetectNATType
    BY <1>1 DEF DetectNATType, NatTypeOK, SymmetricIsTrue, ResolvedInTurn, MappedBy
  <1>2. ASSUME NEW s \in 1..2, ServerAnswers(s) \/ Lost(s) PROVE NatPart'
    BY <1>2, DatagramKeepsNatPart
  <1>3. ASSUME NEW s \in 1..2, Arrives(s) PROVE NatPart'
    <2>1. answers' \in [1..2 -> 0..MaxAnswers] /\ \A t \in 1..2 : answers'[t] <= sent[t]
      BY <1>3 DEF Arrives, NatTypeOK
    <2>2. Parsed(s) \in {"null", MappedBy(test)}
      BY DEF Parsed
    <2> QED BY <1>3, <2>1, <2>2, ResolveKeepsNatPart DEF Arrives
  <1>4. CASE Timeout
    BY <1>4, ResolveKeepsNatPart DEF Timeout, NatTypeOK
  <1>5. CASE UNCHANGED natVars
    BY <1>5 DEF natVars, NatTypeOK, SymmetricIsTrue, ResolvedInTurn, MappedBy
  <1> QED BY <1>1, <1>2, <1>3, <1>4, <1>5 DEF NatNext

(* No datagram that is late, lost or sent twice makes a NAT a symmetric one. *)
THEOREM SymmetricIsNeverGuessed == NatSpec => []SymmetricIsTrue
  <1>1. NatSpec => []NatPart
    BY NatPartInit, NatPartStep, PTL DEF NatSpec
  <1>2. NatPart => SymmetricIsTrue
    BY DEF NatPart
  <1> QED BY <1>1, <1>2, PTL

-----------------------------------------------------------------------------
(* Hole punching                                                           *)

PunchPart == PunchTypeOK /\ OpenerIsHeldByBoth /\ PortIsFree /\ DialsAreHeld

LEMMA PunchPartInit == PunchInit => PunchPart
  BY PunchAssumption
  DEF PunchInit, PunchPart, PunchTypeOK, OpenerIsHeldByBoth, PortIsFree, DialsAreHeld, Dials, NoDial

(* A dial is of a peer and a number, and is not the null value. *)
LEMMA DialParts ==
  ASSUME NEW c \in Dials
  PROVE  c[1] \in Punchers /\ c[2] \in 1..MaxRetries /\ c = <<c[1], c[2]>> /\ c # NoDial
  BY DEF Dials, NoDial

(* One attempt: what it dials is new. *)
LEMMA AttemptKeepsPunchPart ==
  ASSUME PunchPart, NEW p \in Punchers, punching[p] \in {"idle", "waiting"}, Attempt(p)
  PROVE  PunchPart'
  <1> USE PunchAssumption DEF PunchPart
  <1> DEFINE d == <<p, round[p] + 1>>
  <1>1. d \in Dials /\ round[p] + 1 \in 0..MaxRetries /\ dialled[d] = "none"
    BY DEF Attempt, MayAttempt, PunchTypeOK, Dials, DialsAreHeld
  <1>2. dialled' = [dialled EXCEPT ![d] = "dialling"] /\ held' = held
    BY DEF Attempt
  <1>3. PunchTypeOK'
    BY <1>1, <1>2 DEF Attempt, PunchTypeOK
  <1>4. OpenerIsHeldByBoth'
    BY <1>2 DEF OpenerIsHeldByBoth
  <1>5. PortIsFree'
    BY <1>2 DEF Attempt, PortIsFree, PunchTypeOK
  <1>6. ASSUME NEW c \in Dials PROVE c[2] > round'[c[1]] => dialled'[c] = "none"
    <2>1. CASE c = d
      BY <2>1 DEF Attempt, PunchTypeOK
    <2>2. CASE c # d
      <3>1. round'[c[1]] >= round[c[1]]
        BY DialParts DEF Attempt, PunchTypeOK
      <3>2. dialled'[c] = dialled[c]
        BY <1>1, <1>2, <2>2 DEF PunchTypeOK
      <3>3. round[c[1]] \in Nat /\ round'[c[1]] \in Nat /\ c[2] \in Nat
        BY <1>3, DialParts DEF PunchTypeOK
      <3> QED BY <3>1, <3>2, <3>3 DEF DialsAreHeld
    <2> QED BY <2>1, <2>2
  <1>7. DialsAreHeld'
    BY <1>1, <1>2, <1>6, DialParts DEF PunchTypeOK, DialsAreHeld
  <1> QED BY <1>3, <1>4, <1>5, <1>7

(* The "connection" event: what p takes is new to it, and its call was       *)
(* waiting.                                                                  *)
LEMMA ConnectionKeepsPunchPart ==
  ASSUME PunchPart, NEW p \in Punchers, NEW c \in Dials, Connection(p, c)
  PROVE  PunchPart'
  <1> USE PunchAssumption DEF PunchPart
  <1>1. held[p] = NoDial /\ c[1] # p /\ c[1] \in Punchers /\ Punchers = {p, c[1]}
    BY DialParts DEF Connection, PortIsFree
  <1>2. /\ dialled' = [dialled EXCEPT ![c] = "accepted"] /\ held' = [held EXCEPT ![p] = c]
        /\ punching' = [punching EXCEPT ![p] = "succeeded"] /\ listening' = listening \ {p}
        /\ round' = round /\ dialled[c] = "dialling"
    BY DEF Connection, Accept, Succeed
  <1>3. PunchTypeOK'
    BY <1>2 DEF PunchTypeOK
  <1>4. OpenerIsHeldByBoth'
    <2> SUFFICES ASSUME NEW o \in Punchers, NEW q \in Punchers, held'[o] # NoDial, held'[o][1] = o
                 PROVE  held'[q] = held'[o]
      BY DEF OpenerIsHeldByBoth
    <2>1. o # p
      BY <1>1, <1>2 DEF PunchTypeOK
    <2>2. held[p] = held[o]
      BY <1>2, <2>1 DEF PunchTypeOK, OpenerIsHeldByBoth
    <2> QED BY <1>1, <1>2, <2>1, <2>2 DEF PunchTypeOK
  <1>5. PortIsFree'
    BY <1>2, DialParts DEF PunchTypeOK, PortIsFree
  <1>6. DialsAreHeld'
    <2>1. ASSUME NEW e \in Dials
          PROVE  /\ e[2] > round'[e[1]] => dialled'[e] = "none"
                 /\ dialled'[e] \in {"accepted", "open"} => \A q \in Punchers \ {e[1]} : held'[q] = e
      <3>1. CASE e = c
        BY <1>1, <1>2, <3>1 DEF PunchTypeOK, DialsAreHeld
      <3>2. CASE e # c
        <4>1. dialled'[e] = dialled[e]
          BY <1>2, <3>2 DEF PunchTypeOK
        <4>2. ASSUME dialled[e] \in {"accepted", "open"}, NEW q \in Punchers \ {e[1]}
              PROVE  held'[q] = e
          <5>1. held[q] = e
            BY <4>2 DEF DialsAreHeld
          <5>2. q # p
            BY <1>1, <5>1, DialParts
          <5> QED BY <1>2, <5>1, <5>2 DEF PunchTypeOK
        <4> QED BY <1>2, <4>1, <4>2 DEF DialsAreHeld
      <3> QED BY <3>1, <3>2
    <2>2. ASSUME NEW o \in Punchers, held'[o] # NoDial, held'[o][1] = o
          PROVE  dialled'[held'[o]] = "open"
      <3>1. o # p
        BY <1>1, <1>2, <2>2 DEF PunchTypeOK
      <3>2. held'[o] = held[o] /\ dialled[held[o]] = "open" /\ held[o] \in Dials
        BY <1>2, <2>2, <3>1 DEF PunchTypeOK, DialsAreHeld
      <3> QED BY <1>2, <3>2 DEF PunchTypeOK
    <2> QED BY <2>1, <2>2 DEF DialsAreHeld
  <1> QED BY <1>3, <1>4, <1>5, <1>6

(* The "open" event: the other peer holds what opens, so that both do if     *)
(* this one takes it.                                                        *)
LEMMA OpenKeepsPunchPart ==
  ASSUME PunchPart, NEW c \in Dials, Open(c)
  PROVE  PunchPart'
  <1> USE PunchAssumption DEF PunchPart
  <1> DEFINE p == c[1]
  <1>1. p \in Punchers /\ dialled[c] = "accepted" /\ dialled' = [dialled EXCEPT ![c] = "open"]
    BY DialParts DEF Open
  <1>2. \A q \in Punchers \ {p} : held[q] = c
    BY <1>1 DEF DialsAreHeld
  <1>3. ASSUME NEW e \in Dials PROVE dialled'[e] = IF e = c THEN "open" ELSE dialled[e]
    BY <1>1 DEF PunchTypeOK
  <1>4. CASE punching[p] = "trying" /\ round[p] = c[2]
    <2>1. /\ held' = [held EXCEPT ![p] = c] /\ listening' = listening \ {p}
          /\ punching' = [punching EXCEPT ![p] = "succeeded"] /\ round' = round
      BY <1>4 DEF Open, Succeed
    <2>2. \A q \in Punchers : held'[q] = c
      BY <1>2, <2>1 DEF PunchTypeOK
    <2>3. PunchTypeOK' BY <1>1, <2>1 DEF PunchTypeOK
    <2>4. OpenerIsHeldByBoth' BY <2>2 DEF OpenerIsHeldByBoth
    <2>5. PortIsFree'
      BY <1>1, <2>1, DialParts DEF PunchTypeOK, PortIsFree
    <2>6. held[p] = NoDial
      BY <1>1, <1>4 DEF PortIsFree
    <2>7. ASSUME NEW e \in Dials
          PROVE  /\ e[2] > round'[e[1]] => dialled'[e] = "none"
                 /\ dialled'[e] \in {"accepted", "open"} => \A q \in Punchers \ {e[1]} : held'[q] = e
      <3>1. CASE e = c
        BY <1>1, <1>3, <2>1, <2>2, <3>1 DEF DialsAreHeld
      <3>2. CASE e # c /\ dialled[e] \in {"accepted", "open"}
        <4>1. PICK q \in Punchers \ {e[1]} : held[q] = e
          BY <3>2, DialParts DEF DialsAreHeld
        <4> QED BY <1>1, <1>2, <2>6, <3>2, <4>1, DialParts
      <3>3. CASE e # c /\ dialled[e] \notin {"accepted", "open"}
        BY <1>3, <2>1, <3>3 DEF DialsAreHeld
      <3> QED BY <3>1, <3>2, <3>3
    <2>8. DialsAreHeld'
      BY <1>3, <2>2, <2>7 DEF DialsAreHeld
    <2> QED BY <2>3, <2>4, <2>5, <2>8
  <1>5. CASE ~(punching[p] = "trying" /\ round[p] = c[2])
    <2>1. UNCHANGED <<held, listening, punching, round>>
      BY <1>5 DEF Open
    <2>2. PunchTypeOK' BY <1>1, <2>1 DEF PunchTypeOK
    <2>3. OpenerIsHeldByBoth' /\ PortIsFree' BY <2>1 DEF OpenerIsHeldByBoth, PortIsFree
    <2>4. DialsAreHeld'
      BY <1>1, <1>2, <1>3, <2>1, DialParts DEF PunchTypeOK, DialsAreHeld
    <2> QED BY <2>2, <2>3, <2>4
  <1> QED BY <1>4, <1>5

LEMMA PunchPartStep == PunchPart /\ [PunchNext]_punchVars => PunchPart'
  <1> SUFFICES ASSUME PunchPart, [PunchNext]_punchVars PROVE PunchPart'
    OBVIOUS
  <1> USE PunchAssumption DEF PunchPart
  <1>1. ASSUME NEW p \in Punchers, AttemptHolePunch(p) PROVE PunchPart'
    BY <1>1, AttemptKeepsPunchPart DEF AttemptHolePunch
  <1>2. ASSUME NEW p \in Punchers, TimesOut(p) PROVE PunchPart'
    BY <1>2 DEF TimesOut, PunchTypeOK, OpenerIsHeldByBoth, PortIsFree, DialsAreHeld
  <1>3. ASSUME NEW p \in Punchers, Delayed(p) PROVE PunchPart'
    <2>1. CASE Attempt(p)
      BY <1>3, <2>1, AttemptKeepsPunchPart DEF Delayed
    <2>2. CASE ~Attempt(p)
      BY <1>3, <2>2 DEF Delayed, PunchTypeOK, OpenerIsHeldByBoth, PortIsFree, DialsAreHeld
    <2> QED BY <2>1, <2>2
  <1>4. ASSUME NEW p \in Punchers, NEW c \in Dials, Connection(p, c) PROVE PunchPart'
    BY <1>4, ConnectionKeepsPunchPart
  <1>5. ASSUME NEW c \in Dials, Open(c) PROVE PunchPart'
    BY <1>5, OpenKeepsPunchPart
  <1>6. ASSUME NEW c \in Dials, Refused(c) PROVE PunchPart'
    BY <1>6 DEF Refused, PunchTypeOK, OpenerIsHeldByBoth, PortIsFree, DialsAreHeld
  <1>7. CASE UNCHANGED punchVars
    BY <1>7 DEF punchVars, PunchTypeOK, OpenerIsHeldByBoth, PortIsFree, DialsAreHeld
  <1> QED BY <1>1, <1>2, <1>3, <1>4, <1>5, <1>6, <1>7 DEF PunchNext

LEMMA PunchPartInvariance == PunchSpec => []PunchPart
  BY PunchPartInit, PunchPartStep, PTL DEF PunchSpec

(* A connection that its dialler returned is the one that the other peer     *)
(* returned.                                                                 *)
THEOREM OpenersAgree == PunchSpec => []OpenerIsHeldByBoth
  <1>1. PunchPart => OpenerIsHeldByBoth
    BY DEF PunchPart
  <1> QED BY <1>1, PunchPartInvariance, PTL

(* Nothing listens once a call has returned or waits for its next attempt.   *)
THEOREM PortsAreFree == PunchSpec => []PortIsFree
  <1>1. PunchPart => PortIsFree
    BY DEF PunchPart
  <1> QED BY <1>1, PunchPartInvariance, PTL

(* NAT traversal, whose two parts share no state.                            *)
THEOREM NatTraversalInvariance == NatSpec /\ PunchSpec => []NatTraversalInv
  <1>1. NatSpec => []NatPart
    BY NatPartInit, NatPartStep, PTL DEF NatSpec
  <1>2. NatPart /\ PunchPart => NatTraversalInv
    BY DEF NatPart, PunchPart, NatTraversalInv
  <1> QED BY <1>1, <1>2, PunchPartInvariance, PTL

-----------------------------------------------------------------------------
(* The choice of a path                                                    *)

PathSocketRecords == [remote : Remotes, state : {"opening", "open", "closed", "left"}]

Ways == [method : Methods, endpoint : Nat]

(* A set of numbers has a least one, by the order being well-founded. *)
LEMMA LeastNumber ==
  ASSUME NEW T \in SUBSET Nat, T # {}
  PROVE  \E n \in T : \A m \in T : n <= m
  <1> DEFINE less == {pair \in Nat \X Nat : pair[1] < pair[2]}
  <1>1. IsWellFoundedOn(less, Nat)
    BY NatLessThanWellFounded, Zenon DEF OpToRel
  <1>2. PICK n \in T : \A m \in T : <<m, n>> \notin less
    <2> HIDE DEF less
    <2> QED BY <1>1, WFMin
  <1>3. ASSUME NEW m \in T PROVE n <= m
    <2>1. m \in Nat /\ n \in Nat
      OBVIOUS
    <2>2. <<m, n>> \notin less
      BY <1>2
    <2>3. ~(m < n)
      BY <2>1, <2>2
    <2> QED BY <2>1, <2>3
  <1> QED BY <1>3

LEMMA PathsInvInit == PathsInit => PathsInv
  <1> SUFFICES ASSUME PathsInit PROVE PathsInv
    OBVIOUS
  <1>1. PathsTypeOK
    BY PathsAssumption DEF PathsInit, PathsTypeOK, At, Finished
  <1>2. OpenSocketsAreGiven
    BY DEF PathsInit, OpenSocketsAreGiven, OpenTo
  <1>3. CacheIsBounded
    BY PathsAssumption, FS_EmptySet DEF PathsInit, CacheIsBounded
  <1>4. TriesAreOpening
    BY DEF PathsInit, TriesAreOpening, At, Awaited
  <1> QED BY <1>1, <1>2, <1>3, <1>4 DEF PathsInv

(* What is tried after a failure is a way, and after the last one nothing.   *)
LEMMA NextMethodType ==
  ASSUME NEW p \in Remotes, NEW at
  PROVE  NextMethod(p, at) \in Ways \cup {At("failed", 0)}
  <1> DEFINE n == EndpointCount[p]
  <1>1. n \in Nat
    BY PathsAssumption
  <1>2. [i \in 1..n |-> At("direct", i)] \in Seq(Ways)
    <2>1. \A i \in 1..n : At("direct", i) \in Ways
      BY <1>1 DEF Ways, At, Methods
    <2> QED BY <1>1, <2>1, IsASeq
  <1>3. <<At("hole-punch", 1)>> \in Seq(Ways) /\ <<At("relay", 0)>> \in Seq(Ways) /\ <<>> \in Seq(Ways)
    BY DEF Ways, At, Methods
  <1>4. MethodsOf(p) \in Seq(Ways)
    BY <1>1, <1>2, <1>3, ConcatProperties DEF MethodsOf
  <1> QED BY <1>4, ElementOfSeq, LenProperties DEF NextMethod

(* A try, after the socket of the last one has been dealt with. *)
LEMMA TryKeepsSockets ==
  ASSUME PathsInv, NEW c \in Connects, stage[c].method \in Awaited \cup {"idle"},
         NEW at \in Ways \cup {At("cached", 0), At("failed", 0)},
         NEW socks \in Seq(PathSocketRecords), Len(socks) = Len(pathSockets),
         \A s \in 1..Len(pathSockets) :
           socks[s] = pathSockets[s] \/ (s = trying[c] /\ socks[s].state \in {"closed", "left"}),
         Try(c, at, socks), UNCHANGED <<active, callee, given>>
  PROVE  /\ pathSockets' \in Seq(PathSocketRecords) /\ Len(pathSockets') <= MaxPathSockets
         /\ active' \in [DOMAIN active' -> 1..Len(pathSockets')]
         /\ stage' \in [Connects -> [method : Awaited \cup Finished, endpoint : Nat]]
         /\ trying' \in [Connects -> 0..Len(pathSockets')]
         /\ given' \in [Connects -> 0..Len(pathSockets')]
         /\ OpenSocketsAreGiven' /\ TriesAreOpening'
  <1> USE PathsAssumption DEF PathsInv
  <1> DEFINE n == Len(pathSockets)
             rec == [remote |-> callee[c], state |-> "opening"]
  <1>1. n \in Nat /\ n <= MaxPathSockets /\ DOMAIN pathSockets = 1..n /\ DOMAIN socks = 1..n
    BY LenProperties DEF PathsTypeOK, PathSocketRecords
  <1>2. stage' = [stage EXCEPT ![c] = at] /\ at \in [method : Awaited \cup Finished, endpoint : Nat]
    BY DEF Try, Ways, At, Awaited, Finished, Methods
  <1>3. given[c] = 0 /\ at.method # "connected"
    <2>1. given[c] = 0
      BY DEF TriesAreOpening, Awaited
    <2>2. at.method # "connected"
      BY DEF Ways, At, Methods
    <2> QED BY <2>1, <2>2
  <1>4. \A s \in 1..n : socks[s].state \in {"open", "opening"} => socks[s] = pathSockets[s]
    OBVIOUS
  <1>5. \A d \in Connects : d # c /\ trying[d] # 0 => socks[trying[d]] = pathSockets[trying[d]]
    BY <1>1 DEF TriesAreOpening, PathsTypeOK
  <1>8. ASSUME NEW p \in DOMAIN active'
        PROVE  active'[p] \in 1..n /\ socks[active'[p]].state # "opening"
    <2>1. active'[p] = active[p] /\ active[p] \in 1..n /\ pathSockets[active[p]].state # "opening"
      BY DEF PathsTypeOK, TriesAreOpening
    <2> QED BY <2>1
  <1>6. CASE at.method \in Awaited
    <2>1. /\ pathSockets' = Append(socks, rec) /\ n < MaxPathSockets
          /\ trying' = [trying EXCEPT ![c] = n + 1]
      BY <1>6 DEF Try
    <2>2. rec \in PathSocketRecords
      BY DEF PathsTypeOK, PathSocketRecords
    <2>3. /\ pathSockets' \in Seq(PathSocketRecords) /\ Len(pathSockets') = n + 1
          /\ DOMAIN pathSockets' = 1..(n + 1)
          /\ \A s \in 1..n : pathSockets'[s] = socks[s]
          /\ pathSockets'[n + 1] = rec
      <3> HIDE DEF rec
      <3> QED BY <2>1, <2>2, AppendProperties, LenProperties
    <2>4. active' \in [DOMAIN active' -> 1..(n + 1)] /\ given' \in [Connects -> 0..(n + 1)]
          /\ trying' \in [Connects -> 0..(n + 1)]
      BY <1>1, <2>1 DEF PathsTypeOK
    <2>5. OpenSocketsAreGiven'
      <3> SUFFICES ASSUME NEW p \in Remotes, NEW s \in OpenTo(p)'
                   PROVE  \E d \in Connects : given'[d] = s /\ callee'[d] = p
        BY DEF OpenSocketsAreGiven
      <3>1. s \in 1..n /\ pathSockets'[s] = pathSockets[s]
        BY <1>1, <1>4, <2>3 DEF OpenTo
      <3>2. s \in OpenTo(p)
        BY <1>1, <3>1 DEF OpenTo
      <3> QED BY <3>2 DEF OpenSocketsAreGiven
    <2>6. \A d \in Connects :
            /\ (stage'[d].method \in Awaited) = (trying'[d] # 0)
            /\ trying'[d] # 0 => pathSockets'[trying'[d]] = [remote |-> callee'[d], state |-> "opening"]
            /\ given'[d] # 0 => stage'[d].method = "connected"
      <3> SUFFICES ASSUME NEW d \in Connects
                   PROVE  /\ (stage'[d].method \in Awaited) = (trying'[d] # 0)
                          /\ trying'[d] # 0 =>
                               pathSockets'[trying'[d]] = [remote |-> callee'[d], state |-> "opening"]
                          /\ given'[d] # 0 => stage'[d].method = "connected"
        OBVIOUS
      <3>1. CASE d = c
        BY <1>1, <1>2, <1>3, <1>6, <2>1, <2>3, <3>1 DEF PathsTypeOK
      <3>2. CASE d # c
        <4>1. stage'[d] = stage[d] /\ trying'[d] = trying[d] /\ given'[d] = given[d] /\ callee'[d] = callee[d]
          BY <1>2, <2>1, <3>2 DEF PathsTypeOK
        <4>2. trying[d] # 0 => trying[d] \in 1..n
          BY <1>1 DEF PathsTypeOK
        <4> QED BY <1>5, <2>3, <3>2, <4>1, <4>2 DEF TriesAreOpening
      <3> QED BY <3>1, <3>2
    <2>7. ASSUME NEW d \in Connects, NEW e \in Connects, d # e, trying'[d] # 0
          PROVE  trying'[d] # trying'[e]
      <3>1. trying[d] \in 0..n /\ trying[e] \in 0..n
        BY DEF PathsTypeOK
      <3>2. CASE d = c
        BY <1>1, <2>1, <2>7, <3>1, <3>2 DEF PathsTypeOK
      <3>3. CASE e = c
        BY <1>1, <2>1, <2>7, <3>1, <3>3 DEF PathsTypeOK
      <3>4. CASE d # c /\ e # c
        BY <2>1, <2>7, <3>4 DEF PathsTypeOK, TriesAreOpening
      <3> QED BY <3>2, <3>3, <3>4
    <2>8. ASSUME NEW p \in DOMAIN active' PROVE pathSockets'[active'[p]].state # "opening"
      BY <1>8, <2>3, <2>8
    <2>9. TriesAreOpening'
      BY <2>6, <2>7, <2>8 DEF TriesAreOpening
    <2>10. n + 1 <= MaxPathSockets /\ stage' \in [Connects -> [method : Awaited \cup Finished, endpoint : Nat]]
      BY <1>1, <1>2, <2>1 DEF PathsTypeOK
    <2> QED BY <2>3, <2>4, <2>5, <2>9, <2>10
  <1>7. CASE at.method \notin Awaited
    <2>1. pathSockets' = socks /\ trying' = [trying EXCEPT ![c] = 0]
      BY <1>7 DEF Try
    <2>2. OpenSocketsAreGiven'
      BY <1>1, <1>4, <2>1 DEF OpenSocketsAreGiven, OpenTo
    <2>3. ASSUME NEW d \in Connects
          PROVE  /\ (stage'[d].method \in Awaited) = (trying'[d] # 0)
                 /\ trying'[d] # 0 =>
                      pathSockets'[trying'[d]] = [remote |-> callee'[d], state |-> "opening"]
                 /\ given'[d] # 0 => stage'[d].method = "connected"
      <3>1. CASE d = c
        BY <1>2, <1>3, <1>7, <2>1, <3>1 DEF PathsTypeOK
      <3>2. CASE d # c
        BY <1>2, <1>5, <2>1, <3>2 DEF PathsTypeOK, TriesAreOpening
      <3> QED BY <3>1, <3>2
    <2>4. \A d, e \in Connects : d # e /\ trying'[d] # 0 => trying'[d] # trying'[e]
      BY <2>1 DEF PathsTypeOK, TriesAreOpening
    <2>5. \A p \in DOMAIN active' : pathSockets'[active'[p]].state # "opening"
      BY <1>8, <2>1
    <2>6. TriesAreOpening'
      BY <2>3, <2>4, <2>5 DEF TriesAreOpening
    <2> QED BY <1>1, <1>2, <2>1, <2>2, <2>6 DEF PathsTypeOK
  <1> QED BY <1>6, <1>7

-----------------------------------------------------------------------------
(* The cache *)

OnceConnected(p) == {c \in Connects : given[c] # 0 /\ callee[c] = p}

LEMMA ConnectedFinite ==
  ASSUME NEW p
  PROVE  IsFiniteSet(OnceConnected(p)) /\ Cardinality(OnceConnected(p)) \in Nat
  BY PathsAssumption, FS_Subset, FS_CardinalityType DEF OnceConnected

LEMMA OneMore ==
  ASSUME NEW D, IsFiniteSet(D), NEW x
  PROVE  /\ Cardinality(D) \in Nat /\ Cardinality(D \cup {x}) \in Nat
         /\ Cardinality(D \cup {x}) <= Cardinality(D) + 1
         /\ x \notin D => Cardinality(D \cup {x}) = Cardinality(D) + 1
  <1>1. IsFiniteSet(D \cup {x}) /\ Cardinality(D) \in Nat
    BY FS_AddElement, FS_CardinalityType
  <1>2. x \notin D => Cardinality(D \cup {x}) = Cardinality(D) + 1
    BY FS_AddElement
  <1>3. Cardinality(D \cup {x}) \in Nat
    BY <1>1, FS_CardinalityType
  <1>4. CASE x \in D
    <2>1. D \cup {x} = D
      BY <1>4
    <2> QED BY <1>1, <1>3, <1>4, <2>1
  <1>5. CASE x \notin D
    BY <1>1, <1>2, <1>3, <1>5
  <1> QED BY <1>4, <1>5

(* A cache of which entries were dropped keeps the rest, and its bound.      *)
LEMMA DroppingKeepsCache ==
  ASSUME PathsInv, NEW S, NEW kept, kept = Dropping(paths, S)
  PROVE  /\ DOMAIN kept = DOMAIN paths \ S /\ kept \in [DOMAIN kept -> PathEntries]
         /\ \A p \in DOMAIN kept : kept[p] = paths[p]
         /\ IsFiniteSet(DOMAIN kept) /\ Cardinality(DOMAIN kept) <= Cardinality(DOMAIN paths)
         /\ Cardinality(DOMAIN paths) \in Nat /\ Cardinality(DOMAIN kept) \in Nat
  <1>1. IsFiniteSet(DOMAIN paths)
    BY PathsAssumption, FS_Subset DEF PathsInv, PathsTypeOK
  <1>2. DOMAIN kept = DOMAIN paths \ S
    BY DEF Dropping
  <1>3. \A p \in DOMAIN kept : kept[p] = paths[p]
    BY DEF Dropping
  <1>4. kept = [p \in DOMAIN kept |-> kept[p]]
    BY DEF Dropping
  <1>5. kept \in [DOMAIN kept -> PathEntries]
    BY <1>2, <1>3, <1>4 DEF PathsInv, PathsTypeOK
  <1>6. IsFiniteSet(DOMAIN kept) /\ Cardinality(DOMAIN kept) <= Cardinality(DOMAIN paths)
    BY <1>1, <1>2, FS_Subset
  <1> QED BY <1>1, <1>2, <1>3, <1>5, <1>6, FS_CardinalityType

(* The entry to evict exists, and is one. *)
LEMMA EvictedMakesRoom ==
  ASSUME PathsInv
  PROVE  Cardinality(DOMAIN Dropping(paths, Evicted)) < MaxPaths
  <1> USE PathsAssumption DEF PathsInv
  <1>1. IsFiniteSet(DOMAIN paths) /\ Cardinality(DOMAIN paths) \in Nat
    BY FS_Subset, FS_CardinalityType DEF PathsTypeOK
  <1>2. DOMAIN Dropping(paths, Evicted) = DOMAIN paths \ Evicted
    BY DEF Dropping
  <1>3. CASE Cardinality(DOMAIN paths) < MaxPaths
    BY <1>2, <1>3 DEF Evicted
  <1>4. CASE ~(Cardinality(DOMAIN paths) < MaxPaths)
    <2>1. Cardinality(DOMAIN paths) = MaxPaths /\ DOMAIN paths # {}
      BY <1>1, <1>4, FS_EmptySet DEF CacheIsBounded
    <2> DEFINE T == {paths[p].used : p \in DOMAIN paths}
    <2>2. T \in SUBSET Nat /\ T # {}
      BY <2>1 DEF PathsTypeOK, PathEntries
    <2>3. PICK n \in T : \A m \in T : n <= m
      <3> HIDE DEF T
      <3> QED BY <2>2, LeastNumber
    <2>4. PICK p \in DOMAIN paths : \A q \in DOMAIN paths : paths[p].used <= paths[q].used
      BY <2>3
    <2> DEFINE oldest == CHOOSE o \in DOMAIN paths : \A q \in DOMAIN paths : paths[o].used <= paths[q].used
    <2>5. oldest \in DOMAIN paths
      BY <2>4
    <2>6. Evicted = {oldest}
      BY <1>4 DEF Evicted
    <2> HIDE DEF oldest
    <2>7. Cardinality(DOMAIN paths \ {oldest}) = MaxPaths - 1
      BY <1>1, <2>1, <2>5, FS_RemoveElement
    <2> QED BY <1>2, <2>6, <2>7
  <1> QED BY <1>3, <1>4

CacheTypeOK ==
  /\ DOMAIN paths \subseteq Remotes /\ paths \in [DOMAIN paths -> PathEntries]
  /\ \A p \in DOMAIN paths :
       /\ paths[p].created <= paths[p].used /\ paths[p].used <= pathClock
       /\ paths[p].successes <= paths[p].attempts

LEMMA OnceMoreType ==
  ASSUME NEW before \in PathEntries, pathClock \in Nat, before.created <= pathClock,
         before.successes <= before.attempts, NEW method \in Methods,
         NEW entry, entry = [OnceMore(before) EXCEPT !.method = method]
  PROVE  /\ entry \in PathEntries /\ entry.created <= entry.used /\ entry.used = pathClock
         /\ entry.successes <= entry.attempts /\ entry.successes = before.successes + 1
  <1>1. entry = [method |-> method, created |-> before.created, used |-> pathClock,
                 attempts |-> before.attempts + 1, successes |-> before.successes + 1]
    BY DEF OnceMore, PathEntries
  <1>2. before.created \in Nat /\ before.attempts \in Nat /\ before.successes \in Nat
    BY DEF PathEntries
  <1>3. before.attempts + 1 \in Nat /\ before.successes + 1 \in Nat
    BY <1>2
  <1>4. entry \in PathEntries
    BY ONLY <1>1, <1>2, <1>3, pathClock \in Nat, method \in Methods DEF PathEntries
  <1>5. /\ entry.created = before.created /\ entry.used = pathClock
        /\ entry.attempts = before.attempts + 1 /\ entry.successes = before.successes + 1
    BY <1>1
  <1> QED BY <1>2, <1>4, <1>5

(* What the entry of a peer was before, of those that are kept. *)
LEMMA EntryBefore ==
  ASSUME PathsInv, NEW p \in Remotes, NEW kept, NEW before, NEW new \in PathEntries,
         DOMAIN kept \subseteq DOMAIN paths, \A q \in DOMAIN kept : kept[q] = paths[q],
         new.created = pathClock, new.attempts = 0, new.successes = 0,
         before = IF p \in DOMAIN kept THEN kept[p] ELSE new
  PROVE  /\ before \in PathEntries /\ before.created <= pathClock
         /\ before.successes <= before.attempts
         /\ before.successes <= Cardinality(OnceConnected(p))
  <1> USE DEF PathsInv
  <1>1. CASE p \in DOMAIN kept
    <2>1. /\ p \in DOMAIN paths /\ before = paths[p] /\ paths[p] \in PathEntries
          /\ paths[p].created <= paths[p].used /\ paths[p].used <= pathClock
          /\ paths[p].successes <= paths[p].attempts /\ pathClock \in Nat
      BY <1>1 DEF PathsTypeOK
    <2>2. paths[p].successes <= Cardinality(OnceConnected(p))
      BY <2>1 DEF CacheIsBounded, OnceConnected
    <2> QED BY <2>1, <2>2 DEF PathEntries
  <1>2. CASE p \notin DOMAIN kept
    <2>1. before = new /\ pathClock \in Nat
      BY <1>2 DEF PathsTypeOK
    <2>2. Cardinality(OnceConnected(p)) \in Nat
      BY ConnectedFinite
    <2> QED BY <2>1, <2>2
  <1> QED BY <1>1, <1>2

(* A success is entered, and one more call is connected to the peer.         *)
LEMMA SetPathKeepsCache ==
  ASSUME PathsInv, NEW c \in Connects, given[c] = 0, NEW method \in Methods,
         SetPath(callee[c], method),
         NEW s \in Nat \ {0}, given' = [given EXCEPT ![c] = s], UNCHANGED <<pathClock, callee>>
  PROVE  CacheTypeOK' /\ CacheIsBounded'
  <1>1. PICK p, kept, new, before, entry :
          /\ p = callee[c] /\ kept = Dropping(paths, Evicted)
          /\ new = [method |-> method, created |-> pathClock, used |-> pathClock,
                    attempts |-> 0, successes |-> 0]
          /\ before = IF p \in DOMAIN kept THEN kept[p] ELSE new
          /\ entry = [OnceMore(before) EXCEPT !.method = method]
    OBVIOUS
  <1>2. /\ DOMAIN kept \subseteq DOMAIN paths /\ kept \in [DOMAIN kept -> PathEntries]
        /\ \A q \in DOMAIN kept : kept[q] = paths[q]
        /\ IsFiniteSet(DOMAIN kept)
    <2>1. kept = Dropping(paths, Evicted)
      BY <1>1
    <2>2. DOMAIN kept = DOMAIN paths \ Evicted
      BY ONLY PathsInv, <2>1, DroppingKeepsCache
    <2>3. IsFiniteSet(DOMAIN kept)
      BY ONLY PathsInv, <2>1, DroppingKeepsCache
    <2>4. kept \in [DOMAIN kept -> PathEntries]
      BY ONLY PathsInv, <2>1, DroppingKeepsCache
    <2>5. \A q \in DOMAIN kept : kept[q] = paths[q]
      BY ONLY PathsInv, <2>1, DroppingKeepsCache
    <2> QED BY ONLY <2>2, <2>3, <2>4, <2>5
  <1>3. Cardinality(DOMAIN kept) < MaxPaths /\ Cardinality(DOMAIN kept) \in Nat
    BY <1>1, EvictedMakesRoom, DroppingKeepsCache
  <1>4. pathClock \in Nat /\ p \in Remotes
    BY <1>1 DEF PathsInv, PathsTypeOK
  <1>5. new \in PathEntries /\ new.created = pathClock /\ new.attempts = 0 /\ new.successes = 0
    BY <1>1, <1>4 DEF PathEntries
  <1>6. /\ before \in PathEntries /\ before.created <= pathClock
        /\ before.successes <= before.attempts
        /\ before.successes <= Cardinality(OnceConnected(p))
    BY <1>1, <1>2, <1>4, <1>5, EntryBefore
  <1>7. /\ entry \in PathEntries /\ entry.created <= entry.used /\ entry.used = pathClock
        /\ entry.successes <= entry.attempts /\ entry.successes = before.successes + 1
    <2>1. /\ before \in PathEntries /\ pathClock \in Nat /\ before.created <= pathClock
          /\ before.successes <= before.attempts /\ method \in Methods
          /\ entry = [OnceMore(before) EXCEPT !.method = method]
      BY <1>1, <1>4, <1>6
    <2>2. entry \in PathEntries
      BY ONLY <2>1, OnceMoreType
    <2>3. entry.created <= entry.used /\ entry.used = pathClock
      BY ONLY <2>1, OnceMoreType
    <2>4. entry.successes <= entry.attempts /\ entry.successes = before.successes + 1
      BY ONLY <2>1, OnceMoreType
    <2> QED BY ONLY <2>2, <2>3, <2>4
  <1>8. paths' = [q \in DOMAIN kept \cup {p} |-> IF q = p THEN entry ELSE kept[q]]
    BY <1>1 DEF SetPath
  <1>9. DOMAIN paths' = DOMAIN kept \cup {p} /\ paths' \in [DOMAIN paths' -> PathEntries]
    BY <1>2, <1>7, <1>8
  <1>10. CacheTypeOK'
    <2>1. DOMAIN paths' \subseteq Remotes
      BY <1>2, <1>4, <1>9 DEF PathsInv, PathsTypeOK
    <2>2. ASSUME NEW q \in DOMAIN paths'
          PROVE  /\ paths'[q].created <= paths'[q].used /\ paths'[q].used <= pathClock'
                 /\ paths'[q].successes <= paths'[q].attempts
      <3>1. CASE q = p
        BY <1>4, <1>7, <1>8, <3>1
      <3>2. CASE q # p
        BY <1>2, <1>8, <1>9, <3>2 DEF PathsInv, PathsTypeOK
      <3> QED BY <3>1, <3>2
    <2> QED BY <1>9, <2>1, <2>2 DEF CacheTypeOK
  <1>11. Cardinality(DOMAIN paths') <= MaxPaths
    <2> MaxPaths \in Nat
      BY PathsAssumption
    <2>1. /\ Cardinality(DOMAIN kept \cup {p}) <= Cardinality(DOMAIN kept) + 1
          /\ Cardinality(DOMAIN kept \cup {p}) \in Nat
      BY <1>2, OneMore
    <2> QED BY <1>3, <1>9, <2>1
  <1>12. ASSUME NEW q \in DOMAIN paths'
        PROVE  paths'[q].successes <= Cardinality(OnceConnected(q)')
    <2>1. CASE q = p
      <3>1. OnceConnected(p)' = OnceConnected(p) \cup {c} /\ c \notin OnceConnected(p)
        BY <1>1 DEF OnceConnected, PathsInv, PathsTypeOK
      <3>2. Cardinality(OnceConnected(p)') = Cardinality(OnceConnected(p)) + 1
        BY <3>1, ConnectedFinite, OneMore
      <3>3. before.successes \in Nat /\ Cardinality(OnceConnected(p)) \in Nat
        BY <1>6, ConnectedFinite DEF PathEntries
      <3>4. paths'[q] = entry
        BY <1>8, <1>9, <2>1
      <3> QED BY <1>6, <1>7, <2>1, <3>2, <3>3, <3>4
    <2>2. CASE q # p
      <3>1. OnceConnected(q)' = OnceConnected(q)
        BY <1>1, <2>2 DEF OnceConnected, PathsInv, PathsTypeOK
      <3>2. q \in DOMAIN paths /\ paths'[q] = paths[q]
        BY <1>2, <1>8, <1>9, <2>2
      <3> QED BY <3>1, <3>2 DEF PathsInv, CacheIsBounded, OnceConnected
    <2> QED BY <2>1, <2>2
  <1> QED BY <1>10, <1>11, <1>12 DEF PathsInv, CacheIsBounded, OnceConnected

(* An entry is dropped, or all that are outdated. *)
LEMMA DroppedKeepsCache ==
  ASSUME PathsInv, NEW S, paths' = Dropping(paths, S), UNCHANGED <<pathClock, given, callee>>
  PROVE  CacheTypeOK' /\ CacheIsBounded'
  <1>1. /\ DOMAIN paths' \subseteq DOMAIN paths /\ paths' \in [DOMAIN paths' -> PathEntries]
        /\ \A q \in DOMAIN paths' : paths'[q] = paths[q]
        /\ Cardinality(DOMAIN paths') <= Cardinality(DOMAIN paths)
        /\ Cardinality(DOMAIN paths') \in Nat /\ Cardinality(DOMAIN paths) \in Nat
    <2> DEFINE kept == paths'
    <2>1. kept = Dropping(paths, S)
      OBVIOUS
    <2> HIDE DEF kept
    <2>2. DOMAIN kept = DOMAIN paths \ S
      BY ONLY PathsInv, <2>1, DroppingKeepsCache
    <2>3. kept \in [DOMAIN kept -> PathEntries]
      BY ONLY PathsInv, <2>1, DroppingKeepsCache
    <2>4. \A q \in DOMAIN kept : kept[q] = paths[q]
      BY ONLY PathsInv, <2>1, DroppingKeepsCache
    <2>5. Cardinality(DOMAIN kept) <= Cardinality(DOMAIN paths)
      BY ONLY PathsInv, <2>1, DroppingKeepsCache
    <2>6. Cardinality(DOMAIN kept) \in Nat /\ Cardinality(DOMAIN paths) \in Nat
      BY ONLY PathsInv, <2>1, DroppingKeepsCache
    <2> QED BY <2>2, <2>3, <2>4, <2>5, <2>6 DEF kept
  <1>2. CacheTypeOK'
    BY <1>1 DEF CacheTypeOK, PathsInv, PathsTypeOK
  <1> QED BY <1>1, <1>2, PathsAssumption DEF PathsInv, CacheIsBounded

LEMMA SameKeepsCache ==
  ASSUME PathsInv, UNCHANGED <<paths, given, callee>>, pathClock' = pathClock \/ pathClock' = pathClock + 1
  PROVE  CacheTypeOK' /\ CacheIsBounded'
  <1>1. CacheTypeOK'
    <2>1. ASSUME NEW p \in DOMAIN paths PROVE paths[p].used <= pathClock'
      <3>1. paths[p].used \in Nat /\ pathClock \in Nat /\ paths[p].used <= pathClock
        BY DEF PathsInv, PathsTypeOK, PathEntries
      <3> QED BY <3>1
    <2> QED BY <2>1 DEF CacheTypeOK, PathsInv, PathsTypeOK
  <1> QED BY <1>1 DEF PathsInv, CacheIsBounded

-----------------------------------------------------------------------------
(* The calls and their sockets *)

CallsOK ==
  /\ pathSockets \in Seq(PathSocketRecords) /\ Len(pathSockets) <= MaxPathSockets
  /\ DOMAIN active \subseteq Remotes /\ active \in [DOMAIN active -> 1..Len(pathSockets)]
  /\ stage \in [Connects -> [method : Awaited \cup Finished, endpoint : Nat]]
  /\ trying \in [Connects -> 0..Len(pathSockets)]
  /\ given \in [Connects -> 0..Len(pathSockets)]
  /\ OpenSocketsAreGiven /\ TriesAreOpening

LEMMA PathsInvParts ==
  ASSUME PathsInv, pathClock' \in 0..MaxPathClock, UNCHANGED <<localNat, remoteNat, callee>>,
         CacheTypeOK', CacheIsBounded', CallsOK'
  PROVE  PathsInv'
  BY DEF PathsInv, PathsTypeOK, CacheTypeOK, CallsOK, PathSocketRecords

LEMMA PathsInvCalls ==
  ASSUME PathsInv
  PROVE  CallsOK /\ pathClock \in 0..MaxPathClock /\ callee \in [Connects -> Remotes]
  BY DEF PathsInv, PathsTypeOK, CallsOK, PathSocketRecords

LEMMA SameCalls ==
  ASSUME CallsOK, UNCHANGED <<pathSockets, active, callee, stage, trying, given>>
  PROVE  CallsOK'
  BY DEF CallsOK, OpenSocketsAreGiven, OpenTo, TriesAreOpening

(* A socket that is being opened is not closed, and no other one opens.      *)
LEMMA ClosingKeepsCalls ==
  ASSUME PathsInv, NEW S, ClosedSockets(S),
         \A s \in S : s \in DOMAIN pathSockets /\ pathSockets[s].state # "opening",
         DOMAIN active' \subseteq DOMAIN active, active' = [p \in DOMAIN active' |-> active[p]],
         UNCHANGED <<callee, stage, trying, given>>
  PROVE  CallsOK'
  <1> DEFINE n == Len(pathSockets)
  <1>1. CallsOK
    BY PathsInvCalls
  <1>2. n \in Nat /\ n <= MaxPathSockets /\ DOMAIN pathSockets = 1..n
    BY <1>1, LenProperties DEF CallsOK
  <1>3. \A s \in 1..n : pathSockets[s] \in PathSocketRecords
    BY <1>1, <1>2, ElementOfSeq DEF CallsOK
  <1>4. \A s \in 1..n : [pathSockets[s] EXCEPT !.state = "closed"] \in PathSocketRecords
    BY <1>3 DEF PathSocketRecords
  <1>5. pathSockets' \in [1..n -> PathSocketRecords]
    BY <1>2, <1>3, <1>4 DEF ClosedSockets
  <1>6. pathSockets' \in Seq(PathSocketRecords) /\ Len(pathSockets') = n /\ DOMAIN pathSockets' = 1..n
    BY <1>2, <1>5, SeqDef, LenProperties
  <1>7. \A s \in 1..n : s \in S => pathSockets'[s].state = "closed"
    BY <1>2, <1>3 DEF ClosedSockets, PathSocketRecords
  <1>8. \A s \in 1..n : s \notin S => pathSockets'[s] = pathSockets[s]
    BY <1>2 DEF ClosedSockets
  <1>9. OpenSocketsAreGiven'
    <2> SUFFICES ASSUME NEW p \in Remotes, NEW s \in OpenTo(p)'
                 PROVE  \E d \in Connects : given'[d] = s /\ callee'[d] = p
      BY DEF OpenSocketsAreGiven
    <2>1. s \in OpenTo(p)
      BY <1>2, <1>6, <1>7, <1>8 DEF OpenTo
    <2> QED BY <1>1, <2>1 DEF CallsOK, OpenSocketsAreGiven
  <1>10. \A d \in Connects : trying[d] # 0 =>
           trying[d] \in 1..n /\ pathSockets'[trying[d]] = pathSockets[trying[d]]
    <2> SUFFICES ASSUME NEW d \in Connects, trying[d] # 0
                 PROVE  trying[d] \in 1..n /\ pathSockets'[trying[d]] = pathSockets[trying[d]]
      OBVIOUS
    <2>1. trying[d] \in 1..n
      BY <1>1, <1>2 DEF CallsOK
    <2>2. pathSockets[trying[d]] = [remote |-> callee[d], state |-> "opening"]
      BY <1>1 DEF CallsOK, TriesAreOpening
    <2>3. trying[d] \notin S
      BY <2>2
    <2> QED BY <1>8, <2>1, <2>3
  <1>11. ASSUME NEW p \in DOMAIN active'
         PROVE  active'[p] \in 1..n /\ pathSockets'[active'[p]].state # "opening"
    <2>1. active'[p] = active[p] /\ active[p] \in 1..n /\ pathSockets[active[p]].state # "opening"
      BY <1>1, <1>2 DEF CallsOK, TriesAreOpening
    <2> QED BY <1>7, <1>8, <2>1
  <1>12. TriesAreOpening'
    BY <1>1, <1>10, <1>11 DEF CallsOK, TriesAreOpening
  <1>13. DOMAIN active' \subseteq Remotes /\ active' \in [DOMAIN active' -> 1..n]
    BY <1>1, <1>11 DEF CallsOK
  <1> QED BY <1>1, <1>2, <1>6, <1>9, <1>12, <1>13 DEF CallsOK

-----------------------------------------------------------------------------
(* The steps *)

LEMMA ConnectKeepsPaths ==
  ASSUME PathsInv, NEW c \in Connects, Connect(c)
  PROVE  PathsInv'
  <1> DEFINE p == callee[c]
  <1>1. CallsOK /\ pathClock \in 0..MaxPathClock /\ p \in Remotes
    BY PathsInvCalls
  <1>2. PICK at \in Ways \cup {At("cached", 0), At("failed", 0)} : Try(c, at, pathSockets)
    BY <1>1, NextMethodType DEF Connect
  <1>3. stage[c].method \in Awaited \cup {"idle"} /\ UNCHANGED <<active, callee, given>>
    BY DEF Connect
  <1>4. CallsOK'
    <2>1. DOMAIN active' \subseteq Remotes
      BY <1>1, <1>3 DEF CallsOK
    <2>2. pathSockets \in Seq(PathSocketRecords)
      BY <1>1 DEF CallsOK
    <2> QED BY <1>2, <1>3, <2>1, <2>2, TryKeepsSockets DEF CallsOK
  <1>5. \E S : paths' = Dropping(paths, S)
    <2>1. paths = Dropping(paths, {})
      BY DEF Dropping, PathsInv, PathsTypeOK
    <2> QED BY <2>1 DEF Connect
  <1>6. UNCHANGED <<pathClock, localNat, remoteNat, callee, given>>
    BY DEF Connect
  <1>7. CacheTypeOK' /\ CacheIsBounded'
    BY <1>5, <1>6, DroppedKeepsCache
  <1> QED BY <1>1, <1>4, <1>6, <1>7, PathsInvParts

LEMMA FailsKeepsPaths ==
  ASSUME PathsInv, NEW c \in Connects, Fails(c)
  PROVE  PathsInv'
  <1> DEFINE n == Len(pathSockets)
  <1>1. CallsOK /\ pathClock \in 0..MaxPathClock /\ callee[c] \in Remotes
    BY PathsInvCalls
  <1>2. PICK end \in {"closed", "left"} :
          Try(c, NextMethod(callee[c], stage[c]), [pathSockets EXCEPT ![trying[c]].state = end])
    BY DEF Fails, Abandoned
  <1>3. stage[c].method \in Awaited /\ UNCHANGED <<active, callee, given>>
    BY DEF Fails
  <1>4. trying[c] \in 1..n /\ pathSockets[trying[c]] \in PathSocketRecords /\ n \in Nat
    <2>1. trying[c] # 0 /\ trying[c] \in 0..n /\ n \in Nat
      BY <1>1, <1>3, LenProperties DEF CallsOK, TriesAreOpening
    <2>2. trying[c] \in 1..n
      BY <2>1
    <2> QED BY <1>1, <2>1, <2>2, ElementOfSeq DEF CallsOK
  <1>5. PICK socks, i : /\ socks = [pathSockets EXCEPT ![i].state = end] /\ i = trying[c]
    OBVIOUS
  <1>6. /\ socks \in Seq(PathSocketRecords) /\ Len(socks) = n
        /\ \A s \in 1..n : socks[s] = pathSockets[s] \/ (s = i /\ socks[s].state \in {"closed", "left"})
    <2> DEFINE ended == [pathSockets[i] EXCEPT !.state = end]
    <2>1. ended \in PathSocketRecords /\ ended.state = end
      BY <1>4, <1>5 DEF PathSocketRecords
    <2>2. socks = [pathSockets EXCEPT ![i] = ended]
      BY <1>5
    <2> HIDE DEF ended
    <2>3. pathSockets \in Seq(PathSocketRecords) /\ i \in 1..n
      BY <1>1, <1>4, <1>5 DEF CallsOK
    <2>4. socks \in Seq(PathSocketRecords) /\ Len(socks) = n
      BY <2>1, <2>2, <2>3, ExceptSeq
    <2> QED BY <2>1, <2>2, <2>3, <2>4, LenProperties
  <1>7. NextMethod(callee[c], stage[c]) \in Ways \cup {At("cached", 0), At("failed", 0)}
    BY <1>1, NextMethodType
  <1>8. CallsOK'
    <2>1. DOMAIN active' \subseteq Remotes
      BY <1>1, <1>3 DEF CallsOK
    <2>2. Try(c, NextMethod(callee[c], stage[c]), socks)
      BY <1>2, <1>5
    <2>3. \A s \in 1..n : socks[s] = pathSockets[s] \/ (s = trying[c] /\ socks[s].state \in {"closed", "left"})
      BY <1>5, <1>6
    <2> QED BY <1>3, <1>6, <1>7, <2>1, <2>2, <2>3, TryKeepsSockets DEF CallsOK
  <1>9. UNCHANGED <<pathClock, localNat, remoteNat, paths, callee, given>>
    BY DEF Fails
  <1>10. CacheTypeOK' /\ CacheIsBounded'
    BY <1>9, SameKeepsCache
  <1> QED BY <1>1, <1>8, <1>9, <1>10, PathsInvParts

(* The socket of the call opens, and is the one socket it is given. *)
LEMMA SucceedsKeepsCalls ==
  ASSUME PathsInv, NEW c \in Connects, Succeeds(c)
  PROVE  CallsOK'
  <1> DEFINE n == Len(pathSockets)
             i == trying[c]
             p == callee[c]
  <1>1. CallsOK /\ p \in Remotes
    BY PathsInvCalls
  <1>2. /\ stage[c].method \in Awaited
        /\ pathSockets' = [pathSockets EXCEPT ![i].state = "open"]
        /\ given' = [given EXCEPT ![c] = i] /\ trying' = [trying EXCEPT ![c] = 0]
        /\ stage' = [stage EXCEPT ![c] = At("connected", 0)] /\ callee' = callee
        /\ active' = active \/ active' = [q \in DOMAIN active \cup {p} |-> IF q = p THEN i ELSE active[q]]
    BY DEF Succeeds
  <1>3. /\ n \in Nat /\ i \in 1..n /\ pathSockets[i] = [remote |-> p, state |-> "opening"]
        /\ DOMAIN pathSockets = 1..n
    <2>1. i # 0 /\ i \in 0..n /\ n \in Nat
      BY <1>1, <1>2, LenProperties DEF CallsOK, TriesAreOpening
    <2>2. i \in 1..n
      BY <2>1
    <2> QED BY <1>1, <2>1, <2>2, LenProperties DEF CallsOK, TriesAreOpening
  <1>4. /\ pathSockets' \in Seq(PathSocketRecords) /\ Len(pathSockets') = n
        /\ DOMAIN pathSockets' = 1..n
        /\ pathSockets'[i] = [remote |-> p, state |-> "open"]
        /\ \A s \in 1..n : s # i => pathSockets'[s] = pathSockets[s]
    <2> DEFINE opened == [remote |-> p, state |-> "open"]
    <2>1. opened \in PathSocketRecords
      BY <1>1 DEF PathSocketRecords
    <2>5. [pathSockets[i] EXCEPT !.state = "open"] = opened
      BY <1>3
    <2>2. pathSockets' = [pathSockets EXCEPT ![i] = opened]
      BY <1>2, <2>5
    <2> HIDE DEF opened
    <2>3. pathSockets' \in Seq(PathSocketRecords) /\ Len(pathSockets') = n
      BY <1>1, <1>3, <2>1, <2>2, ExceptSeq DEF CallsOK
    <2>4. pathSockets'[i] = opened /\ \A s \in 1..n : s # i => pathSockets'[s] = pathSockets[s]
      BY <1>3, <2>2
    <2> QED BY <2>3, <2>4, LenProperties DEF opened
  <1>5. OpenSocketsAreGiven'
    <2> SUFFICES ASSUME NEW q \in Remotes, NEW s \in OpenTo(q)'
                 PROVE  \E d \in Connects : given'[d] = s /\ callee'[d] = q
      BY DEF OpenSocketsAreGiven
    <2>1. s \in 1..n /\ pathSockets'[s].remote = q /\ pathSockets'[s].state = "open"
      BY <1>4 DEF OpenTo
    <2>2. CASE s = i
      <3>1. q = p
        BY <1>4, <2>1, <2>2
      <3>2. given'[c] = i
        BY <1>1, <1>2 DEF CallsOK
      <3> QED BY <1>2, <2>2, <3>1, <3>2
    <2>3. CASE s # i
      <3>1. s \in OpenTo(q)
        BY <1>3, <1>4, <2>1, <2>3 DEF OpenTo
      <3>2. PICK d \in Connects : given[d] = s /\ callee[d] = q
        BY <1>1, <3>1 DEF CallsOK, OpenSocketsAreGiven
      <3>3. d # c
        <4>1. given[c] = 0
          BY <1>1, <1>2 DEF CallsOK, TriesAreOpening, Awaited
        <4> QED BY <2>1, <3>2, <4>1
      <3> QED BY <1>1, <1>2, <3>2, <3>3 DEF CallsOK
    <2> QED BY <2>2, <2>3
  <1>6. ASSUME NEW d \in Connects
        PROVE  /\ (stage'[d].method \in Awaited) = (trying'[d] # 0)
               /\ trying'[d] # 0 => pathSockets'[trying'[d]] = [remote |-> callee'[d], state |-> "opening"]
               /\ given'[d] # 0 => stage'[d].method = "connected"
    <2>1. CASE d = c
      BY <1>1, <1>2, <2>1 DEF CallsOK, At, Awaited
    <2>2. CASE d # c
      <3>1. /\ stage'[d] = stage[d] /\ trying'[d] = trying[d] /\ given'[d] = given[d]
            /\ callee'[d] = callee[d]
        BY <1>1, <1>2, <2>2 DEF CallsOK
      <3>2. trying[d] # 0 => trying[d] \in 1..n /\ trying[d] # i
        <4>1. trying[d] \in 0..n
          BY <1>1 DEF CallsOK
        <4>2. trying[d] # 0 => trying[d] # i
          BY <1>1, <2>2 DEF CallsOK, TriesAreOpening
        <4> QED BY <1>3, <4>1, <4>2
      <3> QED BY <1>1, <1>4, <3>1, <3>2 DEF CallsOK, TriesAreOpening
    <2> QED BY <2>1, <2>2
  <1>7. ASSUME NEW d \in Connects, NEW e \in Connects, d # e, trying'[d] # 0
        PROVE  trying'[d] # trying'[e]
    <2>1. trying'[d] = trying[d] /\ (trying'[e] = trying[e] \/ trying'[e] = 0)
      BY <1>1, <1>2, <1>7 DEF CallsOK
    <2> QED BY <1>1, <1>7, <2>1 DEF CallsOK, TriesAreOpening
  <1>8. ASSUME NEW q \in DOMAIN active'
        PROVE  active'[q] \in 1..n /\ pathSockets'[active'[q]].state # "opening"
    <2>1. active'[q] = i \/ (q \in DOMAIN active /\ active'[q] = active[q])
      BY <1>2
    <2>2. q \in DOMAIN active => active[q] \in 1..n /\ pathSockets[active[q]].state # "opening"
      BY <1>1 DEF CallsOK, TriesAreOpening
    <2> QED BY <1>3, <1>4, <2>1, <2>2
  <1>9. TriesAreOpening'
    BY <1>6, <1>7, <1>8 DEF TriesAreOpening
  <1>10. /\ stage' \in [Connects -> [method : Awaited \cup Finished, endpoint : Nat]]
         /\ trying' \in [Connects -> 0..n] /\ given' \in [Connects -> 0..n]
    <2>1. At("connected", 0) \in [method : Awaited \cup Finished, endpoint : Nat]
      BY DEF At, Finished
    <2> QED BY <1>1, <1>2, <1>3, <2>1 DEF CallsOK
  <1>11. DOMAIN active' \subseteq Remotes /\ active' \in [DOMAIN active' -> 1..n]
    <2>1. DOMAIN active' \subseteq Remotes
      BY <1>1, <1>2 DEF CallsOK
    <2>2. active' = [q \in DOMAIN active' |-> active'[q]]
      BY <1>1, <1>2 DEF CallsOK
    <2> QED BY <1>8, <2>1, <2>2
  <1>12. n <= MaxPathSockets
    BY <1>1 DEF CallsOK
  <1> QED BY <1>4, <1>5, <1>9, <1>10, <1>11, <1>12 DEF CallsOK

LEMMA SucceedsKeepsPaths ==
  ASSUME PathsInv, NEW c \in Connects, Succeeds(c)
  PROVE  PathsInv'
  <1>1. CallsOK /\ pathClock \in 0..MaxPathClock /\ callee[c] \in Remotes
    BY PathsInvCalls
  <1>2. PICK method, s :
          /\ method = IF stage[c].method = "cached" THEN "direct" ELSE stage[c].method
          /\ s = trying[c]
    OBVIOUS
  <1>3. /\ stage[c].method \in Awaited /\ SetPath(callee[c], method)
        /\ given' = [given EXCEPT ![c] = s]
        /\ UNCHANGED <<pathClock, localNat, remoteNat, callee>>
    BY <1>2 DEF Succeeds
  <1>4. given[c] = 0 /\ s # 0 /\ s \in 0..Len(pathSockets)
    BY <1>1, <1>2, <1>3 DEF CallsOK, TriesAreOpening, Awaited
  <1>5. method \in Methods /\ s \in Nat \ {0}
    BY <1>2, <1>3, <1>4 DEF Awaited, Methods
  <1>6. CacheTypeOK' /\ CacheIsBounded'
    BY <1>3, <1>4, <1>5, SetPathKeepsCache
  <1>7. CallsOK'
    BY SucceedsKeepsCalls
  <1> QED BY <1>1, <1>3, <1>6, <1>7, PathsInvParts

LEMMA CountedFailure ==
  ASSUME NEW entry \in PathEntries, NEW clock \in Nat
  PROVE  [entry EXCEPT !.attempts = @ + 1, !.used = clock]
           = [method |-> entry.method, created |-> entry.created, used |-> clock,
              attempts |-> entry.attempts + 1, successes |-> entry.successes]
  <1> DEFINE once == [entry EXCEPT !.attempts = @ + 1]
  <1>1. once = [method |-> entry.method, created |-> entry.created, used |-> entry.used,
                attempts |-> entry.attempts + 1, successes |-> entry.successes]
    BY DEF PathEntries
  <1> HIDE DEF once
  <1>2. [once EXCEPT !.used = clock]
          = [method |-> entry.method, created |-> entry.created, used |-> clock,
             attempts |-> entry.attempts + 1, successes |-> entry.successes]
    BY <1>1
  <1> QED BY <1>2 DEF once

LEMMA RecordFailureKeepsPaths ==
  ASSUME PathsInv, NEW p \in Remotes, RecordFailure(p)
  PROVE  PathsInv'
  <1> DEFINE failed == [paths[p] EXCEPT !.attempts = @ + 1, !.used = pathClock]
  <1>1. /\ p \in DOMAIN paths
        /\ UNCHANGED <<pathClock, localNat, remoteNat, pathSockets, active, callee, stage, trying, given>>
    BY DEF RecordFailure
  <1>2. CallsOK /\ pathClock \in 0..MaxPathClock
    BY PathsInvCalls
  <1>3. CallsOK'
    BY <1>1, <1>2, SameCalls
  <1>4. CacheTypeOK' /\ CacheIsBounded'
    <2>1. CASE paths' = Dropping(paths, {p})
      BY <1>1, <2>1, DroppedKeepsCache
    <2>2. CASE paths' = [paths EXCEPT ![p] = failed]
      <3>1. paths[p] \in PathEntries /\ pathClock \in Nat
        BY <1>1, <1>2 DEF PathsInv, PathsTypeOK
      <3>2. /\ paths[p].created \in Nat /\ paths[p].used \in Nat /\ paths[p].attempts \in Nat
            /\ paths[p].successes \in Nat
        BY <3>1 DEF PathEntries
      <3>3. /\ paths[p].created <= paths[p].used /\ paths[p].used <= pathClock
            /\ paths[p].successes <= paths[p].attempts
        BY <1>1 DEF PathsInv, PathsTypeOK
      <3>4. failed = [method |-> paths[p].method, created |-> paths[p].created, used |-> pathClock,
                      attempts |-> paths[p].attempts + 1, successes |-> paths[p].successes]
        BY <3>1, CountedFailure
      <3>5. failed \in PathEntries
        BY ONLY <3>1, <3>2, <3>4 DEF PathEntries
      <3>6. /\ failed.created <= failed.used /\ failed.used <= pathClock
            /\ failed.successes <= failed.attempts /\ failed.successes = paths[p].successes
        BY <3>1, <3>2, <3>3, <3>4
      <3> HIDE DEF failed
      <3>7. DOMAIN paths' = DOMAIN paths /\ paths' \in [DOMAIN paths -> PathEntries]
        BY <2>2, <3>5 DEF PathsInv, PathsTypeOK
      <3>8. ASSUME NEW q \in DOMAIN paths
            PROVE  /\ paths'[q].created <= paths'[q].used /\ paths'[q].used <= pathClock
                   /\ paths'[q].successes <= paths'[q].attempts
                   /\ paths'[q].successes = paths[q].successes
        <4>1. CASE q = p
          <5>1. paths'[q] = failed
            BY <2>2, <4>1
          <5> QED BY <3>6, <4>1, <5>1
        <4>2. CASE q # p
          <5>1. paths'[q] = paths[q]
            BY <2>2, <4>2
          <5> QED BY <5>1 DEF PathsInv, PathsTypeOK
        <4> QED BY <4>1, <4>2
      <3>9. CacheTypeOK'
        BY <1>1, <3>7, <3>8 DEF CacheTypeOK, PathsInv, PathsTypeOK
      <3> QED BY <1>1, <3>7, <3>8, <3>9 DEF PathsInv, CacheIsBounded
    <2> QED BY <2>1, <2>2 DEF RecordFailure
  <1> QED BY <1>1, <1>2, <1>3, <1>4, PathsInvParts

LEMMA EndKeepsPaths ==
  ASSUME PathsInv,
         \/ \E p \in Remotes : DisconnectPeer(p)
         \/ \E s \in 1..MaxPathSockets : SocketCloses(s)
         \/ DisconnectAll
  PROVE  PathsInv'
  <1>1. UNCHANGED <<pathClock, localNat, remoteNat, paths, callee, stage, trying, given>>
    BY DEF DisconnectPeer, SocketCloses, DisconnectAll
  <1>2. CallsOK /\ pathClock \in 0..MaxPathClock
    BY PathsInvCalls
  <1>3. \A p \in DOMAIN active :
          active[p] \in DOMAIN pathSockets /\ pathSockets[active[p]].state # "opening"
    BY <1>2, LenProperties DEF CallsOK, TriesAreOpening
  <1>4. CacheTypeOK' /\ CacheIsBounded'
    BY <1>1, SameKeepsCache
  <1>5. CallsOK'
    <2>1. CASE \E p \in Remotes : DisconnectPeer(p)
      <3>1. PICK p \in DOMAIN active : ClosedSockets({active[p]}) /\ active' = Dropping(active, {p})
        BY <2>1 DEF DisconnectPeer
      <3>2. DOMAIN active' \subseteq DOMAIN active /\ active' = [q \in DOMAIN active' |-> active[q]]
        BY <3>1 DEF Dropping
      <3>3. \A s \in {active[p]} : s \in DOMAIN pathSockets /\ pathSockets[s].state # "opening"
        BY <1>3, <3>1
      <3> QED BY <1>1, <3>1, <3>2, <3>3, ClosingKeepsCalls
    <2>2. CASE \E s \in 1..MaxPathSockets : SocketCloses(s)
      <3>1. PICK s \in DOMAIN pathSockets :
              pathSockets[s].state = "open" /\ ClosedSockets({s}) /\ active' = active
        BY <2>2 DEF SocketCloses
      <3>2. DOMAIN active' \subseteq DOMAIN active /\ active' = [q \in DOMAIN active' |-> active[q]]
        BY <1>2, <3>1 DEF CallsOK
      <3>3. \A t \in {s} : t \in DOMAIN pathSockets /\ pathSockets[t].state # "opening"
        BY <3>1
      <3> QED BY <1>1, <3>1, <3>2, <3>3, ClosingKeepsCalls
    <2>3. CASE DisconnectAll
      <3>1. ClosedSockets({active[p] : p \in DOMAIN active}) /\ active' = Dropping(active, Remotes)
        BY <2>3 DEF DisconnectAll
      <3>2. DOMAIN active' \subseteq DOMAIN active /\ active' = [q \in DOMAIN active' |-> active[q]]
        BY <3>1 DEF Dropping
      <3>3. \A s \in {active[p] : p \in DOMAIN active} :
              s \in DOMAIN pathSockets /\ pathSockets[s].state # "opening"
        BY <1>3
      <3> QED BY <1>1, <3>1, <3>2, <3>3, ClosingKeepsCalls
    <2> QED BY <2>1, <2>2, <2>3
  <1> QED BY <1>1, <1>2, <1>4, <1>5, PathsInvParts

LEMMA TimeKeepsPaths ==
  ASSUME PathsInv, Prune \/ PathTimePasses \/ UNCHANGED pathVars
  PROVE  PathsInv'
  <1>1. /\ UNCHANGED <<localNat, remoteNat, pathSockets, active, callee, stage, trying, given>>
        /\ pathClock' = pathClock \/ (pathClock' = pathClock + 1 /\ pathClock < MaxPathClock)
    BY DEF Prune, PathTimePasses, pathVars
  <1>2. CallsOK /\ pathClock \in 0..MaxPathClock
    BY PathsInvCalls
  <1>3. pathClock' \in 0..MaxPathClock
    BY <1>1, <1>2, PathsAssumption
  <1>4. CallsOK'
    BY <1>1, <1>2, SameCalls
  <1>5. CASE Prune
    <2>1. CacheTypeOK' /\ CacheIsBounded'
      BY <1>5, DroppedKeepsCache DEF Prune
    <2> QED BY <1>1, <1>3, <1>4, <2>1, PathsInvParts
  <1>6. CASE PathTimePasses \/ UNCHANGED pathVars
    <2>1. UNCHANGED paths
      BY <1>6 DEF PathTimePasses, pathVars
    <2>2. CacheTypeOK' /\ CacheIsBounded'
      BY <1>1, <2>1, SameKeepsCache
    <2> QED BY <1>1, <1>3, <1>4, <2>2, PathsInvParts
  <1> QED BY <1>5, <1>6

(* However calls of connect to the same peers overlap, whatever the NATs are *)
(* said to be and whenever sockets close, an open socket has a caller it was *)
(* given to, and the cache keeps its bound and counts no success twice.      *)
THEOREM PathsInvariance == PathsSpec => []PathsInv
  <1>1. PathsInv /\ [PathsNext]_pathVars => PathsInv'
    <2> SUFFICES ASSUME PathsInv, [PathsNext]_pathVars PROVE PathsInv'
      OBVIOUS
    <2>1. ASSUME NEW c \in Connects, Connect(c) \/ Succeeds(c) \/ Fails(c) PROVE PathsInv'
      BY <2>1, ConnectKeepsPaths, SucceedsKeepsPaths, FailsKeepsPaths
    <2>2. ASSUME NEW p \in Remotes, RecordFailure(p) PROVE PathsInv'
      BY <2>2, RecordFailureKeepsPaths
    <2> QED BY <2>1, <2>2, EndKeepsPaths, TimeKeepsPaths DEF PathsNext
  <1> QED BY <1>1, PathsInvInit, PTL DEF PathsSpec

(* Of the sockets that are open, each is one that connect has returned.      *)
THEOREM OpenSocketsHaveCallers == PathsSpec => []OpenSocketsAreGiven
  <1>1. PathsInv => OpenSocketsAreGiven
    BY DEF PathsInv
  <1> QED BY <1>1, PathsInvariance, PTL

(* The cache of paths is bounded, though set adds the entry after it evicts. *)
THEOREM CacheBounded == PathsSpec => []CacheIsBounded
  <1>1. PathsInv => CacheIsBounded
    BY DEF PathsInv
  <1> QED BY <1>1, PathsInvariance, PTL

-----------------------------------------------------------------------------
(* Bootstrap nodes *)

LEMMA BootInvInit == BootInit => BootInv
  <1> SUFFICES ASSUME BootInit PROVE BootInv
    OBVIOUS
  <1> USE BootAssumption DEF BootInit
  <1>1. BootTypeOK
    <2>1. nodes \in [DOMAIN nodes -> [seen : 0..bootClock \cup {Unseen}, reliability : 0..1000]]
      OBVIOUS
    <2> QED BY <2>1 DEF BootTypeOK, BootNodes, QueryStates
  <1>2. SettledWhenReturned /\ NamedByAnswers
    BY DEF SettledWhenReturned, NamedByAnswers, Asked
  <1> QED BY <1>1, <1>2 DEF BootInv

LEMMA BestNodesType ==
  ASSUME BootTypeOK, NEW size \in Nat, NEW best \in BestNodes(size)
  PROVE  best \in Seq(BootNodes) /\ Len(best) <= size
  <1> DEFINE n == IF Cardinality(GetNodes) < size THEN Cardinality(GetNodes) ELSE size
  <1>1. GetNodes \subseteq BootNodes /\ IsFiniteSet(BootNodes)
    BY BootAssumption, FS_Union DEF GetNodes, BootTypeOK, BootNodes
  <1>2. Cardinality(GetNodes) \in Nat
    BY <1>1, FS_Subset, FS_CardinalityType
  <1>3. n \in Nat /\ n <= size
    BY <1>2
  <1>4. best \in [1..n -> GetNodes]
    BY DEF BestNodes
  <1> HIDE DEF n
  <1>5. best \in [1..n -> BootNodes]
    BY <1>1, <1>4
  <1>6. best \in Seq(BootNodes)
    BY <1>3, <1>5, SeqDef
  <1>7. Len(best) = n
    BY <1>3, <1>5, <1>6, LenProperties
  <1> QED BY <1>3, <1>6, <1>7

(* A query goes on: what the call will return rests on those that answered.  *)
LEMMA QueriesKeepBoot ==
  ASSUME BootInv, NEW n \in BootNodes, query[n] \in {"opening", "asked", "unanswered"},
         NEW to \in QueryStates \ {"none"}, QueryBecomes(n, to),
         found' = found \/ (to = "answered" /\ \E S \in SUBSET KnownPeers : found' = [found EXCEPT ![n] = S])
  PROVE  BootInv'
  <1>1. query' = [query EXCEPT ![n] = to] /\ UNCHANGED <<bootClock, nodes, discovery, toTell, told, announces>>
    BY DEF QueryBecomes
  <1>2. query \in [BootNodes -> QueryStates] /\ found \in [BootNodes -> SUBSET KnownPeers]
    BY DEF BootInv, BootTypeOK
  <1>3. found' \in [BootNodes -> SUBSET KnownPeers]
    BY <1>2
  <1>4. BootTypeOK'
    BY <1>1, <1>2, <1>3 DEF BootInv, BootTypeOK
  <1>5. discovery = "asking"
    <2>1. n \in Asked
      BY DEF Asked
    <2> QED BY <2>1 DEF BootInv, BootTypeOK, SettledWhenReturned, NamedByAnswers
  <1>6. \A m \in BootNodes : found'[m] # {} => query'[m] = "answered"
    <2> SUFFICES ASSUME NEW m \in BootNodes, found'[m] # {} PROVE query'[m] = "answered"
      OBVIOUS
    <2>1. CASE m = n
      <3>1. found[n] = {}
        BY DEF BootInv, NamedByAnswers
      <3>2. to = "answered"
        BY <2>1, <3>1
      <3> QED BY <1>1, <1>2, <2>1, <3>2
    <2>2. CASE m # n
      <3>1. found'[m] = found[m] /\ query'[m] = query[m]
        BY <1>1, <1>2, <2>2
      <3> QED BY <3>1 DEF BootInv, NamedByAnswers
    <2> QED BY <2>1, <2>2
  <1> QED BY <1>1, <1>4, <1>5, <1>6 DEF BootInv, SettledWhenReturned, NamedByAnswers

(* What does not touch the call of discoverPeers. *)
LEMMA OthersKeepBoot ==
  ASSUME BootInv, BootTypeOK', UNCHANGED <<query, found, discovery>>
  PROVE  BootInv'
  BY DEF BootInv, SettledWhenReturned, NamedByAnswers, Asked

LEMMA DiscoverKeepsBoot ==
  ASSUME BootInv, DiscoverPeers
  PROVE  BootInv'
  <1>1. /\ discovery = "idle" /\ Asked = {}
        /\ UNCHANGED <<bootClock, nodes, found, toTell, told, announces>>
    BY DEF DiscoverPeers, BootInv, NamedByAnswers
  <1>2. \/ discovery' = "failure" /\ query' = query
        \/ discovery' = "asking" /\ query' \in [BootNodes -> QueryStates]
    <2>1. CASE GetNodes = {}
      BY <2>1 DEF DiscoverPeers
    <2>2. CASE GetNodes # {}
      <3>1. PICK best : query' = [n \in BootNodes |-> IF \E i \in DOMAIN best : best[i] = n
                                                       THEN "opening" ELSE "none"]
        BY <2>2 DEF DiscoverPeers
      <3> QED BY <2>2, <3>1 DEF DiscoverPeers, QueryStates
    <2> QED BY <2>1, <2>2
  <1>3. \A n \in BootNodes : found[n] = {}
    BY <1>1 DEF BootInv, NamedByAnswers, Asked
  <1>4. BootTypeOK'
    BY <1>1, <1>2 DEF BootInv, BootTypeOK
  <1> QED BY <1>1, <1>2, <1>3, <1>4 DEF BootInv, SettledWhenReturned, NamedByAnswers, Asked

LEMMA DiscoveredKeepsBoot ==
  ASSUME BootInv, Discovered
  PROVE  BootInv'
  <1>1. /\ discovery = "asking" /\ AllSettled /\ discovery' \in {"success", "failure"}
        /\ UNCHANGED <<bootClock, nodes, query, found, toTell, told, announces>>
        /\ discovery' = "success" => Cardinality(UNION {found[n] : n \in Asked}) >= MinNodes
    BY DEF Discovered
  <1>2. UNION {found[n] : n \in Asked} = UNION {found[n] : n \in {m \in Asked : query[m] = "answered"}}
    BY DEF BootInv, NamedByAnswers, Asked
  <1>3. BootTypeOK'
    BY <1>1 DEF BootInv, BootTypeOK
  <1>4. SettledWhenReturned'
    <2>1. Asked' = Asked
      BY <1>1 DEF Asked
    <2>2. \A n \in Asked : query'[n] \notin {"opening", "asked", "unanswered"}
      BY <1>1 DEF AllSettled
    <2>3. discovery' = "success" =>
            Cardinality(UNION {found[n] : n \in {m \in Asked : query[m] = "answered"}}) >= MinNodes
      BY <1>1, <1>2
    <2> QED BY <1>1, <2>1, <2>2, <2>3 DEF SettledWhenReturned
  <1> QED BY <1>1, <1>3, <1>4 DEF BootInv, NamedByAnswers, Asked

(* However answers, refusals and timers of the parallel queries interleave,  *)
(* and whatever happens to the list of nodes meanwhile, a call that returned *)
(* left no query behind, and a success counts only peers that were named.    *)
THEOREM BootInvariance == BootSpec => []BootInv
  <1>1. BootInv /\ [BootNext]_bootVars => BootInv'
    <2> SUFFICES ASSUME BootInv, [BootNext]_bootVars PROVE BootInv'
      OBVIOUS
    <2> USE BootAssumption
    <2> DEFINE record == [seen : 0..bootClock \cup {Unseen}, reliability : 0..1000]
    <2>0. /\ BootTypeOK /\ bootClock \in Nat /\ bootClock <= MaxBootClock
          /\ nodes \in [DOMAIN nodes -> record]
      <3>1. BootTypeOK
        BY DEF BootInv
      <3>2. nodes \in [DOMAIN nodes -> record]
        BY <3>1 DEF BootTypeOK
      <3>3. bootClock \in Nat /\ bootClock <= MaxBootClock
        BY <3>1 DEF BootTypeOK
      <3> QED BY <3>1, <3>2, <3>3
    <2>1. CASE DiscoverPeers \/ Discovered
      BY <2>1, DiscoverKeepsBoot, DiscoveredKeepsBoot
    <2>2. CASE AnnounceToBest
      <3>1. PICK best \in BestNodes(3) : toTell' = best
        BY <2>2 DEF AnnounceToBest
      <3>2. toTell' \in Seq(BootNodes) /\ Len(toTell') <= 3
        BY <2>0, <3>1, BestNodesType
      <3>3. BootTypeOK'
        BY <2>0, <2>2, <3>2 DEF AnnounceToBest, BootTypeOK
      <3> QED BY <2>2, <3>3, OthersKeepBoot DEF AnnounceToBest
    <2>3. CASE BootTimePasses
      <3>1. bootClock' = bootClock + 1 /\ bootClock' \in 0..MaxBootClock /\ UNCHANGED nodes
        BY <2>0, <2>3 DEF BootTimePasses
      <3>2. record \subseteq [seen : 0..bootClock' \cup {Unseen}, reliability : 0..1000]
        BY <2>0, <3>1
      <3>3. nodes' \in [DOMAIN nodes' -> [seen : 0..bootClock' \cup {Unseen}, reliability : 0..1000]]
        <4> HIDE DEF record
        <4> QED BY <2>0, <3>1, <3>2
      <3>4. BootTypeOK'
        BY <2>0, <2>3, <3>1, <3>3 DEF BootTimePasses, BootTypeOK, Unseen
      <3> QED BY <2>3, <3>4, OthersKeepBoot DEF BootTimePasses
    <2>4. ASSUME NEW n \in BootNodes, AddNode(n) PROVE BootInv'
      <3>1. [seen |-> bootClock, reliability |-> 500] \in record
        BY <2>0
      <3>2. nodes' \in [DOMAIN nodes' -> record] /\ DOMAIN nodes' = DOMAIN nodes \cup {n}
        <4> HIDE DEF record
        <4> QED BY <2>0, <2>4, <3>1 DEF AddNode
      <3>3. BootTypeOK'
        BY <2>0, <2>4, <3>2 DEF AddNode, BootTypeOK, Unseen
      <3> QED BY <2>4, <3>3, OthersKeepBoot DEF AddNode
    <2>5. ASSUME NEW n \in BootNodes, RemoveNode(n) PROVE BootInv'
      <3>1. nodes' \in [DOMAIN nodes' -> record] /\ DOMAIN nodes' = DOMAIN nodes \ {n}
        <4> HIDE DEF record
        <4> QED BY <2>0, <2>5 DEF RemoveNode
      <3>2. BootTypeOK'
        BY <2>0, <2>5, <3>1 DEF RemoveNode, BootTypeOK, Unseen
      <3> QED BY <2>5, <3>2, OthersKeepBoot DEF RemoveNode
    <2>6. ASSUME NEW n \in BootNodes, QueryOpens(n) PROVE BootInv'
      BY <2>6, QueriesKeepBoot DEF QueryOpens, QueryStates
    <2>7. ASSUME NEW n \in BootNodes, Answers(n) PROVE BootInv'
      BY <2>7, QueriesKeepBoot DEF Answers, QueryStates
    <2>8. ASSUME NEW n \in BootNodes, Refuses(n) PROVE BootInv'
      BY <2>8, QueriesKeepBoot DEF Refuses, QueryStates
    <2>9. ASSUME NEW n \in BootNodes, SaysOtherwise(n) PROVE BootInv'
      BY <2>9, QueriesKeepBoot DEF SaysOtherwise, QueryStates
    <2>10. ASSUME NEW n \in BootNodes, QueryTimesOut(n) PROVE BootInv'
      BY <2>10, QueriesKeepBoot DEF QueryTimesOut, QueryStates
    <2>11. ASSUME NEW success \in BOOLEAN, NodeTold(success) PROVE BootInv'
      <3> DEFINE n == Head(toTell)
                 rated == [seen |-> bootClock, reliability |-> Rated(nodes[n].reliability, success)]
      <3>1. /\ toTell # <<>> /\ toTell' = Tail(toTell)
            /\ told' = IF success THEN told \cup {n} ELSE told
            /\ nodes' = IF n \notin DOMAIN nodes THEN nodes ELSE [nodes EXCEPT ![n] = rated]
            /\ UNCHANGED <<bootClock, query, found, discovery, announces>>
        BY <2>11 DEF NodeTold, UpdateReliability
      <3>2. n \in DOMAIN nodes => rated \in record
        <4> SUFFICES ASSUME n \in DOMAIN nodes PROVE rated \in record
          OBVIOUS
        <4>1. nodes[n].reliability \in 0..1000
          BY <2>0
        <4>2. Rated(nodes[n].reliability, success) \in 0..1000
          BY <4>1 DEF Rated
        <4> QED BY <2>0, <4>2
      <3>3. nodes' \in [DOMAIN nodes' -> record] /\ DOMAIN nodes' = DOMAIN nodes
        <4> HIDE DEF record, rated
        <4> QED BY <2>0, <3>1, <3>2
      <3>4. toTell \in Seq(BootNodes) /\ Len(toTell) <= 3
        BY <2>0 DEF BootTypeOK
      <3>5. n \in BootNodes /\ toTell' \in Seq(BootNodes) /\ Len(toTell') <= 3
        BY <3>1, <3>4, HeadTailProperties, LenProperties
      <3> HIDE DEF rated, n
      <3>7. told' \subseteq BootNodes
        <4>1. told \subseteq BootNodes
          BY <2>0 DEF BootTypeOK
        <4> QED BY <3>1, <3>5, <4>1
      <3>6. BootTypeOK'
        BY <2>0, <3>1, <3>3, <3>5, <3>7 DEF BootTypeOK, Unseen
      <3> QED BY <3>1, <3>6, OthersKeepBoot
    <2>12. CASE UNCHANGED bootVars
      BY <2>12 DEF bootVars, BootInv, BootTypeOK, SettledWhenReturned, NamedByAnswers, Asked, Unseen
    <2> QED BY <2>1, <2>2, <2>3, <2>4, <2>5, <2>6, <2>7, <2>8, <2>9, <2>10, <2>11, <2>12 DEF BootNext
  <1> QED BY <1>1, BootInvInit, PTL DEF BootSpec

-----------------------------------------------------------------------------
(* The local network *)

LEMMA LocalInvInit == LocalInit => LocalInv
  <1> SUFFICES ASSUME LocalInit PROVE LocalInv
    OBVIOUS
  <1>1. Off \in Nat /\ 0..MaxLocalClock \subseteq 0..Off
    BY LocalAssumption DEF Off
  <1>2. LocalTypeOK
    BY <1>1, LocalAssumption DEF LocalInit, LocalTypeOK
  <1> QED BY <1>2 DEF LocalInit, LocalInv, ForgottenInTime, NeverItself, TimersNeedSocket, CleanupsComeInTime

(* That no node stays in a list follows from the cleanups being due.         *)
LEMMA CleanupsForget ==
  ASSUME LocalTypeOK, CleanupsComeInTime
  PROVE  ForgottenInTime
  <1> SUFFICES ASSUME NEW s \in Services, NEW t \in DOMAIN heardAt[s], announcing[s] # Off
               PROVE  \/ localClock - heardAt[s][t] <= 2 * DiscoveryTTL
                      \/ started[s] > 1 /\ localClock - announcing[s] <= DiscoveryTTL
    BY DEF ForgottenInTime
  <1>1. /\ DiscoveryTTL \in Nat /\ localClock \in Nat /\ heardAt[s][t] \in Nat
        /\ nextCleanup[s] \in Nat /\ announcing[s] \in Nat
    BY LocalAssumption DEF LocalTypeOK, Off
  <1>2. /\ localClock <= nextCleanup[s]
        /\ \/ nextCleanup[s] <= heardAt[s][t] + 2 * DiscoveryTTL
           \/ started[s] > 1 /\ nextCleanup[s] = announcing[s] + DiscoveryTTL
    BY DEF CleanupsComeInTime
  <1> QED BY <1>1, <1>2

(* What CleanupsComeInTime says of one service. *)
CleanupInTime(s) ==
  /\ announcing[s] # Off =>
       /\ announcing[s] <= localClock
       /\ localClock <= nextCleanup[s] /\ nextCleanup[s] <= localClock + DiscoveryTTL
       /\ \A t \in DOMAIN heardAt[s] :
            \/ nextCleanup[s] <= heardAt[s][t] + 2 * DiscoveryTTL
            \/ started[s] > 1 /\ nextCleanup[s] = announcing[s] + DiscoveryTTL
  /\ socket[s] # "none" \/ DOMAIN heardAt[s] # {} => started[s] > 0
  /\ socket[s] = "binding" /\ DOMAIN heardAt[s] # {} => started[s] > 1

(* What the invariant says of one service. *)
ServiceOK(s) ==
  /\ announcing[s] \in 0..MaxLocalClock \cup {Off}
  /\ socket[s] \in {"none", "binding", "bound", "failed"}
  /\ nextCleanup[s] \in 0..Off /\ started[s] \in 0..MaxStarts
  /\ DOMAIN heardAt[s] \subseteq Services /\ heardAt[s] \in [DOMAIN heardAt[s] -> 0..localClock]
  /\ s \notin DOMAIN heardAt[s]
  /\ (announcing[s] # Off) = (socket[s] = "bound")
  /\ (nextCleanup[s] # Off) = (announcing[s] # Off)
  /\ s \notin marked => socket[s] = "none"
  /\ CleanupInTime(s)

Framed ==
  /\ localClock \in 0..MaxLocalClock /\ marked \subseteq Services /\ datagrams \subseteq Datagrams
  /\ announcing = [s \in Services |-> announcing[s]] /\ socket = [s \in Services |-> socket[s]]
  /\ nextCleanup = [s \in Services |-> nextCleanup[s]] /\ started = [s \in Services |-> started[s]]
  /\ DOMAIN heardAt = Services

LEMMA LocalInvParts ==
  LocalInv <=> (Framed /\ \A s \in Services : ServiceOK(s))
  <1>1. ASSUME LocalInv PROVE Framed /\ \A s \in Services : ServiceOK(s)
    BY <1>1 DEF LocalInv, LocalTypeOK, NeverItself, TimersNeedSocket, CleanupsComeInTime, Framed,
                ServiceOK, CleanupInTime
  <1>2. ASSUME Framed, \A s \in Services : ServiceOK(s) PROVE LocalInv
    <2>1. LocalTypeOK
      BY <1>2 DEF LocalTypeOK, Framed, ServiceOK
    <2>2. CleanupsComeInTime
      BY <1>2 DEF ServiceOK, CleanupInTime, CleanupsComeInTime
    <2>3. NeverItself /\ TimersNeedSocket
      BY <1>2 DEF ServiceOK, NeverItself, TimersNeedSocket
    <2> QED BY <2>1, <2>2, <2>3, CleanupsForget DEF LocalInv
  <1> QED BY <1>1, <1>2 DEF LocalInv

LEMMA LocalInvNext ==
  ASSUME Framed', \A s \in Services : ServiceOK(s)'
  PROVE  LocalInv'
  <1>1. (Framed /\ \A s \in Services : ServiceOK(s))'
    OBVIOUS
  <1> QED BY <1>1, LocalInvParts, PTL

(* A service that a step leaves as it is, time apart. *)
LEMMA OtherServices ==
  ASSUME NEW s, ServiceOK(s), localClock' = localClock,
         (s \in marked') = (s \in marked), announcing'[s] = announcing[s], socket'[s] = socket[s],
         nextCleanup'[s] = nextCleanup[s], started'[s] = started[s], heardAt'[s] = heardAt[s]
  PROVE  ServiceOK(s)'
  BY DEF ServiceOK, CleanupInTime

LEMMA SentAreDatagrams ==
  ASSUME NEW others \in SUBSET Datagrams, NEW s \in Services, NEW types, SendBeside(others, s, types)
  PROVE  datagrams' \subseteq Datagrams
  BY DEF SendBeside, Sent

LEMMA HandleKeepsLocal ==
  ASSUME LocalInv, NEW d \in datagrams, NEW others \in SUBSET datagrams, HandleMessage(d, others)
  PROVE  LocalInv'
  <1> DEFINE s == d.to
             t == d.from
  <1>1. Framed /\ \A u \in Services : ServiceOK(u)
    BY LocalInvParts
  <1>2. s \in Services /\ t \in Services /\ others \in SUBSET Datagrams
    BY <1>1 DEF Framed, Datagrams
  <1>3. /\ socket[s] = "bound"
        /\ UNCHANGED <<localClock, marked, socket, nextCleanup, announcing, started>>
    BY DEF HandleMessage
  <1>10. d.type \in {"announce", "discover", "response", "goodbye"}
    BY <1>1 DEF Framed, Datagrams
  <1>11. \/ datagrams' = others /\ heardAt' = heardAt
         \/ t # s /\ heardAt' = HeardNow(s, t) /\ datagrams' = others
         \/ SendBeside(others, s, {"response"}) /\ heardAt' = heardAt
         \/ heardAt' = HeardExcept(s, {t}) /\ datagrams' = others
    <2>1. CASE Ours(s, d)
      BY <2>1 DEF HandleMessage
    <2>2. CASE ~Ours(s, d) /\ d.type \in {"announce", "response"}
      BY <2>2 DEF HandleMessage, Ours
    <2>3. CASE ~Ours(s, d) /\ d.type = "discover"
      BY <2>3 DEF HandleMessage
    <2>4. CASE ~Ours(s, d) /\ d.type = "goodbye"
      BY <2>4 DEF HandleMessage
    <2> QED BY <1>10, <2>1, <2>2, <2>3, <2>4
  <1>4. datagrams' \subseteq Datagrams
    BY <1>2, <1>11, SentAreDatagrams
  <1>5. \/ heardAt' = heardAt
        \/ t # s /\ heardAt' = HeardNow(s, t)
        \/ heardAt' = HeardExcept(s, {t})
    BY <1>11
  <1>6. /\ DOMAIN heardAt' = Services
        /\ \A u \in Services : u # s => heardAt'[u] = heardAt[u]
    BY <1>1, <1>5 DEF Framed, HeardNow, HeardExcept
  <1>7. Framed'
    BY <1>1, <1>3, <1>4, <1>6 DEF Framed
  <1>8. \A u \in Services : u # s => ServiceOK(u)'
    BY <1>1, <1>3, <1>6, OtherServices
  <1>9. ServiceOK(s)'
    <2>0. ServiceOK(s) /\ localClock \in Nat /\ DiscoveryTTL \in Nat
      BY <1>1, <1>2, LocalAssumption DEF Framed
    <2>1. CASE heardAt' = heardAt
      BY <1>3, <2>0, <2>1, OtherServices
    <2>2. CASE t # s /\ heardAt' = HeardNow(s, t)
      <3>1. heardAt'[s] = [u \in DOMAIN heardAt[s] \cup {t} |-> IF u = t THEN localClock ELSE heardAt[s][u]]
        BY <1>1, <1>2, <2>2 DEF Framed, HeardNow
      <3>2. nextCleanup[s] \in Nat /\ nextCleanup[s] <= localClock + DiscoveryTTL /\ announcing[s] # Off
        BY <1>3, <2>0, LocalAssumption DEF ServiceOK, CleanupInTime, Off
      <3>3. nextCleanup[s] <= localClock + 2 * DiscoveryTTL
        BY <2>0, <3>2
      <3>4. s \notin DOMAIN heardAt'[s] /\ DOMAIN heardAt'[s] \subseteq Services
            /\ heardAt'[s] \in [DOMAIN heardAt'[s] -> 0..localClock]
        BY <1>2, <2>0, <2>2, <3>1 DEF ServiceOK
      <3>5. CleanupInTime(s)'
        BY <1>3, <2>0, <3>1, <3>2, <3>3 DEF ServiceOK, CleanupInTime
      <3> QED BY <1>3, <2>0, <3>4, <3>5 DEF ServiceOK
    <2>3. CASE heardAt' = HeardExcept(s, {t})
      <3>1. heardAt'[s] = [u \in DOMAIN heardAt[s] \ {t} |-> heardAt[s][u]]
        BY <1>1, <1>2, <2>3 DEF Framed, HeardExcept
      <3>2. s \notin DOMAIN heardAt'[s] /\ DOMAIN heardAt'[s] \subseteq Services
            /\ heardAt'[s] \in [DOMAIN heardAt'[s] -> 0..localClock]
        BY <2>0, <3>1 DEF ServiceOK
      <3>3. CleanupInTime(s)'
        BY <1>3, <2>0, <3>1 DEF ServiceOK, CleanupInTime
      <3> QED BY <1>3, <2>0, <3>2, <3>3 DEF ServiceOK
    <2> QED BY <1>5, <2>1, <2>2, <2>3
  <1> QED BY <1>7, <1>8, <1>9, LocalInvNext

LEMMA CleanupKeepsLocal ==
  ASSUME LocalInv, NEW s \in Services, Cleanup(s)
  PROVE  LocalInv'
  <1> DEFINE gone == {t \in DOMAIN heardAt[s] : IsExpired(s, t)}
  <1>1. Framed /\ \A u \in Services : ServiceOK(u)
    BY LocalInvParts
  <1>2. /\ nextCleanup[s] = localClock /\ heardAt' = HeardExcept(s, gone)
        /\ nextCleanup' = [nextCleanup EXCEPT ![s] = @ + DiscoveryTTL]
        /\ UNCHANGED <<localClock, marked, socket, announcing, datagrams, started>>
    BY DEF Cleanup
  <1>3. /\ localClock \in Nat /\ localClock <= MaxLocalClock /\ DiscoveryTTL \in Nat
        /\ MaxLocalClock \in Nat /\ Off = MaxLocalClock + DiscoveryTTL + 1 /\ ServiceOK(s)
    BY <1>1, LocalAssumption DEF Framed, Off
  <1>4. heardAt'[s] = [u \in DOMAIN heardAt[s] \ gone |-> heardAt[s][u]]
    BY <1>1, <1>2 DEF Framed, HeardExcept
  <1>5. nextCleanup'[s] = localClock + DiscoveryTTL /\ nextCleanup[s] # Off
    BY <1>1, <1>2, <1>3 DEF Framed
  <1>6. Framed'
    BY <1>1, <1>2 DEF Framed, HeardExcept
  <1>7. ASSUME NEW u \in Services, u # s PROVE ServiceOK(u)'
    <2>1. heardAt'[u] = heardAt[u] /\ nextCleanup'[u] = nextCleanup[u]
      BY <1>1, <1>2, <1>7 DEF Framed, HeardExcept
    <2> QED BY <1>1, <1>2, <2>1, OtherServices
  <1>8. ServiceOK(s)'
    <2>1. ASSUME NEW t \in DOMAIN heardAt'[s]
          PROVE  nextCleanup'[s] <= heardAt'[s][t] + 2 * DiscoveryTTL
      <3>1. t \in DOMAIN heardAt[s] /\ t \notin gone /\ heardAt'[s][t] = heardAt[s][t]
        BY <1>4
      <3>2. heardAt[s][t] \in Nat /\ ~(localClock - heardAt[s][t] > DiscoveryTTL)
        BY <1>3, <3>1 DEF IsExpired, ServiceOK
      <3> QED BY <1>3, <1>5, <3>1, <3>2
    <2>2. /\ DOMAIN heardAt'[s] \subseteq DOMAIN heardAt[s]
          /\ heardAt'[s] \in [DOMAIN heardAt'[s] -> 0..localClock]
      BY <1>3, <1>4 DEF ServiceOK
    <2>3. nextCleanup'[s] \in 0..Off /\ nextCleanup'[s] # Off
      BY <1>3, <1>5
    <2>4. CleanupInTime(s)'
      BY <1>2, <1>3, <1>5, <2>1, <2>2 DEF ServiceOK, CleanupInTime
    <2> HIDE DEF gone
    <2> QED BY <1>2, <1>3, <1>5, <2>2, <2>3, <2>4 DEF ServiceOK
  <1> QED BY <1>6, <1>7, <1>8, LocalInvNext

LEMMA BoundKeepsLocal ==
  ASSUME LocalInv, NEW s \in Services, Bound(s)
  PROVE  LocalInv'
  <1>1. Framed /\ \A u \in Services : ServiceOK(u)
    BY LocalInvParts
  <1>2. /\ socket[s] = "binding" /\ socket' = [socket EXCEPT ![s] = "bound"]
        /\ announcing' = [announcing EXCEPT ![s] = localClock]
        /\ nextCleanup' = [nextCleanup EXCEPT ![s] = localClock + DiscoveryTTL]
        /\ SendBeside(datagrams, s, {"announce", "discover"})
        /\ UNCHANGED <<localClock, marked, heardAt, started>>
    BY DEF Bound, SendAll
  <1>3. /\ localClock \in Nat /\ localClock <= MaxLocalClock /\ DiscoveryTTL \in Nat
        /\ MaxLocalClock \in Nat /\ Off = MaxLocalClock + DiscoveryTTL + 1 /\ ServiceOK(s)
    BY <1>1, LocalAssumption DEF Framed, Off
  <1>4. datagrams' \subseteq Datagrams
    BY <1>1, <1>2, SentAreDatagrams DEF Framed
  <1>5. Framed'
    BY <1>1, <1>2, <1>4 DEF Framed
  <1>6. ASSUME NEW u \in Services, u # s PROVE ServiceOK(u)'
    <2>1. socket'[u] = socket[u] /\ announcing'[u] = announcing[u] /\ nextCleanup'[u] = nextCleanup[u]
      BY <1>1, <1>2, <1>6 DEF Framed
    <2> QED BY <1>1, <1>2, <2>1, OtherServices
  <1>7. ServiceOK(s)'
    <2>1. /\ socket'[s] = "bound" /\ announcing'[s] = localClock
          /\ nextCleanup'[s] = localClock + DiscoveryTTL
      BY <1>1, <1>2 DEF Framed
    <2>2. CleanupInTime(s)'
      BY <1>2, <1>3, <2>1 DEF ServiceOK, CleanupInTime
    <2>3. nextCleanup'[s] \in 0..Off /\ nextCleanup'[s] # Off /\ announcing'[s] # Off
          /\ announcing'[s] \in 0..MaxLocalClock
      BY <1>3, <2>1
    <2> QED BY <1>2, <1>3, <2>1, <2>2, <2>3 DEF ServiceOK
  <1> QED BY <1>5, <1>6, <1>7, LocalInvNext

(* start, a bind that fails and stop, of which none touches the list. *)
LEMMA StartStopKeepsLocal ==
  ASSUME LocalInv, NEW s \in Services, StartService(s) \/ BindFails(s) \/ StopService(s)
  PROVE  LocalInv'
  <1>1. Framed /\ \A u \in Services : ServiceOK(u)
    BY LocalInvParts
  <1>2. /\ localClock' = localClock /\ heardAt' = heardAt
        /\ DOMAIN socket = Services /\ DOMAIN announcing = Services
        /\ DOMAIN nextCleanup = Services /\ DOMAIN started = Services
    BY <1>1 DEF Framed, StartService, BindFails, StopService
  <1>3. ServiceOK(s) /\ localClock \in Nat /\ localClock <= MaxLocalClock /\ Off \in Nat
    BY <1>1, LocalAssumption DEF Framed, Off
  <1>4. CASE StartService(s)
    <2>1. /\ s \notin marked /\ started[s] < MaxStarts /\ started' = [started EXCEPT ![s] = @ + 1]
          /\ marked' = marked \cup {s} /\ socket' = [socket EXCEPT ![s] = "binding"]
          /\ UNCHANGED <<nextCleanup, announcing, datagrams>>
      BY <1>4 DEF StartService
    <2>2. Framed'
      BY <1>1, <1>2, <2>1 DEF Framed
    <2>3. \A u \in Services : u # s => ServiceOK(u)'
      BY <1>1, <1>2, <2>1, OtherServices
    <2>4. started'[s] = started[s] + 1 /\ socket'[s] = "binding" /\ announcing[s] = Off
      BY <1>2, <1>3, <2>1 DEF ServiceOK
    <2>5. MaxStarts \in Nat /\ started[s] \in Nat
      BY <1>3, LocalAssumption DEF ServiceOK
    <2>6. CleanupInTime(s)'
      BY <1>2, <1>3, <2>1, <2>4, <2>5 DEF ServiceOK, CleanupInTime
    <2>7. started'[s] \in 0..MaxStarts
      BY <2>1, <2>4, <2>5
    <2>8. ServiceOK(s)'
      BY <1>2, <1>3, <2>1, <2>4, <2>6, <2>7 DEF ServiceOK
    <2> QED BY <2>2, <2>3, <2>8, LocalInvNext
  <1>5. CASE BindFails(s)
    <2>1. /\ socket[s] = "binding" /\ socket' = [socket EXCEPT ![s] = "failed"]
          /\ UNCHANGED <<marked, nextCleanup, announcing, datagrams, started>>
      BY <1>5 DEF BindFails
    <2>2. Framed'
      BY <1>1, <1>2, <2>1 DEF Framed
    <2>3. \A u \in Services : u # s => ServiceOK(u)'
      BY <1>1, <1>2, <2>1, OtherServices
    <2>4. socket'[s] = "failed" /\ announcing[s] = Off
      BY <1>2, <1>3, <2>1 DEF ServiceOK
    <2>5. CleanupInTime(s)'
      BY <1>2, <1>3, <2>1, <2>4 DEF ServiceOK, CleanupInTime
    <2>6. ServiceOK(s)'
      BY <1>2, <1>3, <2>1, <2>4, <2>5 DEF ServiceOK
    <2> QED BY <2>2, <2>3, <2>6, LocalInvNext
  <1>6. CASE StopService(s)
    <2>1. /\ s \in marked /\ marked' = marked \ {s} /\ socket' = [socket EXCEPT ![s] = "none"]
          /\ announcing' = [announcing EXCEPT ![s] = Off] /\ nextCleanup' = [nextCleanup EXCEPT ![s] = Off]
          /\ SendBeside(datagrams, s, {"goodbye"}) /\ UNCHANGED started
      BY <1>6 DEF StopService, TimersCleared, SendAll
    <2>2. datagrams' \subseteq Datagrams
      BY <1>1, <2>1, SentAreDatagrams DEF Framed
    <2>3. Framed'
      BY <1>1, <1>2, <2>1, <2>2 DEF Framed
    <2>4. \A u \in Services : u # s => ServiceOK(u)'
      BY <1>1, <1>2, <2>1, OtherServices
    <2>5. socket'[s] = "none" /\ announcing'[s] = Off /\ nextCleanup'[s] = Off
      BY <1>2, <2>1
    <2>6. CleanupInTime(s)'
      BY <1>2, <1>3, <2>1, <2>5 DEF ServiceOK, CleanupInTime
    <2>7. ServiceOK(s)'
      BY <1>2, <1>3, <2>1, <2>5, <2>6 DEF ServiceOK
    <2> QED BY <2>3, <2>4, <2>7, LocalInvNext
  <1> QED BY <1>4, <1>5, <1>6

(* Time does not go past a timer that is due. *)
LEMMA TimeKeepsLocal ==
  ASSUME LocalInv, LocalTimePasses
  PROVE  LocalInv'
  <1>1. Framed /\ \A u \in Services : ServiceOK(u)
    BY LocalInvParts
  <1>2. /\ localClock < MaxLocalClock /\ localClock' = localClock + 1
        /\ \A s \in Services : nextCleanup[s] # localClock
        /\ UNCHANGED <<marked, socket, nextCleanup, announcing, heardAt, datagrams, started>>
    BY DEF LocalTimePasses
  <1>3. localClock \in Nat /\ MaxLocalClock \in Nat /\ DiscoveryTTL \in Nat
    BY <1>1, LocalAssumption DEF Framed
  <1>4. localClock' \in 0..MaxLocalClock /\ 0..localClock \subseteq 0..localClock'
    BY <1>2, <1>3
  <1>5. Framed'
    BY <1>1, <1>2, <1>4 DEF Framed
  <1>6. ASSUME NEW s \in Services PROVE ServiceOK(s)'
    <2>1. ServiceOK(s) /\ nextCleanup[s] # localClock /\ nextCleanup[s] \in Nat /\ announcing[s] \in Nat
      BY <1>1, <1>2, <1>3 DEF ServiceOK, Off
    <2>2. CleanupInTime(s)'
      BY <1>2, <1>3, <2>1 DEF ServiceOK, CleanupInTime
    <2>3. heardAt[s] \in [DOMAIN heardAt[s] -> 0..localClock']
      BY <1>4, <2>1 DEF ServiceOK
    <2> QED BY <1>2, <2>1, <2>2, <2>3 DEF ServiceOK
  <1> QED BY <1>5, <1>6, LocalInvNext

(* However datagrams are lost, delayed or doubled, and whenever services     *)
(* start, fail to bind and stop, a running service forgets in time what it   *)
(* no longer hears of, never lists itself and keeps no timer of another run. *)
THEOREM LocalInvariance == LocalSpec => []LocalInv
  <1>1. LocalInv /\ [LocalNext]_localVars => LocalInv'
    <2> SUFFICES ASSUME LocalInv, [LocalNext]_localVars PROVE LocalInv'
      OBVIOUS
    <2>0. Framed /\ \A u \in Services : ServiceOK(u)
      BY LocalInvParts
    <2>1. ASSUME NEW s \in Services, Cleanup(s) \/ Bound(s) PROVE LocalInv'
      BY <2>1, CleanupKeepsLocal, BoundKeepsLocal
    <2>2. ASSUME NEW s \in Services, StartService(s) \/ BindFails(s) \/ StopService(s) PROVE LocalInv'
      BY <2>2, StartStopKeepsLocal
    <2>3. ASSUME NEW d \in datagrams,
                 HandleMessage(d, datagrams) \/ HandleMessage(d, datagrams \ {d})
          PROVE LocalInv'
      BY <2>3, HandleKeepsLocal
    <2>4. ASSUME datagrams' \subseteq Datagrams,
                 UNCHANGED <<localClock, marked, socket, nextCleanup, announcing, heardAt, started>>
          PROVE LocalInv'
      <3>1. Framed'
        BY <2>0, <2>4 DEF Framed
      <3>2. \A u \in Services : ServiceOK(u)'
        BY <2>0, <2>4, OtherServices
      <3> QED BY <3>1, <3>2, LocalInvNext
    <2>5. ASSUME NEW s \in Services, AnnounceLocally(s) PROVE LocalInv'
      <3>1. datagrams' \subseteq Datagrams
        BY <2>0, <2>5, SentAreDatagrams DEF AnnounceLocally, SendAll, Framed
      <3> QED BY <2>4, <2>5, <3>1 DEF AnnounceLocally
    <2>6. ASSUME NEW d \in datagrams, DatagramGone(d) PROVE LocalInv'
      BY <2>0, <2>4, <2>6 DEF DatagramGone, Framed
    <2>7. CASE UNCHANGED localVars
      BY <2>0, <2>4, <2>7 DEF localVars, Framed
    <2> QED BY <2>1, <2>2, <2>3, <2>5, <2>6, <2>7, TimeKeepsLocal DEF LocalNext
  <1> QED BY <1>1, LocalInvInit, PTL DEF LocalSpec
==============================================================================
