--------------------------- MODULE ConnectionPaths ---------------------------
(* The connection manager and its cache of paths, packages/p2p/src/          *)
(* connection/manager.ts and cache.ts.  connect tries the cached path, the   *)
(* endpoints, a hole punch and the relay in turn, each with an await; the    *)
(* map of active connections has one socket for each peer.  Sockets are      *)
(* numbered as they are made.  Latencies and addresses are left out.         *)
EXTENDS Naturals, Sequences, FiniteSets

CONSTANTS
    Remotes,        \* public keys
    Connects,       \* calls of connect
    EndpointCount,  \* peer -> number of its endpoints
    HasRelay,       \* a relayUrl is given
    MaxPaths,       \* config.maxEntries
    EntryTTL,       \* config.entryTTL
    MaxPathSockets, \* bound: sockets
    MaxPathClock    \* bound: the clock

ASSUME PathsAssumption ==
    /\ EndpointCount \in [Remotes -> Nat]
    /\ HasRelay \in BOOLEAN /\ MaxPaths \in Nat \ {0}
    /\ {EntryTTL, MaxPathSockets, MaxPathClock} \subseteq Nat
    /\ IsFiniteSet(Remotes) /\ IsFiniteSet(Connects)

VARIABLES
    pathClock,
    localNat,     \* natType of localNATInfo, "unknown" when it is null
    remoteNat,    \* peer -> its natType
    paths,        \* the cache: peer -> [method, created, used, attempts, successes]
    pathSockets,  \* sockets: [remote, state], "left" being one that was never closed
    active,       \* activeConnections: peer -> socket
    callee,       \* call -> the peer it connects to
    stage,        \* call -> the method it awaits, an endpoint being its number
    trying,       \* call -> the socket of that method, 0 when there is none
    given         \* call -> the socket it returned, 0 before

pathVars == <<pathClock, localNat, remoteNat, paths, pathSockets, active, callee, stage,
              trying, given>>

NatTypes == {"unknown", "public", "port_restricted", "symmetric"}

Methods == {"direct", "hole-punch", "relay"}

Awaited == {"cached", "direct", "hole-punch", "relay"}

Finished == {"idle", "connected", "failed"}

(* A stage: the method that is awaited and the number of the endpoint. *)
At(method, n) == [method |-> method, endpoint |-> n]

PathEntries ==
    [method : Methods, created : Nat, used : Nat, attempts : Nat, successes : Nat]

PathsTypeOK ==
    /\ pathClock \in 0..MaxPathClock
    /\ localNat \in NatTypes /\ remoteNat \in [Remotes -> NatTypes]
    /\ DOMAIN paths \subseteq Remotes /\ paths \in [DOMAIN paths -> PathEntries]
    /\ \A p \in DOMAIN paths :
         /\ paths[p].created <= paths[p].used /\ paths[p].used <= pathClock
         /\ paths[p].successes <= paths[p].attempts
    /\ pathSockets \in Seq([remote : Remotes, state : {"opening", "open", "closed", "left"}])
    /\ Len(pathSockets) <= MaxPathSockets
    /\ DOMAIN active \subseteq Remotes /\ active \in [DOMAIN active -> 1..Len(pathSockets)]
    /\ callee \in [Connects -> Remotes]
    /\ stage \in [Connects -> [method : Awaited \cup Finished, endpoint : Nat]]
    /\ trying \in [Connects -> 0..Len(pathSockets)] /\ given \in [Connects -> 0..Len(pathSockets)]

(* The NAT of a peer that is unknown counts as a restricted one everywhere.  *)
PathsInit ==
    /\ pathClock = 0
    /\ localNat \in NatTypes /\ remoteNat \in [Remotes -> NatTypes \ {"unknown"}]
    /\ paths = [p \in {} |-> 0] /\ pathSockets = <<>> /\ active = [p \in {} |-> 0]
    /\ callee \in [Connects -> Remotes]
    /\ stage = [c \in Connects |-> At("idle", 0)]
    /\ trying = [c \in Connects |-> 0] /\ given = [c \in Connects |-> 0]

-----------------------------------------------------------------------------
(* ConnectionCache                                                         *)

Dropping(f, S) == [p \in DOMAIN f \ S |-> f[p]]

Outdated(p) == pathClock - paths[p].created > EntryTTL

(* successRate > 0.7, of which getting below minSuccessRate removes it. *)
Reliable(path) == 10 * path.successes > 7 * path.attempts

(* The peers of which get finds an entry; it deletes one that has expired.   *)
Cached(p) == p \in DOMAIN paths /\ ~Outdated(p)

(* evictOldest: the least recently used, when the cache is full, though the  *)
(* key may be in it.                                                         *)
Evicted ==
    IF Cardinality(DOMAIN paths) < MaxPaths THEN {}
    ELSE {CHOOSE p \in DOMAIN paths : \A q \in DOMAIN paths : paths[p].used <= paths[q].used}

OnceMore(entry) ==
    [entry EXCEPT !.attempts = @ + 1, !.successes = @ + 1, !.used = pathClock]

(* set, where an entry that is replaced keeps its counts and its age. *)
SetPath(p, method) ==
    LET kept == Dropping(paths, Evicted)
        before == IF p \in DOMAIN kept THEN kept[p]
                  ELSE [method |-> method, created |-> pathClock, used |-> pathClock,
                        attempts |-> 0, successes |-> 0]
    IN
    paths' = [q \in DOMAIN kept \cup {p} |->
                IF q = p THEN [OnceMore(before) EXCEPT !.method = method] ELSE kept[q]]

RecordFailure(p) ==
    /\ p \in DOMAIN paths
    /\ LET failed == [paths[p] EXCEPT !.attempts = @ + 1, !.used = pathClock] IN
       paths' = IF 10 * failed.successes < 3 * failed.attempts THEN Dropping(paths, {p})
                ELSE [paths EXCEPT ![p] = failed]
    /\ UNCHANGED <<pathClock, localNat, remoteNat, pathSockets, active, callee, stage, trying, given>>

Prune ==
    /\ paths' = Dropping(paths, {p \in DOMAIN paths : Outdated(p)})
    /\ UNCHANGED <<pathClock, localNat, remoteNat, pathSockets, active, callee, stage, trying, given>>

-----------------------------------------------------------------------------
(* connect                                                                 *)

Nats(p) == {localNat, remoteNat[p]}

(* canTryDirect and NATTraversal.canAttemptDirect *)
CanTryDirect(p) ==
    localNat = "unknown" \/ "public" \in Nats(p) \/ "symmetric" \notin Nats(p)

CanTryHolePunch(p) == localNat \notin {"unknown", "public"} /\ "symmetric" \notin Nats(p)

(* What is tried, in this order; an endpoint is one try. *)
MethodsOf(p) ==
    LET n == EndpointCount[p] IN
    (IF CanTryDirect(p) THEN [i \in 1..n |-> At("direct", i)] ELSE <<>>)
    \o (IF CanTryHolePunch(p) /\ n > 0 THEN <<At("hole-punch", 1)>> ELSE <<>>)
    \o (IF HasRelay THEN <<At("relay", 0)>> ELSE <<>>)

(* After one that failed, "cached" being before them all. *)
NextMethod(p, at) ==
    LET methods == MethodsOf(p)
        tried == {i \in DOMAIN methods : methods[i] = at}
        next == IF tried = {} THEN 1 ELSE 1 + CHOOSE i \in tried : TRUE
    IN
    IF next \in DOMAIN methods THEN methods[next] ELSE At("failed", 0)

(* A try that does not fail at once makes a socket. *)
Try(c, at, made) ==
    /\ stage' = [stage EXCEPT ![c] = at]
    /\ IF at.method \in Awaited
       THEN /\ Len(made) < MaxPathSockets
            /\ pathSockets' = Append(made, [remote |-> callee[c], state |-> "opening"])
            /\ trying' = [trying EXCEPT ![c] = Len(made) + 1]
       ELSE pathSockets' = made /\ trying' = [trying EXCEPT ![c] = 0]

(* connect, up to its first await.  Only the cached path of a direct         *)
(* connection can be tried again.                                            *)
Connect(c) ==
    LET p == callee[c] IN
    /\ stage[c].method = "idle"
    /\ IF Cached(p) /\ Reliable(paths[p]) /\ paths[p].method = "direct"
       THEN Try(c, At("cached", 0), pathSockets)
       ELSE Try(c, NextMethod(p, At("cached", 0)), pathSockets)
    /\ paths' = IF p \in DOMAIN paths /\ Outdated(p) THEN Dropping(paths, {p}) ELSE paths
    /\ UNCHANGED <<pathClock, localNat, remoteNat, active, callee, given>>

(* The method succeeds: all but the cached path enter their socket in the    *)
(* map of active connections.                                                *)
Succeeds(c) ==
    LET p == callee[c]
        method == stage[c].method
    IN
    /\ method \in Awaited
    /\ pathSockets' = [pathSockets EXCEPT ![trying[c]].state = "open"]
    /\ SetPath(p, IF method = "cached" THEN "direct" ELSE method)
    /\ active' = IF method = "cached" THEN active
                 ELSE [q \in DOMAIN active \cup {p} |-> IF q = p THEN trying[c] ELSE active[q]]
    /\ given' = [given EXCEPT ![c] = trying[c]]
    /\ stage' = [stage EXCEPT ![c] = At("connected", 0)]
    /\ trying' = [trying EXCEPT ![c] = 0]
    /\ UNCHANGED <<pathClock, localNat, remoteNat, callee>>

AbandonedOpen(method) == {"open"}

(* terminate, or the end that an error means; a hole punch that gives up     *)
(* leaves its dialling as it is, which may open, in nobody's hands.          *)
Abandoned(method) == {"closed"} \cup IF method = "hole-punch" THEN {"left"} ELSE {}

(* An error, a timeout, or the relay's refusal. *)
Fails(c) ==
    /\ stage[c].method \in Awaited
    /\ \E state \in Abandoned(stage[c].method) :
         Try(c, NextMethod(callee[c], stage[c]), [pathSockets EXCEPT ![trying[c]].state = state])
    /\ UNCHANGED <<pathClock, localNat, remoteNat, paths, active, callee, given>>

-----------------------------------------------------------------------------
(* The end of connections                                                  *)

ClosedSockets(S) ==
    pathSockets' = [s \in DOMAIN pathSockets |->
      IF s \in S THEN [pathSockets[s] EXCEPT !.state = "closed"] ELSE pathSockets[s]]

(* The other side, or the caller, closes one; nobody takes it out of the map. *)
SocketCloses(s) ==
    /\ s \in DOMAIN pathSockets /\ pathSockets[s].state = "open"
    /\ ClosedSockets({s})
    /\ UNCHANGED <<pathClock, localNat, remoteNat, paths, active, callee, stage, trying, given>>

DisconnectPeer(p) ==
    /\ p \in DOMAIN active
    /\ ClosedSockets({active[p]})
    /\ active' = Dropping(active, {p})
    /\ UNCHANGED <<pathClock, localNat, remoteNat, paths, callee, stage, trying, given>>

DisconnectAll ==
    /\ ClosedSockets({active[p] : p \in DOMAIN active})
    /\ active' = Dropping(active, Remotes)
    /\ UNCHANGED <<pathClock, localNat, remoteNat, paths, callee, stage, trying, given>>

PathTimePasses ==
    /\ pathClock < MaxPathClock /\ pathClock' = pathClock + 1
    /\ UNCHANGED <<localNat, remoteNat, paths, pathSockets, active, callee, stage, trying, given>>

PathsNext ==
    \/ \E c \in Connects : Connect(c) \/ Succeeds(c) \/ Fails(c)
    \/ \E p \in Remotes : RecordFailure(p) \/ DisconnectPeer(p)
    \/ \E s \in 1..MaxPathSockets : SocketCloses(s)
    \/ Prune \/ DisconnectAll \/ PathTimePasses

PathsSpec == PathsInit /\ [][PathsNext]_pathVars

(* The timer of each try fires. *)
PathsFairness == \A c \in Connects : WF_pathVars(Fails(c))

-----------------------------------------------------------------------------
OpenTo(p) == {s \in DOMAIN pathSockets : pathSockets[s].remote = p /\ pathSockets[s].state = "open"}

(* No try that was given up leaves an open socket behind, but one of a hole  *)
(* punch: each one is in the hands of a caller, though not always in the     *)
(* map: one over a cached path never is, and one can be replaced by a later  *)
(* call for the same peer.                                                   *)
OpenSocketsAreGiven ==
    \A p \in Remotes : \A s \in OpenTo(p) : \E c \in Connects : given[c] = s /\ callee[c] = p

(* The cache never has more entries than its maximum, and no entry has more  *)
(* successes than calls were connected to its peer.                          *)
CacheIsBounded ==
    /\ Cardinality(DOMAIN paths) <= MaxPaths
    /\ \A p \in DOMAIN paths :
         paths[p].successes <= Cardinality({c \in Connects : given[c] # 0 /\ callee[c] = p})

(* A call has a socket of its own exactly while it awaits a method, and that  *)
(* one is opening; it is given one once.  What is in the map is past that.   *)
TriesAreOpening ==
    /\ \A c \in Connects :
         /\ (stage[c].method \in Awaited) = (trying[c] # 0)
         /\ trying[c] # 0 =>
              pathSockets[trying[c]] = [remote |-> callee[c], state |-> "opening"]
         /\ given[c] # 0 => stage[c].method = "connected"
    /\ \A c, d \in Connects : c # d /\ trying[c] # 0 => trying[c] # trying[d]
    /\ \A p \in DOMAIN active : pathSockets[active[p]].state # "opening"

(* Open sockets have an owner, and the cache its bound.                      *)
PathsInv ==
    /\ PathsTypeOK
    /\ OpenSocketsAreGiven
    /\ CacheIsBounded
    /\ TriesAreOpening

(* Every call returns, on the timers of its tries: what is tried after a      *)
(* failure is never what was tried before.                                   *)
ConnectReturns ==
    \A c \in Connects : stage[c].method \in Awaited ~> stage[c].method \in Finished

(* manager.ts:333: "Close connection to a peer".  So after disconnect no     *)
(* connection to it that connect returned is open.                           *)
DisconnectCloses ==
    [][\A p \in Remotes : DisconnectPeer(p) => OpenTo(p)' = {}]_pathVars
=============================================================================
