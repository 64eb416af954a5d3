----------------------------- MODULE NatTraversal -----------------------------
(* NAT traversal, packages/p2p/src/nat: detection of the kind of NAT, and    *)
(* hole punching by two peers.  They share no state.                         *)
EXTENDS Naturals, FiniteSets

-----------------------------------------------------------------------------
(* Detection of the kind of NAT, STUNClient.detectNATType of packages/p2p/   *)
(* src/nat/stun.ts: one binding request to each of two servers, on one       *)
(* socket, where each request adds a listener of its own that takes any      *)
(* datagram.  Answers may be lost, late or sent twice.  An address is what   *)
(* the NAT maps the socket to: "local" without NAT, and under a symmetric    *)
(* NAT another one for each server.  The address that the socket itself      *)
(* knows is that of all interfaces, 0.0.0.0, which no server sees.           *)

CONSTANT MaxAnswers    \* bound: datagrams a server sends

ASSUME AnswersAssumption == MaxAnswers \in Nat

VARIABLES
    nat,        \* the real NAT: "none", "cone" or "symmetric"
    test,       \* the request that is awaited, 1 or 2; 0 before, 3 after
    answers,    \* server -> datagrams under way
    sent,       \* server -> datagrams sent
    mapped,     \* request -> what it resolved to: an address, "null" or "none"
    natType     \* the answer

natVars == <<nat, test, answers, sent, mapped, natType>>

Addresses == {"local", "public", "public1", "public2"}

NatTypeOK ==
    /\ nat \in {"none", "cone", "symmetric"} /\ test \in 0..3
    /\ answers \in [1..2 -> 0..MaxAnswers] /\ sent \in [1..2 -> 0..MaxAnswers]
    /\ \A s \in 1..2 : answers[s] <= sent[s]
    /\ mapped \in [1..2 -> Addresses \cup {"none", "null"}]
    /\ natType \in {"none", "public", "symmetric", "port_restricted"}
    /\ (natType # "none") = (test = 3)
    /\ mapped[2] # "none" => mapped[1] \in Addresses

NatInit ==
    /\ nat \in {"none", "cone", "symmetric"}
    /\ test = 0
    /\ answers = [s \in 1..2 |-> 0] /\ sent = [s \in 1..2 |-> 0]
    /\ mapped = [s \in 1..2 |-> "none"]
    /\ natType = "none"

MappedBy(server) ==
    CASE nat = "none" -> "local"
      [] nat = "cone" -> "public"
      [] nat = "symmetric" -> IF server = 1 THEN "public1" ELSE "public2"

(* The socket is bound and the first request sent. *)
DetectNATType ==
    /\ test = 0 /\ test' = 1
    /\ UNCHANGED <<nat, answers, sent, mapped, natType>>

(* A server answers the request it received, now or later. *)
ServerAnswers(s) ==
    /\ s <= test /\ sent[s] < MaxAnswers
    /\ sent' = [sent EXCEPT ![s] = @ + 1]
    /\ answers' = [answers EXCEPT ![s] = @ + 1]
    /\ UNCHANGED <<nat, test, mapped, natType>>

LocalAddress == "any"

(* The first request has no answer, or an answer that tells of no NAT. *)
NoNat(m1) == m1 \in {"null", LocalAddress}

(* What detectNATType returns. *)
Verdict(m1, m2) ==
    IF NoNat(m1) THEN "public"
    ELSE IF m2 # "null" /\ m2 # m1 THEN "symmetric" ELSE "port_restricted"

(* The awaited request resolves; the first one may be all that is needed.    *)
Resolve(to) ==
    LET second == mapped[1] # "none"
        all == [mapped EXCEPT ![IF second THEN 2 ELSE 1] = to]
        returns == second \/ NoNat(to)
    IN
    /\ mapped' = all
    /\ test' = IF returns THEN 3 ELSE 2
    /\ natType' = IF returns THEN Verdict(all[1], all[2]) ELSE natType

(* parseBindingResponse: an answer to the other request is not this one's.   *)
Parsed(s) == IF s = test THEN MappedBy(s) ELSE "null"

(* A datagram arrives: the listener of the awaited request clears its timer  *)
(* and resolves it, whatever the datagram is.                                *)
Arrives(s) ==
    /\ answers[s] > 0 /\ test \in 1..2
    /\ answers' = [answers EXCEPT ![s] = @ - 1]
    /\ Resolve(Parsed(s))
    /\ UNCHANGED <<nat, sent>>

(* The timer of the request, or an error of its send. *)
Timeout ==
    /\ test \in 1..2 /\ Resolve("null")
    /\ UNCHANGED <<nat, answers, sent>>

Lost(s) ==
    /\ answers[s] > 0
    /\ answers' = [answers EXCEPT ![s] = @ - 1]
    /\ UNCHANGED <<nat, test, sent, mapped, natType>>

NatNext ==
    \/ DetectNATType \/ Timeout
    \/ \E s \in 1..2 : ServerAnswers(s) \/ Arrives(s) \/ Lost(s)

NatSpec == NatInit /\ [][NatNext]_natVars

-----------------------------------------------------------------------------
(* A NAT is called symmetric only if it is one, whatever datagrams are late, *)
(* lost or sent twice; and one that is, and that the first server saw, is    *)
(* missed only when the second request has no answer of its own (an answer   *)
(* to the first one that comes late ends it).                                *)
SymmetricIsTrue ==
    /\ natType = "symmetric" => nat = "symmetric"
    /\ natType = "port_restricted" /\ nat = "symmetric" => mapped[2] = "null"

(* The requests are resolved in turn, each to what its own server says or to  *)
(* nothing.                                                                  *)
ResolvedInTurn ==
    /\ (mapped[1] = "none") = (test < 2)
    /\ test = 2 => mapped[1] \in Addresses /\ mapped[2] = "none"
    /\ \A s \in 1..2 : mapped[s] \in {"none", "null", MappedBy(s)}

(* stun.ts:104: "If mapped address equals local address, no NAT".  So        *)
(* without NAT nobody is told of a restricted one.                           *)
NoNatIsSeen == natType = "port_restricted" => nat # "none"

-----------------------------------------------------------------------------
(* Hole punching, NATTraversal.attemptHolePunch of packages/p2p/src/nat/     *)
(* traversal.ts, called by two peers at about the same time.  Each listens   *)
(* and dials at once, and takes the first connection of either kind; after a *)
(* timeout it waits and tries again.  The timeout does not end the dialling, *)
(* so that a connection of an earlier attempt may still open.  The network   *)
(* and the NATs between the peers decide which dialling succeeds and when.   *)

CONSTANTS
    Punchers,     \* the two peers
    MaxRetries    \* config.maxRetries

ASSUME PunchAssumption ==
    /\ \A p \in Punchers : \E q \in Punchers : Punchers = {p, q} /\ p # q
    /\ MaxRetries \in Nat \ {0}

VARIABLES
    round,      \* peer -> attempts begun
    punching,      \* peer -> where its call is
    listening,  \* peers whose WebSocketServer accepts
    dialled,    \* <<peer, attempt>> -> state of its clientWs
    held        \* peer -> the connection its call returned

punchVars == <<round, punching, listening, dialled, held>>

Dials == Punchers \X (1..MaxRetries)

NoDial == <<"none", 0>>

PunchTypeOK ==
    /\ round \in [Punchers -> 0..MaxRetries]
    /\ punching \in [Punchers -> {"idle", "trying", "waiting", "succeeded", "failed"}]
    /\ listening \subseteq Punchers
    /\ dialled \in [Dials -> {"none", "dialling", "refused", "accepted", "open"}]
    /\ held \in [Punchers -> Dials \cup {NoDial}]

PunchInit ==
    /\ round = [p \in Punchers |-> 0]
    /\ punching = [p \in Punchers |-> "idle"]
    /\ listening = {}
    /\ dialled = [c \in Dials |-> "none"]
    /\ held = [p \in Punchers |-> NoDial]

(* The condition of the loop. *)
MayAttempt(p) == round[p] < MaxRetries

(* The body of the loop: a server and a client at once. *)
Attempt(p) ==
    /\ MayAttempt(p)
    /\ round' = [round EXCEPT ![p] = @ + 1]
    /\ punching' = [punching EXCEPT ![p] = "trying"]
    /\ listening' = listening \cup {p}
    /\ dialled' = [dialled EXCEPT ![<<p, round[p] + 1>>] = "dialling"]
    /\ UNCHANGED held

AttemptHolePunch(p) == punching[p] = "idle" /\ Attempt(p)

Succeed(p, c) ==
    /\ punching' = [punching EXCEPT ![p] = "succeeded"]
    /\ held' = [held EXCEPT ![p] = c]
    /\ listening' = listening \ {p}

AcceptQuietly(p, c) == UNCHANGED <<punching, held, listening>>

(* What the "connection" event of p's server does. *)
Accept(p, c) == Succeed(p, c)

(* The server of p accepts what the other peer dialled, lately or earlier.   *)
Connection(p, c) ==
    /\ p \in listening /\ c[1] # p /\ dialled[c] = "dialling"
    /\ dialled' = [dialled EXCEPT ![c] = "accepted"]
    /\ Accept(p, c)
    /\ UNCHANGED round

(* The "open" event at the peer that dialled: the promise it resolves is     *)
(* that of its own attempt.                                                  *)
Open(c) ==
    LET p == c[1] IN
    /\ dialled[c] = "accepted"
    /\ dialled' = [dialled EXCEPT ![c] = "open"]
    /\ IF punching[p] = "trying" /\ round[p] = c[2]
       THEN Succeed(p, c) ELSE UNCHANGED <<punching, held, listening>>
    /\ UNCHANGED round

(* The "error" event, which is ignored. *)
Refused(c) ==
    /\ dialled[c] = "dialling"
    /\ dialled' = [dialled EXCEPT ![c] = "refused"]
    /\ UNCHANGED <<round, punching, listening, held>>

TimesOutQuietly(p) ==
    /\ punching[p] = "trying" /\ p \in listening
    /\ listening' = listening \ {p}
    /\ UNCHANGED <<round, punching, dialled, held>>

TimesOut(p) ==
    /\ punching[p] = "trying"
    /\ listening' = listening \ {p}
    /\ punching' = [punching EXCEPT ![p] = "waiting"]
    /\ UNCHANGED <<round, dialled, held>>

(* The retryDelay elapsed. *)
Delayed(p) ==
    /\ punching[p] = "waiting"
    /\ \/ Attempt(p)
       \/ /\ ~MayAttempt(p)
          /\ punching' = [punching EXCEPT ![p] = "failed"]
          /\ UNCHANGED <<round, listening, dialled, held>>

PunchNext ==
    \/ \E p \in Punchers : AttemptHolePunch(p) \/ TimesOut(p) \/ Delayed(p)
    \/ \E p \in Punchers, c \in Dials : Connection(p, c)
    \/ \E c \in Dials : Open(c) \/ Refused(c)

PunchSpec == PunchInit /\ [][PunchNext]_punchVars

(* The timers fire. *)
PunchFairness == \A p \in Punchers : WF_punchVars(TimesOut(p) \/ Delayed(p))

-----------------------------------------------------------------------------
(* A peer whose own dialling succeeded has a connection that the other peer  *)
(* returned as well: of all that can be left over by timeouts, retries and   *)
(* late events, no peer takes one that the other does not use.  (Two that    *)
(* each accepted what the other had dialled use two connections.)            *)
OpenerIsHeldByBoth ==
    \A p, q \in Punchers : held[p] # NoDial /\ held[p][1] = p => held[q] = held[p]

(* A call that returned or waits has no server left on its port, which the   *)
(* next attempt has to bind, and one that succeeded keeps its connection     *)
(* whatever opens later.                                                     *)
PortIsFree ==
    \A p \in Punchers :
      /\ p \in listening => punching[p] = "trying"
      /\ (punching[p] = "succeeded") = (held[p] # NoDial)

(* What was dialled is of an attempt that began; once it was accepted, the    *)
(* other peer has it, and once it opened at a peer that took it, so does it. *)
DialsAreHeld ==
    /\ \A c \in Dials :
         /\ c[2] > round[c[1]] => dialled[c] = "none"
         /\ dialled[c] \in {"accepted", "open"} => \A q \in Punchers \ {c[1]} : held[q] = c
    /\ \A p \in Punchers : held[p] # NoDial /\ held[p][1] = p => dialled[held[p]] = "open"

(* A NAT is called what it is, and what punching returned is a connection.   *)
NatTraversalInv ==
    /\ NatTypeOK
    /\ SymmetricIsTrue
    /\ ResolvedInTurn
    /\ PunchTypeOK
    /\ OpenerIsHeldByBoth
    /\ PortIsFree
    /\ DialsAreHeld

(* attemptHolePunch returns, whatever the other peer and the network do.     *)
PunchReturns ==
    \A p \in Punchers : punching[p] = "trying" ~> punching[p] \in {"succeeded", "failed"}
===============================================================================
