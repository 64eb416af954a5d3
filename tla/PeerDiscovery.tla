--------------------------- MODULE PeerDiscovery ---------------------------
(* Discovery of peers by capability, packages/dht/src/discovery/             *)
(* peer-discovery.ts.  A peer announces itself under a key of its own and    *)
(* adds its id to the index of a capability, which is one value of the DHT   *)
(* that every registration reads and then writes.  The DHT is a store that   *)
(* may lose a value, fail to find it or fail to write it (Kademlia); one     *)
(* capability is followed.                                                   *)
EXTENDS Integers, Sequences, SequencesExt, FiniteSets

CONSTANTS
    Peers,     \* node ids
    MaxIndex,  \* ids an index keeps (100)
    Limit,     \* limit of discoverByCapability
    MaxWrites  \* bound: writes of the index

ASSUME PeersAssumption == MaxIndex \in Nat \ {0} /\ Limit \in Nat /\ MaxWrites \in Nat

VARIABLES
    localInfo,  \* peers with localPeerInfo
    announced,  \* peers whose information the DHT holds
    index,      \* the ids under the key of the capability
    version,    \* number of the write that index is from
    job         \* peer -> what it does: registering or discovering

peerVars == <<localInfo, announced, index, version, job>>

NoJob == [phase |-> "idle", ids |-> <<>>, read |-> 0]

PeerInit ==
    /\ localInfo = {} /\ announced = {}
    /\ index = <<>> /\ version = 0
    /\ job = [p \in Peers |-> NoJob]

(* start with the information of the peer, or announce again.  It is kept    *)
(* although the store of the announcement may fail, and after stop.          *)
Announce(p) ==
    /\ localInfo' = localInfo \cup {p}
    /\ announced' \in {announced, announced \cup {p}}
    /\ UNCHANGED <<index, version, job>>

ListReadNever(missed) == <<>>

ListRead(missed) == IF missed THEN <<>> ELSE index

(* registerCapability up to its first await returns: the list that was       *)
(* found, or an empty one when the lookup found none.                        *)
ReadIndex(p) ==
    /\ job[p].phase = "idle" /\ p \in localInfo
    /\ \E missed \in BOOLEAN :
          job' = [job EXCEPT ![p] = [NoJob EXCEPT
                    !.phase = "registering",
                    !.ids = ListRead(missed),
                    !.read = IF missed THEN 0 ELSE version]]
    /\ UNCHANGED <<localInfo, announced, index, version>>

ListedWithoutLimit(ids, p) == Append(ids, p)

(* The peer at the end of the list, and only the last MaxIndex of them. *)
Listed(ids, p) ==
    LET longer == Append(ids, p)
    IN  SubSeq(longer, IF Len(longer) > MaxIndex THEN Len(longer) - MaxIndex + 1 ELSE 1, Len(longer))

(* The rest of registerCapability: nothing if the peer is listed, otherwise  *)
(* the list is stored, which may fail.                                       *)
WriteIndex(p) ==
    /\ job[p].phase = "registering"
    /\ \/ /\ p \notin ToSet(job[p].ids) /\ version < MaxWrites
          /\ index' = Listed(job[p].ids, p)
          /\ version' = version + 1
       \/ UNCHANGED <<index, version>>
    /\ job' = [job EXCEPT ![p] = NoJob]
    /\ UNCHANGED <<localInfo, announced>>

(* discoverByCapability: the index first, then each of its first ids, which  *)
(* is returned if it is announced.                                           *)
Discover(p) ==
    /\ job[p].phase = "idle"
    /\ job' = [job EXCEPT ![p] = [NoJob EXCEPT !.phase = "discovering",
                                  !.ids = SubSeq(index, 1, IF Len(index) < Limit THEN Len(index) ELSE Limit)]]
    /\ UNCHANGED <<localInfo, announced, index, version>>

FindPeer(p) ==
    /\ job[p].phase = "discovering" /\ job[p].ids # <<>>
    /\ job' = [job EXCEPT ![p].ids = Tail(@)]
    /\ UNCHANGED <<localInfo, announced, index, version>>

Discovered(p) ==
    /\ job[p].phase = "discovering" /\ job[p].ids = <<>>
    /\ job' = [job EXCEPT ![p] = NoJob]
    /\ UNCHANGED <<localInfo, announced, index, version>>

(* The hour of an announcement, or of the index, is over: neither is         *)
(* published again.                                                          *)
AnnouncementExpires(p) ==
    /\ p \in announced
    /\ announced' = announced \ {p}
    /\ UNCHANGED <<localInfo, index, version, job>>

IndexExpires ==
    /\ index # <<>> /\ version < MaxWrites
    /\ index' = <<>> /\ version' = version + 1
    /\ UNCHANGED <<localInfo, announced, job>>

PeerNext ==
    \/ \E p \in Peers :
          \/ Announce(p)
          \/ ReadIndex(p) \/ WriteIndex(p)
          \/ Discover(p) \/ FindPeer(p) \/ Discovered(p)
          \/ AnnouncementExpires(p)
    \/ IndexExpires

PeerSpec == PeerInit /\ [][PeerNext]_peerVars

----------------------------------------------------------------------------

PeerTypeOK ==
    /\ localInfo \subseteq Peers /\ announced \subseteq localInfo
    /\ index \in Seq(Peers) /\ version \in 0..MaxWrites
    /\ job \in [Peers -> [phase : {"idle", "registering", "discovering"}, ids : Seq(Peers),
                          read : 0..MaxWrites]]

(* A peer is listed once, and the list keeps to its limit. *)
IndexHasNoDuplicates == Len(index) <= MaxIndex /\ IsInjective(index)

(* The list a registration read is as well formed, and is the index if that  *)
(* was not written since.                                                    *)
ReadsAreSound ==
    /\ version = 0 => index = <<>>
    /\ \A p \in Peers : job[p].phase = "registering" =>
         /\ Len(job[p].ids) <= MaxIndex /\ IsInjective(job[p].ids)
         /\ job[p].read <= version
         /\ job[p].read = version => job[p].ids = index

(* The index is well formed, over any races.                                 *)
PeerInv ==
    /\ PeerTypeOK
    /\ IndexHasNoDuplicates
    /\ ReadsAreSound

(* A registration that read the list as it still is takes no peer off it, as *)
(* long as there is room: a peer is lost only to a race between a read and   *)
(* the write that follows it, or to a read that failed.                      *)
OnlyStaleWritesDrop ==
    [][\A p \in Peers :
          WriteIndex(p) /\ job[p].read = version /\ Len(index) < MaxIndex =>
              ToSet(index) \subseteq ToSet(index')]_peerVars
=============================================================================
