-------------------------------- MODULE MCDht --------------------------------
(* The parts of the DHT on small instances.  They share no variable, so a    *)
(* behaviour runs one of them: part says which.                              *)
EXTENDS RoutingTable, KademliaRpc, Kademlia, PeerDiscovery

VARIABLE part

vars == <<part, tableVars, rpcVars, dhtVars, peerVars>>

(* Four bits, of which the nodes use the first: as in 160 bits with few      *)
(* nodes, a search reaches every bucket that can hold one.                   *)
Id(x, y) == <<x, y, 0, 0>>
Local == Id(0, 0)
Others == {Id(1, 0), <<1, 0, 1, 1>>, Id(1, 1), Id(0, 1), <<0, 1, 1, 1>>, <<0, 0, 1, 0>>}
FewOthers == {Id(1, 0), Id(0, 1)}

Nodes == {Id(0, 0), Id(0, 1), Id(1, 0)}
FirstNode == [n \in Nodes |-> IF n = Id(0, 0) THEN <<>> ELSE <<Id(0, 0)>>]
TheKey == Id(1, 1)

Init ==
    /\ part \in {"table", "rpc", "dht", "peers"}
    /\ TableInit /\ RpcInit /\ DhtInit /\ PeerInit

Next ==
    /\ UNCHANGED part
    /\ \/ part = "table" /\ TableNext /\ UNCHANGED <<rpcVars, dhtVars, peerVars>>
       \/ part = "rpc" /\ RpcNext /\ UNCHANGED <<tableVars, dhtVars, peerVars>>
       \/ part = "dht" /\ DhtNext /\ UNCHANGED <<tableVars, rpcVars, peerVars>>
       \/ part = "peers" /\ PeerNext /\ UNCHANGED <<tableVars, rpcVars, dhtVars>>

Spec == Init /\ [][Next]_vars /\ RpcFairness
=============================================================================
