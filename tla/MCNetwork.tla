------------------------------ MODULE MCNetwork ------------------------------
(* How a node finds its peers and the way to one of them, on small           *)
(* instances: kind of the NAT, hole punching, choice of a path, bootstrap    *)
(* nodes, the local network.  They share no state, and a behaviour runs one  *)
(* of them: part says which.                                                 *)
EXTENDS NatTraversal, ConnectionPaths, NodeDiscovery

VARIABLE part

\* A peer with one endpoint and one that only the relay reaches
Endpoints == [p \in {"p", "q"} |-> IF p = "p" THEN 1 ELSE 0]

\* Kinds of NAT, here and at p: each set of methods that they allow
NatPairs == {<<"unknown", "public">>, <<"public", "symmetric">>,
             <<"port_restricted", "port_restricted">>, <<"symmetric", "port_restricted">>}

suiteVars == <<part, natVars, punchVars, pathVars, bootVars, localVars>>

SuiteInit ==
    /\ part \in {"nat", "punch", "paths", "bootstrap", "local"}
    /\ NatInit /\ PunchInit /\ PathsInit /\ BootInit /\ LocalInit
    \* What only one part chooses is fixed for the others
    /\ part # "nat" => nat = "none"
    /\ part # "paths" =>
         localNat = "unknown" /\ remoteNat["p"] = "public" /\ callee = [c \in Connects |-> "p"]
    /\ part = "paths" => <<localNat, remoteNat["p"]>> \in NatPairs
    \* The kind of NAT of q is of no matter, since it has no endpoint, and the
    \* calls may change places.
    /\ remoteNat["q"] = "public" /\ (callee["c1"] = "q" => callee["c2"] = "q")

SuiteNext ==
    /\ UNCHANGED part
    /\ \/ /\ part = "nat" /\ NatNext
          /\ UNCHANGED <<punchVars, pathVars, bootVars, localVars>>
       \/ /\ part = "punch" /\ PunchNext
          /\ UNCHANGED <<natVars, pathVars, bootVars, localVars>>
       \/ /\ part = "paths" /\ PathsNext
          /\ UNCHANGED <<natVars, punchVars, bootVars, localVars>>
       \/ /\ part = "bootstrap" /\ BootNext
          /\ UNCHANGED <<natVars, punchVars, pathVars, localVars>>
       \/ /\ part = "local" /\ LocalNext
          /\ UNCHANGED <<natVars, punchVars, pathVars, bootVars>>

SuiteSpec ==
    SuiteInit /\ [][SuiteNext]_suiteVars /\ PunchFairness /\ PathsFairness /\ BootFairness

(* Every call that looks for a way to a peer returns.                        *)
FindingReturns == PunchReturns /\ ConnectReturns /\ DiscoveryReturns
==============================================================================
