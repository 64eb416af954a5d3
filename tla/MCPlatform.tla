------------------------------ MODULE MCPlatform ------------------------------
(* The intervention platform on small instances: the manager on its own, the *)
(* event streams on their own, the server that joins both, and the router.   *)
(* A behaviour runs one of them: part says which.                            *)
EXTENDS InterventionServer, InterventionRouter

VARIABLE part

allVars == <<part, serverVars, routerVars>>

\* DEFAULT_PERMISSIONS of the two roles that can do more than send messages
DefaultPermissions ==
  [moderator |-> {"send_message", "pause", "resume", "redirect"},
   admin     |-> Actions]

\* Two connections of a participant in a millisecond, and one of another
Ids == {<<"c", "h1", 1>>, <<"c", "h2", 1>>, <<"d", "h1", 2>>}

AgentOrder == <<"a1", "a2">>
Rules == [r \in {"r1", "r2"} |-> IF r = "r1" THEN "all" ELSE "originator"]
Asked == [r \in {"r1", "r2"} |-> IF r = "r1" THEN "nobody" ELSE "a2"]

SuiteInit ==
  /\ part \in {"manager", "streams", "server", "router"}
  /\ Init /\ StreamInit /\ ServerInit /\ RouterInit

SuiteNext ==
  /\ UNCHANGED part
  /\ \/ part = "manager" /\ Next /\ UNCHANGED <<streamVars, answer, routerVars>>
     \/ part = "streams" /\ StreamNext /\ UNCHANGED <<vars, answer, routerVars>>
     \/ part = "server" /\ ServerNext /\ UNCHANGED routerVars
     \/ part = "router" /\ RouterNext /\ UNCHANGED serverVars

SuiteSpec == SuiteInit /\ [][SuiteNext]_allVars /\ RouterFairness
=============================================================================
