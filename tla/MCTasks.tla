------------------------------- MODULE MCTasks -------------------------------
(***************************************************************************)
(* Tasks on small instances: the hierarchy, the claims, the task manager   *)
(* and the A2A server's tasks.  They share no state: each behaviour is one *)
(* of one part.                                                            *)
(***************************************************************************)
EXTENDS TaskDecomposition, TaskClaiming, TaskManager, A2AServer

VARIABLE part

suiteVars == <<part, vars, claimsVars, managerVars, a2aServerVars>>

SuiteInit ==
  /\ part \in {"hierarchy", "claims", "manager", "server"}
  /\ Init /\ ClaimsInit /\ ManagerInit /\ A2AServerInit

SuiteNext ==
  /\ UNCHANGED part
  /\ \/ part = "hierarchy" /\ Next /\ UNCHANGED <<claimsVars, managerVars, a2aServerVars>>
     \/ part = "claims" /\ ClaimsNext /\ UNCHANGED <<vars, managerVars, a2aServerVars>>
     \/ part = "manager" /\ ManagerNext /\ UNCHANGED <<vars, claimsVars, a2aServerVars>>
     \/ part = "server" /\ A2AServerNext /\ UNCHANGED <<vars, claimsVars, managerVars>>

SuiteSpec == SuiteInit /\ [][SuiteNext]_suiteVars
=============================================================================
