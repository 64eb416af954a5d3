----------------------------- MODULE RemoteCall -----------------------------
(* What a Kademlia request promises its caller: it is asked once, the other  *)
(* side may handle it several times but no more than MaxHandled, and the     *)
(* caller is told once, that it was answered only if it was handled.  A      *)
(* request the caller was told has failed may have been handled, or be       *)
(* handled later.                                                            *)
EXTENDS Naturals

CONSTANTS Requests, MaxHandled

VARIABLES told, handled

callVars == <<told, handled>>

CallInit ==
    /\ told = [r \in Requests |-> "new"]
    /\ handled = [r \in Requests |-> 0]

Ask(r) == told[r] = "new" /\ told' = [told EXCEPT ![r] = "waiting"] /\ UNCHANGED handled

HandleOnce(r) ==
    /\ told[r] # "new"
    /\ handled[r] < MaxHandled
    /\ handled' = [handled EXCEPT ![r] = @ + 1]
    /\ UNCHANGED told

TellAnswered(r) ==
    /\ told[r] = "waiting"
    /\ handled[r] > 0
    /\ told' = [told EXCEPT ![r] = "answered"]
    /\ UNCHANGED handled

(* A failure may concern several requests: the service stops. *)
TellFailed(R) ==
    /\ R # {} /\ \A r \in R : told[r] = "waiting"
    /\ told' = [r \in Requests |-> IF r \in R THEN "failed" ELSE told[r]]
    /\ UNCHANGED handled

CallNext ==
    \/ \E r \in Requests : Ask(r) \/ HandleOnce(r) \/ TellAnswered(r)
    \/ \E R \in SUBSET Requests : TellFailed(R)

CallSpec == CallInit /\ [][CallNext]_callVars
=============================================================================
