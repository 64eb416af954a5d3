------------------------------ MODULE Mailbox ------------------------------
(***************************************************************************)
(* What a store-and-forward relay promises the agents that send through    *)
(* it, with sockets, registrations and queue records left out: one mailbox *)
(* per agent.  A message goes straight to its agent only when none is      *)
(* waiting, otherwise it waits; waiting messages are handed over together; *)
(* a full mailbox gives up its oldest message; a restart empties it.       *)
(***************************************************************************)
EXTENDS Naturals, FiniteSets

CONSTANTS Agents,    (* the owners of the mailboxes            *)
          Capacity,  (* most messages a mailbox keeps          *)
          MaxMsgs    (* bound: messages accepted               *)

VARIABLES next,     (* identity of the next message            *)
          waiting,  (* waiting[a]: messages a has not been sent *)
          handed,   (* handed[a]: messages sent to a            *)
          lost      (* lost[a]: messages given up               *)

vars == <<next, waiting, handed, lost>>

Init ==
  /\ next = 1
  /\ waiting = [a \in Agents |-> {}]
  /\ handed = [a \in Agents |-> {}]
  /\ lost = [a \in Agents |-> {}]

Accept == next <= MaxMsgs /\ next' = next + 1

Forward(a) ==
  /\ Accept
  /\ waiting[a] = {}
  /\ handed' = [handed EXCEPT ![a] = @ \cup {next}]
  /\ UNCHANGED <<waiting, lost>>

Store(a) ==
  /\ Accept
  /\ Cardinality(waiting[a]) < Capacity
  /\ waiting' = [waiting EXCEPT ![a] = @ \cup {next}]
  /\ UNCHANGED <<handed, lost>>

StoreOverOldest(a) ==
  /\ Accept
  /\ Cardinality(waiting[a]) = Capacity
  /\ \E m \in waiting[a] :
       /\ \A w \in waiting[a] : m <= w
       /\ waiting' = [waiting EXCEPT ![a] = (@ \ {m}) \cup {next}]
       /\ lost' = [lost EXCEPT ![a] = @ \cup {m}]
  /\ UNCHANGED handed

HandOver(a) ==
  /\ handed' = [handed EXCEPT ![a] = @ \cup waiting[a]]
  /\ waiting' = [waiting EXCEPT ![a] = {}]
  /\ UNCHANGED <<next, lost>>

Restart ==
  /\ lost' = [a \in Agents |-> lost[a] \cup waiting[a]]
  /\ waiting' = [a \in Agents |-> {}]
  /\ UNCHANGED <<next, handed>>

Next ==
  \/ \E a \in Agents : Forward(a)
  \/ \E a \in Agents : Store(a)
  \/ \E a \in Agents : StoreOverOldest(a)
  \/ \E a \in Agents : HandOver(a)
  \/ Restart

Spec == Init /\ [][Next]_vars
=============================================================================
