------------------------- MODULE MCStoreAndForward -------------------------
(***************************************************************************)
(* Store-and-forward on small instances.                                   *)
(***************************************************************************)
EXTENDS StoreAndForward, TLC

\* Every message goes to the same agent
ToOne == [m \in Msgs |-> CHOOSE a \in Agents : TRUE]

\* With one recipient messages are interchangeable, and so are rounds.
Symmetry == Permutations(Msgs) \cup Permutations(Rounds)
=============================================================================
