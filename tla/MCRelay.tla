------------------------------ MODULE MCRelay ------------------------------
(***************************************************************************)
(* The relay on small instances: two keys, three connections.              *)
(***************************************************************************)
EXTENDS Relay, TLC

\* Keys are interchangeable, and so are connections.
Symmetry == Permutations(Agents) \cup Permutations(Sockets)
=============================================================================
