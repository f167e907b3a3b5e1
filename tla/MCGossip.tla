------------------------------ MODULE MCGossip ------------------------------
(***************************************************************************)
(* Three gossipers that know each other.                                   *)
(***************************************************************************)
EXTENDS Gossip, TLC

CONSTANTS a, b, c

Triangle == [n \in {a, b, c} |-> {a, b, c} \ {n}]

\* In the triangle with one client, the two other gossipers are alike.
Symmetric == Permutations({b, c})
=============================================================================
