--------------------------- MODULE MCGossipRepair ---------------------------
(***************************************************************************)
(* Two gossipers that know each other; one has a client.                   *)
(***************************************************************************)
EXTENDS GossipRepair

CONSTANTS a, b

Pair == [n \in {a, b} |-> {a, b} \ {n}]
=============================================================================
