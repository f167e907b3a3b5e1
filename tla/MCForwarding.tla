---------------------------- MODULE MCForwarding ----------------------------
(***************************************************************************)
(* Four gossipers, of which the three that are not the destination are     *)
(* alike.                                                                  *)
(***************************************************************************)
EXTENDS Forwarding, TLC

CONSTANTS a, b, c

Symmetric == Permutations({a, b, c})
=============================================================================
