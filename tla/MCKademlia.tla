----------------------------- MODULE MCKademlia -----------------------------
(***************************************************************************)
(* Kademlia for TLC: five nodes with IDs of three bits.  Three of them     *)
(* compete for a bucket of two.  The node closest to the key is known only *)
(* to the second closest, so a lookup takes several rounds, and the answer *)
(* of r names a far node before a near one.                                *)
(***************************************************************************)
EXTENDS Kademlia

CONSTANTS me, p, q, r, s

FiveIDs == (me :> <<0, 0, 0>>) @@ (p :> <<1, 0, 0>>) @@ (q :> <<1, 0, 1>>)
               @@ (r :> <<1, 1, 0>>) @@ (s :> <<0, 1, 1>>)
TheKey == <<1, 0, 1>>
Tables == (p :> <<r, q>>) @@ (q :> <<r, p>>) @@ (r :> <<s, p>>) @@ (s :> <<r, me>>)
=============================================================================
