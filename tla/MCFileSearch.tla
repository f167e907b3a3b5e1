---------------------------- MODULE MCFileSearch ----------------------------
(***************************************************************************)
(* FileSearch for TLC: a kite (for budgets) and a triangle (for searches   *)
(* that follow each other), and two files of two chunks, of which one      *)
(* gossiper has one completely and two share the other.                    *)
(***************************************************************************)
EXTENDS FileSearch, TLC

CONSTANTS me, a, b, c, f, g

Triangle == (me :> {a, b}) @@ (a :> {me, b}) @@ (b :> {me, a})
Kite == (me :> {a, b, c}) @@ (a :> {me, b}) @@ (b :> {me, a}) @@ (c :> {me})
NoChunks == (f :> {}) @@ (g :> {})
Chunks == (me :> NoChunks) @@ (a :> ((f :> {1, 2}) @@ (g :> {1}))) @@ (b :> [NoChunks EXCEPT ![g] = {2}])
KiteChunks == Chunks @@ (c :> NoChunks)
=============================================================================
