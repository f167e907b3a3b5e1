----------------------------- MODULE MCDownload -----------------------------
(***************************************************************************)
(* Download for TLC: a file fa with two equal chunks x.  The client asks   *)
(* for it twice, from anyone and from p; it asks for x, as if it were the  *)
(* hash of a metafile, which the parser rejects once x was handed over;    *)
(* and for fb from anyone, although nobody is known to have a chunk of it. *)
(***************************************************************************)
EXTENDS Download, TLC

CONSTANTS fa, fb, x, p, q, d1, d2, d3, d4

TheChunks == (fa :> <<x, x>>) @@ (x :> <<>>) @@ (fb :> <<x>>)
TheDist == (p :> 1) @@ (q :> 2)
TheHolds == (p :> {fa, x}) @@ (q :> {x})
TheLists == (fa :> <<{p}, {q}>>) @@ (x :> <<>>) @@ (fb :> <<{}>>)
TheFiles == (d1 :> fa) @@ (d2 :> x) @@ (d3 :> fa) @@ (d4 :> fb)
TheOrigins == (d1 :> Anyone) @@ (d2 :> q) @@ (d3 :> p) @@ (d4 :> Anyone)
=============================================================================
