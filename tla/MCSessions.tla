----------------------------- MODULE MCSessions -----------------------------
(* Instance of Sessions for TLC.                                            *)
EXTENDS Sessions, TLC
=============================================================================
