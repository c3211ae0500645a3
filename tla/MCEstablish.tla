------------------------------ MODULE MCEstablish ------------------------------
(***************************************************************************)
(* Two candidate nameplates, and a relay of its own for a creator and for  *)
(* the joiner.                                                             *)
(***************************************************************************)
EXTENDS TunnelEstablish

MCCandidates == <<2, 1>>

MCOwnRelay == [p \in {"c", "j"} |-> IF p = "c" THEN "r1" ELSE "r2"]
=============================================================================
