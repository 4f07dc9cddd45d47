----------------------------- MODULE MCFullScan -----------------------------
(* Instances of FullScan: two items, on two pages that follow each other   *)
(* or not.                                                                 *)
EXTENDS FullScan, TLC

CONSTANTS k1, k2, v1, v2, v3

OneEach == (k1 :> 1) @@ (k2 :> 2)
Spread == (k1 :> 1) @@ (k2 :> 3)
=============================================================================
