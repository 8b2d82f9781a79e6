-------------------------------- MODULE MCSet --------------------------------
(* Two keys; for the first a permanent item and two that expire, for the   *)
(* second one that expires.                                                *)
EXTENDS SetAnswers, TLC

CONSTANTS k1, k2, perm, first, second, other

MCItemKey == perm :> k1 @@ first :> k1 @@ second :> k1 @@ other :> k2
=============================================================================
