------------------------------- MODULE MCHost -------------------------------
(* Instances of Host: see MCValues for the values and the .cfg files.      *)
EXTENDS Host, MCValues
=============================================================================
