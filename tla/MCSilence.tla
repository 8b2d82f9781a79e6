------------------------------ MODULE MCSilence ------------------------------
(* Instances of Silence: see MCValues for the values.                      *)
EXTENDS Silence, MCValues
=============================================================================
