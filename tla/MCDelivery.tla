----------------------------- MODULE MCDelivery -----------------------------
(* Instances of Delivery: see MCValues for the values.                     *)
EXTENDS Delivery, MCValues
=============================================================================
