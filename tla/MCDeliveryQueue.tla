--------------------------- MODULE MCDeliveryQueue ---------------------------
(* Instances of DeliveryQueue for TLC. *)
EXTENDS DeliveryQueue

CONSTANT d1

One == {d1}
=============================================================================
