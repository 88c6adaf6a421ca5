----------------------------- MODULE MCDelivery -----------------------------
(***************************************************************************)
(* Small instance of the deliveries: two couriers, one bound to a zone.    *)
(***************************************************************************)
EXTENDS DeliveryProperties

CONSTANTS c1, z1, z2

MCZonesOf == [c \in Courier |-> IF c = c1 THEN {z1} ELSE {}]

=============================================================================
