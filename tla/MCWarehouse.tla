---------------------------- MODULE MCWarehouse ----------------------------
(***************************************************************************)
(* Small instances of the warehouse.                                       *)
(***************************************************************************)
EXTENDS WarehouseProperties

CONSTANTS p1, p2

Ordered(p, q) == [product |-> p, qty |-> q]
MCStock == [p \in Product |-> [quantity |-> 2, reserved |-> 0]]

\* Two products; one product in two lines.
Mixed == {<<Ordered(p1, 1), Ordered(p2, 1)>>, <<Ordered(p1, 1), Ordered(p1, 1)>>}

OneOfEach == {[q \in Product |-> 1]}

=============================================================================
