---------------------------- MODULE MCBackOffice ----------------------------
(***************************************************************************)
(* Sessions: one user, two clients that may hold the same token, a lock    *)
(* after two wrong passwords and room for a third.  Market: two pulls of   *)
(* an order whose offer has to be linked and one whose offer is a SKU.     *)
(* Tax: two closings of the fourth quarter of year 1, which ends in year   *)
(* 2.  EGAIS: two requests, two documents.  Stock: two sellers, and a push *)
(* of two offers of one product that two warehouses have.                  *)
(***************************************************************************)
EXTENDS BackOffice, TLC

CONSTANTS a, b, f1, f2, w1, w2, p1

MCOfferOf == (a :> f1 @@ b :> f2)
MCReceipts == {[month |-> 12, type |-> "SALE", total |-> 6, vat |-> 1],
               [month |-> 23, type |-> "RETURN", total |-> 6, vat |-> 1]}
MCPurchases == {[month |-> 22, total |-> 3, vat |-> 1]}
MCPeriods == {<<1, 4>>}
MCOffers == <<p1, p1>>

\* Each service has two of those who act, and knows none but its own: to swap them
\* in all services at once is to swap them in the one that moves.
Swap(pair) == [x \in pair |-> CHOOSE y \in pair : y # x]
MCSymmetry ==
  {Swap(Client) @@ Swap(Session) @@ Swap(Closer) @@ Swap(Sender) @@ Swap(Seller)}
    \cup Permutations(Warehouse)

=============================================================================
