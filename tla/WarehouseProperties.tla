------------------------ MODULE WarehouseProperties ------------------------
(***************************************************************************)
(* What orders, shipments, documents and balances keep between them.       *)
(***************************************************************************)
EXTENDS Warehouse

\* Every variable keeps its shape (service/stock.go and its tables).
TypeOK ==
  /\ order \in [Order -> OrderRow \cup {None}]
  /\ doc \in [Doc -> DocRow \cup {None}]
  /\ stock \in [Product -> Row]
  /\ sold \in Quantities
  /\ orderOwner \in [Order -> Session \cup {NoSession}]
  /\ docOwner \in [Doc -> Session \cup {NoSession}]
  /\ stockOwner \in [Product -> Session \cup {NoSession}]
  /\ tx \in [Session -> Tx]

\* However many shipments of an order run at once, no line is shipped beyond its
\* quantity, and only an order that left DRAFT and CONFIRMED has shipped lines
\* (HeadForUpdate, the check of CreateShipment).
ShippedWithinOrdered ==
  \A o \in Orders : \A k \in DOMAIN Lines(o) :
    /\ Lines(o)[k].shipped <= Lines(o)[k].qty
    /\ Lines(o)[k].shipped > 0 => order[o].status \notin {"DRAFT", "CONFIRMED"}

\* An order is COMPLETED exactly when all of it is shipped (RemainingTotal).
CompletedIsShipped ==
  \A o \in Orders :
    order[o].status = "COMPLETED" <=> \A k \in DOMAIN Lines(o) : Lines(o)[k].shipped = Lines(o)[k].qty

\* The shipments of an order, its lines and its status agree.
ShipmentsAgree == TypeOK /\ ShippedWithinOrdered /\ CompletedIsShipped

\* An order moves on only: a canceled or completed order never changes again,
\* whatever requests were under way when it ended.
StatusMovesOn ==
  [][\A o \in Orders : \/ order'[o] = order[o]
                       \/ <<order[o].status, order'[o].status>> \in
                            {<<"DRAFT", "CONFIRMED">>, <<"DRAFT", "CANCELED">>,
                             <<"CONFIRMED", "SHIPPED">>, <<"CONFIRMED", "COMPLETED">>,
                             <<"CONFIRMED", "CANCELED">>, <<"SHIPPED", "SHIPPED">>,
                             <<"SHIPPED", "COMPLETED">>, <<"SHIPPED", "CANCELED">>}]_vars

\* What the lines of an order for product p still wait for.
Outstanding(o, p) ==
  PerProduct(o, [k \in DOMAIN Lines(o) |-> Lines(o)[k].qty - Lines(o)[k].shipped], p)
ShippedOf(o, p) == PerProduct(o, [k \in DOMAIN Lines(o) |-> Lines(o)[k].shipped], p)
HasShipped(o) == \E k \in DOMAIN Lines(o) : Lines(o)[k].shipped > 0

OrdersWith(statuses) == {o \in Orders : order[o].status \in statuses}

OpenOrders == OrdersWith({"CONFIRMED", "SHIPPED"})
LeftOrders == {o \in OrdersWith({"CANCELED"}) : HasShipped(o)}
PostedDocs == {d \in Doc : doc[d] # None /\ doc[d].posted}

\* The reserve of a product is what its confirmed orders still wait for, and
\* what orders canceled after a first shipment have left behind: the GREATEST(0)
\* of Release and Ship never hides a difference.
ReserveAccounted ==
  \A p \in Product :
    stock[p].reserved = InitialStock[p].reserved
      + SumFunction([o \in OpenOrders |-> Outstanding(o, p)])
      + SumFunction([o \in LeftOrders |-> Outstanding(o, p)])

\* The stock is what was there, plus every posted document once, less what was
\* shipped and sold.
StockAccounted ==
  \A p \in Product :
    stock[p].quantity = InitialStock[p].quantity
      + SumFunction([d \in PostedDocs |-> doc[d].items[p]])
      - SumFunction([o \in Orders |-> ShippedOf(o, p)]) - sold[p]

\* As long as no register sells from the warehouse, what is reserved is there:
\* a confirmed order can be shipped (the WHERE clause of Reserve).
StockCoversReserves == \A p \in Product : sold[p] = 0 => stock[p].quantity >= stock[p].reserved

\* A request that has started ends, deadlocks over the balances included.
RequestsFinish == \A s \in Session : tx[s].kind # "none" ~> tx[s].kind = "none"

=============================================================================
