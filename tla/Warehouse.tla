----------------------------- MODULE Warehouse -----------------------------
(***************************************************************************)
(* The warehouse: customer orders, which reserve stock when confirmed and  *)
(* ship it in one or several shipments, receipt documents, which bring     *)
(* stock in when posted, and the sales of the cash registers, which take   *)
(* free stock out.                                                         *)
(*                                                                         *)
(* As in CashDesk a session is a request and one READ COMMITTED            *)
(* transaction; tx[s] holds what it has read and decided, and Commit       *)
(* applies what it wrote.  The head of an order and of a document is       *)
(* locked FOR UPDATE first, so that its status and lines, which only the   *)
(* holder of that lock writes, are read in the same step.  Numbers of      *)
(* documents, prices and notifications are left out.                       *)
(***************************************************************************)
EXTENDS Integers, Sequences, Functions, RowLocks, Balances

CONSTANTS Session, Product,
          Order,         \* orders that can be created
          Doc,           \* receipt documents that can be created
          OrderRequest,  \* lines of an order to create
          DocRequest,    \* what a document brings in, per product
          SaleRequest,   \* what a register sells, per product
          InitialStock,
          MaxQty,        \* bound: quantity of a product in one transaction
          MaxSold,       \* bound: quantity of a product the registers sell
          None

RequestLine == [product : Product, qty : Nat \ {0}]
Quantities == [Product -> Nat]

OrderLine == [product : Product, qty : Nat \ {0}, reserved : Nat, shipped : Nat]
OrderRow == [status : {"DRAFT", "CONFIRMED", "SHIPPED", "COMPLETED", "CANCELED"},
             lines : Seq(OrderLine)]
DocRow == [posted : BOOLEAN, items : Quantities]

ASSUME WarehouseAssumption ==
  /\ NoSession \notin Session
  /\ None \notin Order \cup Doc /\ None \notin OrderRow /\ None \notin DocRow
  /\ OrderRequest \subseteq Seq(RequestLine) \ {<<>>}
  /\ DocRequest \subseteq Quantities /\ SaleRequest \subseteq Quantities
  /\ InitialStock \in [Product -> Row]
  /\ MaxQty \in Nat /\ MaxSold \in Nat

VARIABLES
  order,   \* sales_order with its lines, the posted shipments summed per line
  doc,     \* receipt_document
  stock,   \* warehouse_balance
  sold,    \* what the committed sales of the registers took, per product
  orderOwner, docOwner, stockOwner,
  tx

tables == <<order, doc, stock, sold>>
owners == <<orderOwner, docOwner, stockOwner>>
vars == <<tables, owners, tx>>

Zero == [p \in Product |-> 0]

Tx == [kind : {"none", "confirm", "cancel", "ship", "post", "sell"},
       order : Order \cup {None}, doc : Doc \cup {None},
       toShip : Seq(Nat),      \* per line of the order
       qty : Quantities,       \* per product, what the balances change by
       done : SUBSET Product, checked : SUBSET Product]

NoTx == [kind |-> "none", order |-> None, doc |-> None, toShip |-> <<>>,
         qty |-> Zero, done |-> {}, checked |-> {}]

Init ==
  /\ order = [o \in Order |-> None]
  /\ doc = [d \in Doc |-> None]
  /\ stock = InitialStock
  /\ sold = Zero
  /\ orderOwner = [o \in Order |-> NoSession]
  /\ docOwner = [d \in Doc |-> NoSession]
  /\ stockOwner = [p \in Product |-> NoSession]
  /\ tx = [s \in Session |-> NoTx]

-----------------------------------------------------------------------------
Lines(o) == order[o].lines
Orders == {o \in Order : order[o] # None}

\* items[l.Product] += ...: the amounts of the lines, summed per product.
PerProduct(o, amount, p) ==
  SumFunction([k \in DOMAIN Lines(o) |-> IF Lines(o)[k].product = p THEN amount[k] ELSE 0])

IsPerProduct(qty, o, amount) == \A p \in Product : qty[p] = PerProduct(o, amount, p)

\* The quantities a transaction can ask for, up to the bound.
BoundedQuantities == [Product -> 0..MaxQty]

\* RemainingTotal, with toShip already inserted.
RemainingTotal(o, toShip) ==
  SumFunction([k \in DOMAIN Lines(o) |-> Lines(o)[k].qty - Lines(o)[k].shipped - toShip[k]])

CreateOrder(o, lines) ==
  /\ order[o] = None
  /\ order' = [order EXCEPT ![o] =
       [status |-> "DRAFT",
        lines |-> [k \in DOMAIN lines |-> [product |-> lines[k].product, qty |-> lines[k].qty,
                                           reserved |-> 0, shipped |-> 0]]]]
  /\ UNCHANGED <<doc, stock, sold, owners, tx>>

CreateReceiptDoc(d, items) ==
  /\ doc[d] = None
  /\ doc' = [doc EXCEPT ![d] = [posted |-> FALSE, items |-> items]]
  /\ UNCHANGED <<order, stock, sold, owners, tx>>

-----------------------------------------------------------------------------
(* The head of the transaction: lock the order, check it, read its lines. *)

Idle(s) == tx[s].kind = "none"

CanConfirm(status) == status = "DRAFT"
CanCancel(status) == status \notin {"CANCELED", "COMPLETED"}
CanShipOrder(status) == status \in {"CONFIRMED", "SHIPPED"}

StartConfirm(s, o) ==
  /\ Idle(s) /\ order[o] # None /\ Grantable(orderOwner, o, s)
  /\ CanConfirm(order[o].status)
  /\ \E qty \in BoundedQuantities :
       /\ IsPerProduct(qty, o, [k \in DOMAIN Lines(o) |-> Lines(o)[k].qty])
       /\ tx' = [tx EXCEPT ![s] = [NoTx EXCEPT !.kind = "confirm", !.order = o, !.qty = qty]]
  /\ orderOwner' = Acquire(orderOwner, o, s)
  /\ UNCHANGED <<tables, docOwner, stockOwner>>

\* Mutant of ReleasedBy: whatever the status of the order.
ReleasedByAnyOrder(o, k) == Lines(o)[k].reserved

\* Only the reserve of a CONFIRMED order is released.
ReleasedBy(o, k) == IF order[o].status = "CONFIRMED" THEN Lines(o)[k].reserved ELSE 0

StartCancel(s, o) ==
  /\ Idle(s) /\ order[o] # None /\ Grantable(orderOwner, o, s)
  /\ CanCancel(order[o].status)
  /\ \E qty \in BoundedQuantities :
       /\ IsPerProduct(qty, o, [k \in DOMAIN Lines(o) |-> ReleasedBy(o, k)])
       /\ tx' = [tx EXCEPT ![s] = [NoTx EXCEPT !.kind = "cancel", !.order = o, !.qty = qty]]
  /\ orderOwner' = Acquire(orderOwner, o, s)
  /\ UNCHANGED <<tables, docOwner, stockOwner>>

\* Mutant of WithinRemaining: earlier shipments are not counted.
WithinOrdered(line, q) == q <= line.qty

\* What is left of a line bounds what may be shipped of it.
WithinRemaining(line, q) == q <= line.qty - line.shipped

\* The lines of the request, or all that remains when it names none; a line
\* left out ships nothing.  "nothing to ship" is refused.
StartShip(s, o) ==
  /\ Idle(s) /\ order[o] # None /\ Grantable(orderOwner, o, s)
  /\ CanShipOrder(order[o].status)
  /\ \E toShip \in [DOMAIN Lines(o) -> 0..MaxQty], qty \in BoundedQuantities :
       /\ \A k \in DOMAIN Lines(o) : WithinRemaining(Lines(o)[k], toShip[k])
       /\ \E k \in DOMAIN Lines(o) : toShip[k] > 0
       /\ IsPerProduct(qty, o, toShip)
       /\ tx' = [tx EXCEPT ![s] = [NoTx EXCEPT !.kind = "ship", !.order = o,
                                               !.toShip = toShip, !.qty = qty]]
  /\ orderOwner' = Acquire(orderOwner, o, s)
  /\ UNCHANGED <<tables, docOwner, stockOwner>>

\* Mutant of NotPosted: the status is not checked.
PostedOrNot(d) == TRUE

\* ReceiptForPost locks the document and refuses one that is posted.
NotPosted(d) == ~doc[d].posted

StartPost(s, d) ==
  /\ Idle(s) /\ doc[d] # None /\ Grantable(docOwner, d, s) /\ NotPosted(d)
  /\ tx' = [tx EXCEPT ![s] = [NoTx EXCEPT !.kind = "post", !.doc = d, !.qty = doc[d].items]]
  /\ docOwner' = Acquire(docOwner, d, s)
  /\ UNCHANGED <<tables, orderOwner, stockOwner>>

\* A register sells: Deduct, the rest of the sale is in CashDesk.
StartSell(s, items) ==
  /\ Idle(s) /\ \A p \in Product : sold[p] + items[p] <= MaxSold
  /\ tx' = [tx EXCEPT ![s] = [NoTx EXCEPT !.kind = "sell", !.qty = items]]
  /\ UNCHANGED <<tables, owners>>

\* No such order or document, or a status that does not allow the request.
StartRefused(s) ==
  /\ Idle(s)
  /\ \/ \E o \in Order : /\ Grantable(orderOwner, o, s)
                         /\ order[o] # None => \/ ~CanConfirm(order[o].status)
                                               \/ ~CanCancel(order[o].status)
                                               \/ ~CanShipOrder(order[o].status)
     \/ \E d \in Doc : Grantable(docOwner, d, s) /\ (doc[d] # None => ~NotPosted(d))
  /\ UNCHANGED vars

-----------------------------------------------------------------------------
(* The balances, product by product in the order of a Go map: any. *)

LeftOf(s) == {p \in Product : tx[s].qty[p] > 0} \ tx[s].done

TakeRow(s, p) ==
  /\ Grantable(stockOwner, p, s)
  /\ stockOwner' = Acquire(stockOwner, p, s)
  /\ tx' = [tx EXCEPT ![s].done = @ \cup {p}, ![s].checked = {}]
  /\ UNCHANGED <<tables, orderOwner, docOwner>>

\* Reserve checks in the UPDATE, on the row as it is once its lock is granted.
ReserveWrite(s, p) ==
  /\ tx[s].kind = "confirm" /\ p \in LeftOf(s)
  /\ CanReserve(stock[p], tx[s].qty[p])
  /\ TakeRow(s, p)

ReserveRefused(s) ==
  /\ tx[s].kind = "confirm"
  /\ \E p \in LeftOf(s) : Grantable(stockOwner, p, s) /\ ~CanReserve(stock[p], tx[s].qty[p])

\* Release and Add check nothing.
ReleaseOrAddWrite(s, p) ==
  /\ tx[s].kind \in {"cancel", "post"} /\ p \in LeftOf(s)
  /\ TakeRow(s, p)

\* Ship and Deduct read the row without a lock and write it in a second statement.
EnoughFor(s, p) == IF tx[s].kind = "ship" THEN CanShip(stock[p], tx[s].qty[p])
                                          ELSE CanDeduct(stock[p], tx[s].qty[p])

TakeOutCheck(s, p) ==
  /\ tx[s].kind \in {"ship", "sell"} /\ tx[s].checked = {}
  /\ p \in LeftOf(s) /\ EnoughFor(s, p)
  /\ tx' = [tx EXCEPT ![s].checked = {p}]
  /\ UNCHANGED <<tables, owners>>

TakeOutRefused(s) ==
  /\ tx[s].kind \in {"ship", "sell"} /\ tx[s].checked = {}
  /\ \E p \in LeftOf(s) : ~EnoughFor(s, p)

TakeOutWrite(s, p) == p \in tx[s].checked /\ TakeRow(s, p)

-----------------------------------------------------------------------------
\* Mutant of Finish: the transaction is not ended on the way out.
FinishKeepingLocks(s) == tx' = [tx EXCEPT ![s] = NoTx] /\ UNCHANGED owners

Finish(s) ==
  /\ tx' = [tx EXCEPT ![s] = NoTx]
  /\ orderOwner' = ReleaseAll(orderOwner, s)
  /\ docOwner' = ReleaseAll(docOwner, s)
  /\ stockOwner' = ReleaseAll(stockOwner, s)

Rollback(s) == Finish(s) /\ UNCHANGED tables

StatusAfterShip(o, toShip) == IF RemainingTotal(o, toShip) <= 0 THEN "COMPLETED" ELSE "SHIPPED"

LinesAfter(s, o) ==
  [k \in DOMAIN Lines(o) |->
     CASE tx[s].kind = "confirm" -> [Lines(o)[k] EXCEPT !.reserved = Lines(o)[k].qty]
       [] tx[s].kind = "ship" -> [Lines(o)[k] EXCEPT !.shipped = @ + tx[s].toShip[k]]
       [] OTHER -> Lines(o)[k]]

OrderAfter(s, o) ==
  [status |-> CASE tx[s].kind = "confirm" -> "CONFIRMED"
                [] tx[s].kind = "cancel" -> "CANCELED"
                [] tx[s].kind = "ship" -> StatusAfterShip(o, tx[s].toShip),
   lines |-> LinesAfter(s, o)]

RowAfter(s, p) ==
  CASE tx[s].kind = "confirm" -> Reserved(stock[p], tx[s].qty[p])
    [] tx[s].kind = "cancel" -> Released(stock[p], tx[s].qty[p])
    [] tx[s].kind = "ship" -> Shipped(stock[p], tx[s].qty[p])
    [] tx[s].kind = "post" -> Added(stock[p], tx[s].qty[p])
    [] tx[s].kind = "sell" -> Deducted(stock[p], tx[s].qty[p])

Commit(s) ==
  /\ ~Idle(s) /\ LeftOf(s) = {}
  /\ order' = [o \in Order |-> IF o = tx[s].order THEN OrderAfter(s, o) ELSE order[o]]
  /\ doc' = [d \in Doc |-> IF d = tx[s].doc THEN [doc[d] EXCEPT !.posted = TRUE] ELSE doc[d]]
  /\ stock' = [p \in Product |-> IF p \in tx[s].done THEN RowAfter(s, p) ELSE stock[p]]
  /\ sold' = [p \in Product |-> IF tx[s].kind = "sell" THEN sold[p] + tx[s].qty[p] ELSE sold[p]]
  /\ Finish(s)

Refuse(s) == (ReserveRefused(s) \/ TakeOutRefused(s)) /\ Rollback(s)

\* Any other error, a lost connection, a crash of the server.
Fail(s) == ~Idle(s) /\ Rollback(s)

\* The sessions s waits for, when every statement it may come to waits.
WaitsOn(s) == IF tx[s].kind \in {"ship", "sell"} THEN tx[s].checked ELSE LeftOf(s)

Waits(s) == LET owns == {stockOwner[p] : p \in WaitsOn(s)} IN
            IF NoSession \in owns THEN {} ELSE owns

Deadlocked(D) == D # {} /\ \A s \in D : Waits(s) # {} /\ Waits(s) \subseteq D

DetectDeadlock(s) ==
  /\ \E D \in SUBSET Session : s \in D /\ Deadlocked(D)
  /\ Rollback(s)

Start(s) ==
  \/ \E o \in Order : StartConfirm(s, o) \/ StartCancel(s, o) \/ StartShip(s, o)
  \/ \E d \in Doc : StartPost(s, d)
  \/ \E items \in SaleRequest : StartSell(s, items)
  \/ StartRefused(s)

Step(s) ==
  \/ \E p \in Product : \/ ReserveWrite(s, p) \/ ReleaseOrAddWrite(s, p)
                        \/ TakeOutCheck(s, p) \/ TakeOutWrite(s, p)
  \/ Commit(s) \/ Refuse(s) \/ DetectDeadlock(s)

Next ==
  \/ \E o \in Order, lines \in OrderRequest : CreateOrder(o, lines)
  \/ \E d \in Doc, items \in DocRequest : CreateReceiptDoc(d, items)
  \/ \E s \in Session : Start(s) \/ Step(s) \/ Fail(s)

Spec == Init /\ [][Next]_vars

\* Handlers run to their end; locks are granted in the order of the requests.
FairSpec == Spec /\ \A s \in Session : SF_vars(Step(s))

=============================================================================
