---------------------------- MODULE MarketOrders ----------------------------
(***************************************************************************)
(* The import of a marketplace's orders: PullOrders and the links of its   *)
(* offers to products.                                                     *)
(*                                                                         *)
(* A pull takes one page of the marketplace's orders and imports those the *)
(* table does not have, each in a transaction of its own: the buyer, the   *)
(* sales order, the order of the marketplace.  Pulls of several users      *)
(* overlap; what keeps them apart are the unique indexes, on which an      *)
(* INSERT waits for the transaction that has inserted the same key.        *)
(* Prices, items and the raw data are left out; an order has one offer.    *)
(***************************************************************************)
EXTENDS Integers, Sequences, FiniteSets, SequencesExt

CONSTANTS Session,
          Order, Offer,  \* of the marketplace
          OfferOf,       \* the offer of an order, None if no item has a quantity
          KnownSku,      \* offers that are the SKU of an active product
          Limit,         \* orders on a page
          MaxCrashes,    \* bound
          None

Note == {"unmatched", "empty", "create failed"}
MpOrder == [status : {"MATCHED"}] \cup [status : {"SKIPPED"}, note : Note]

MarketOrdersAssumption ==
  /\ None \notin Session \cup Offer /\ None \notin MpOrder /\ IsFiniteSet(Order)
  /\ OfferOf \in [Order -> Offer \cup {None}]
  /\ KnownSku \subseteq Offer /\ Limit \in Nat \ {0} /\ MaxCrashes \in Nat

VARIABLES
  posted,     \* the orders the marketplace has
  linked,     \* market_offer_link: the offers with a product
  buyer,      \* the marketplace's counterparty: absent, stored, or who has inserted it
  inserting,  \* per order: the session whose transaction has inserted its sales order
  orders,     \* sales orders per order of the marketplace
  mpOrder,    \* marketplace_order
  failed,     \* orders whose transaction the database failed; no code reads it
  raced,      \* orders that met another pull creating the buyer; no code reads it
  tx, crashes

tables == <<buyer, inserting, orders, mpOrder, failed, raced>>
vars == <<posted, linked, tables, tx, crashes>>

Stage == {"idle", "exists", "match", "buyer", "newBuyer", "order", "store", "skip"}
Tx == [stage : Stage, todo : Seq(Order), note : Note \cup {None}]
NoTx == [stage |-> "idle", todo |-> <<>>, note |-> None]

Init ==
  /\ posted = {} /\ linked = {}
  /\ buyer = "absent" /\ inserting = [o \in Order |-> None]
  /\ orders = [o \in Order |-> 0] /\ mpOrder = [o \in Order |-> None] /\ failed = {} /\ raced = {}
  /\ tx = [s \in Session |-> NoTx] /\ crashes = 0

-----------------------------------------------------------------------------
Post(o) ==
  /\ o \notin posted /\ posted' = posted \cup {o}
  /\ UNCHANGED <<linked, tables, tx, crashes>>

CreateOffer(f) ==
  /\ f \notin linked /\ linked' = linked \cup {f}
  /\ UNCHANGED <<posted, tables, tx, crashes>>

DeleteOffer(f) ==
  /\ f \in linked /\ linked' = linked \ {f}
  /\ UNCHANGED <<posted, tables, tx, crashes>>

-----------------------------------------------------------------------------
ProductByOffer(f) == f \in linked \cup KnownSku
Exists(o) == mpOrder[o] # None

\* MP-<provider>-<external id>, unique in sales_order.
SameNumber(o, p) == o = p

current(s) == Head(tx[s].todo)
At(s, stage) == tx[s].stage = stage
Go(s, stage) == tx' = [tx EXCEPT ![s].stage = stage]

\* The next order, or the end of the pull: its line in market_sync_log is left out.
NextOrder(s) ==
  tx' = [tx EXCEPT ![s] = IF Len(tx[s].todo) = 1 THEN NoTx
                          ELSE [NoTx EXCEPT !.stage = "exists", !.todo = Tail(tx[s].todo)]]

\* The transaction is rolled back; the order is to be stored as SKIPPED.
Rollback(s) ==
  /\ buyer' = IF buyer = s THEN "absent" ELSE buyer
  /\ inserting' = [o \in Order |-> IF inserting[o] = s THEN None ELSE inserting[o]]
  /\ tx' = [tx EXCEPT ![s].stage = "skip", ![s].note = "create failed"]
  /\ UNCHANGED <<orders, mpOrder>>

\* One page, the order of which is up to the marketplace; no cursor is kept.
Pages == {p \in UNION {[1..n -> posted] : n \in 1..Limit} : IsInjective(p)}

PullOrders(s, page) ==
  /\ At(s, "idle")
  /\ tx' = [tx EXCEPT ![s] = [NoTx EXCEPT !.stage = "exists", !.todo = page]]
  /\ UNCHANGED <<posted, linked, tables, crashes>>

CheckExists(s) ==
  /\ At(s, "exists")
  /\ IF Exists(current(s)) THEN NextOrder(s) ELSE Go(s, "match")
  /\ UNCHANGED <<posted, linked, tables, crashes>>

\* Looked up twice, by the link and by the SKU; a database that gives no answer
\* counts as no product.
Match(s, answered) ==
  LET f == OfferOf[current(s)]
      matched == f # None /\ answered /\ ProductByOffer(f)
  IN
  /\ At(s, "match")
  /\ tx' = [tx EXCEPT ![s].stage = IF matched THEN "buyer" ELSE "skip",
                      ![s].note = IF matched THEN None ELSE IF f = None THEN "empty" ELSE "unmatched"]
  /\ UNCHANGED <<posted, linked, tables, crashes>>

\* SELECT sees the counterparty only if its transaction has committed.
SelectBuyer(s) ==
  /\ At(s, "buyer") /\ Go(s, IF buyer = "stored" THEN "order" ELSE "newBuyer")
  /\ UNCHANGED <<posted, linked, tables, crashes>>

InsertBuyer(s) ==
  /\ At(s, "newBuyer") /\ buyer \in {"absent", "stored"}
  /\ IF buyer = "stored"
     THEN Rollback(s) /\ raced' = raced \cup {current(s)}
     ELSE /\ buyer' = s /\ Go(s, "order")
          /\ UNCHANGED <<inserting, orders, mpOrder, raced>>
  /\ UNCHANGED <<posted, linked, failed, crashes>>

\* Mutant of InsertOrder: on the pool, not in the transaction.
InsertOrderOutside(s) ==
  /\ At(s, "order") /\ orders[current(s)] = 0
  /\ orders' = [orders EXCEPT ![current(s)] = 1] /\ Go(s, "store")
  /\ UNCHANGED <<posted, linked, buyer, inserting, mpOrder, failed, raced, crashes>>

InsertOrder(s) ==
  /\ At(s, "order")
  /\ \A o \in Order : SameNumber(o, current(s)) => inserting[o] = None
  /\ IF \E o \in Order : SameNumber(o, current(s)) /\ orders[o] > 0
     THEN Rollback(s)
     ELSE /\ inserting' = [inserting EXCEPT ![current(s)] = s] /\ Go(s, "store")
          /\ UNCHANGED <<buyer, orders, mpOrder>>
  /\ UNCHANGED <<posted, linked, failed, raced, crashes>>

\* The order of the marketplace, its items and the commit.
Store(s) ==
  /\ At(s, "store")
  /\ IF Exists(current(s))
     THEN Rollback(s)
     ELSE /\ mpOrder' = [mpOrder EXCEPT ![current(s)] = [status |-> "MATCHED"]]
          /\ orders' = [orders EXCEPT ![current(s)] = @ + 1]
          /\ inserting' = [inserting EXCEPT ![current(s)] = None]
          /\ buyer' = "stored"
          /\ NextOrder(s)
  /\ UNCHANGED <<posted, linked, failed, raced, crashes>>

\* Any other error inside the transaction.
Fail(s) ==
  /\ tx[s].stage \in {"buyer", "newBuyer", "order", "store"}
  /\ Rollback(s) /\ failed' = failed \cup {current(s)}
  /\ UNCHANGED <<posted, linked, raced, crashes>>

\* The error of the unique index is not looked at.
storeSkipped(s) ==
  /\ At(s, "skip")
  /\ mpOrder' = IF Exists(current(s)) THEN mpOrder
                ELSE [mpOrder EXCEPT ![current(s)] = [status |-> "SKIPPED", note |-> tx[s].note]]
  /\ NextOrder(s)
  /\ UNCHANGED <<posted, linked, buyer, inserting, orders, failed, raced, crashes>>

\* The process stops; the database rolls its transactions back.
Crash ==
  /\ crashes < MaxCrashes /\ crashes' = crashes + 1
  /\ tx' = [s \in Session |-> NoTx]
  /\ buyer' = IF buyer \in Session THEN "absent" ELSE buyer
  /\ inserting' = [o \in Order |-> None]
  /\ UNCHANGED <<posted, linked, orders, mpOrder, failed, raced>>

Next ==
  \/ \E o \in Order : Post(o)
  \/ \E f \in Offer : CreateOffer(f) \/ DeleteOffer(f)
  \/ \E s \in Session : \/ \E page \in Pages : PullOrders(s, page)
                        \/ \E answered \in BOOLEAN : Match(s, answered)
                        \/ CheckExists(s) \/ SelectBuyer(s) \/ InsertBuyer(s)
                        \/ InsertOrder(s) \/ Store(s) \/ storeSkipped(s) \/ Fail(s)
  \/ Crash

Spec == Init /\ [][Next]_vars

=============================================================================
