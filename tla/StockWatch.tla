----------------------------- MODULE StockWatch -----------------------------
(***************************************************************************)
(* What is made of the free stock (quantity - reserved_quantity): alerts   *)
(* to the administrators by the sale that makes a product low, and the     *)
(* stocks a marketplace is told.                                           *)
(*                                                                         *)
(* CheckLowStock runs in the transaction of the sale, which holds the row  *)
(* it has updated, and alerts those who are to be told: administrators     *)
(* with a channel switched on, who may be none.  PushStocks reads outside  *)
(* of any transaction, a statement per linked offer, and ignores that one  *)
(* fails.  Stock is counted in halves of a unit.                           *)
(***************************************************************************)
EXTENDS Integers, Sequences, FiniteSets, FiniteSetsExt, Functions

CONSTANTS Seller, Pusher, Warehouse, Product,
          Offers,     \* the product of each linked offer, in the order of the links
          Threshold,  \* low_stock_threshold
          Quantity,   \* that are sold
          MaxStock,   \* bound
          None

StockWatchAssumption ==
  /\ None \notin Seller \cup Warehouse \cup Product /\ IsFiniteSet(Warehouse)
  /\ Offers \in Seq(Product) /\ Offers # <<>>
  /\ Threshold \in Nat /\ Quantity \subseteq Nat \ {0} /\ MaxStock \in Nat

VARIABLES
  stock,   \* warehouse_balance: free halves, committed
  locks,   \* who has updated a balance and not committed
  alerts,  \* products with a committed STOCK_LOW alert of the last 24 hours
  sale,    \* the transaction of each seller
  shown,   \* what the marketplace shows of each offer, in units
  push,    \* the push of each pusher
  had      \* per push, the stocks of each product since it began; no code keeps them

watchVars == <<stock, locks, alerts, sale, shown, push, had>>

Cell == Warehouse \X Product
\* "unheard", "failed": the low products with nobody to be told, and the offers
\* whose stock could not be read.  The code keeps neither.
NoSale == [stage |-> "idle", cell |-> <<>>, qty |-> 0, lows |-> {}, alerting |-> {}, unheard |-> {}]
NoPush == [stage |-> "idle", scope |-> {}, items |-> <<>>, failed |-> {}]

WatchInit ==
  /\ stock = [c \in Cell |-> MaxStock] /\ locks = [c \in Cell |-> None]
  /\ alerts = {} /\ sale = [s \in Seller |-> NoSale]
  /\ shown = [k \in DOMAIN Offers |-> 0] /\ push = [r \in Pusher |-> NoPush]
  /\ had = [r \in Pusher |-> [p \in Product |-> {}]]

-----------------------------------------------------------------------------
Selling(s, stage) == sale[s].stage = stage

\* Over one warehouse, or all of them, whatever their organization.
Available(balances, scope, p) == SumFunction([w \in scope |-> balances[<<w, p>>]])

\* What pushes under way may have read after a change of the balances.
Noted(balances) ==
  [r \in Pusher |-> [p \in Product |->
     IF push[r] = NoPush THEN {} ELSE had[r][p] \cup {Available(balances, push[r].scope, p)}]]

\* Deduct: the free stock is read, without a lock.
ReadFree(s, c, q) ==
  /\ Selling(s, "idle") /\ stock[c] >= q
  /\ sale' = [sale EXCEPT ![s] = [NoSale EXCEPT !.stage = "deduct", !.cell = c, !.qty = q]]
  /\ UNCHANGED <<stock, locks, alerts, shown, push, had>>

\* Its update locks the row.
Deduct(s) ==
  /\ Selling(s, "deduct") /\ locks[sale[s].cell] = None
  /\ locks' = [locks EXCEPT ![sale[s].cell] = s]
  /\ sale' = [sale EXCEPT ![s].stage = "lows"]
  /\ UNCHANGED <<stock, alerts, shown, push, had>>

\* What the transaction sees: its own update, and what is committed.
FreeFor(s, c) == stock[c] - (IF sale[s].cell = c THEN sale[s].qty ELSE 0)

ReadLows(s) ==
  /\ Selling(s, "lows")
  /\ sale' = [sale EXCEPT ![s].stage = "alerts",
                          ![s].lows = {p \in Product : FreeFor(s, <<sale[s].cell[1], p>>) < Threshold}]
  /\ UNCHANGED <<stock, locks, alerts, shown, push, had>>

\* Mutant of Recent: an alert that is queued in another transaction counts.
RecentOrQueued(p) == p \in alerts \/ \E s \in Seller : p \in sale[s].alerting

\* A committed alert of the last 24 hours, whatever its warehouse.
Recent(p) == p \in alerts

\* To the channels that the administrators have on: told, if there is any.
EnqueueAlert(s, p, told) ==
  /\ Selling(s, "alerts") /\ p \in sale[s].lows
  /\ sale' = [sale EXCEPT ![s].lows = @ \ {p},
                          ![s].alerting = IF Recent(p) \/ ~told THEN @ ELSE @ \cup {p},
                          ![s].unheard = IF Recent(p) \/ told THEN @ ELSE @ \cup {p}]
  /\ UNCHANGED <<stock, locks, alerts, shown, push, had>>

Unlock(s) == locks' = [c \in Cell |-> IF locks[c] = s THEN None ELSE locks[c]]

CommitSale(s) ==
  /\ Selling(s, "alerts") /\ sale[s].lows = {}
  /\ stock' = [stock EXCEPT ![sale[s].cell] = @ - sale[s].qty]
  /\ alerts' = alerts \cup sale[s].alerting
  /\ had' = Noted(stock')
  /\ Unlock(s) /\ sale' = [sale EXCEPT ![s] = NoSale]
  /\ UNCHANGED <<shown, push>>

RollbackSale(s) ==
  /\ ~Selling(s, "idle")
  /\ Unlock(s) /\ sale' = [sale EXCEPT ![s] = NoSale]
  /\ UNCHANGED <<stock, alerts, shown, push, had>>

\* Goods are received: Add.
Receive(c) ==
  /\ locks[c] = None /\ stock[c] < Threshold
  /\ stock' = [stock EXCEPT ![c] = MaxStock] /\ had' = Noted(stock')
  /\ UNCHANGED <<locks, alerts, sale, shown, push>>

\* The alerts are older than 24 hours; transactions are shorter than that.
NextDay ==
  /\ \A s \in Seller : Selling(s, "idle")
  /\ alerts' = {}
  /\ UNCHANGED <<stock, locks, sale, shown, push, had>>

-----------------------------------------------------------------------------
\* Of one warehouse, or of all.
PushStocks(r, scope) ==
  /\ push[r].stage = "idle"
  /\ push' = [push EXCEPT ![r] = [stage |-> "read", scope |-> scope, items |-> <<>>, failed |-> {}]]
  /\ had' = [had EXCEPT ![r] = [p \in Product |-> {Available(stock, scope, p)}]]
  /\ UNCHANGED <<stock, locks, alerts, sale, shown>>

\* Mutant of Pushed: what is reserved beyond the stock is not cut off.
PushedNegative(free) == free \div 2

\* Nothing below zero, and int() of what is left.
Pushed(free) == IF free < 0 THEN 0 ELSE free \div 2

\* A SELECT that fails leaves the stock of its offer 0.
ReadOffer(r, read) ==
  LET next == Len(push[r].items) + 1
      free == IF read THEN Available(stock, push[r].scope, Offers[next]) ELSE 0
  IN
  /\ push[r].stage = "read"
  /\ push' = [push EXCEPT ![r].items = Append(@, Pushed(free)),
                          ![r].failed = IF read THEN @ ELSE @ \cup {next},
                          ![r].stage = IF next = Len(Offers) THEN "send" ELSE "read"]
  /\ UNCHANGED <<stock, locks, alerts, sale, shown, had>>

EndPush(r) == push' = [push EXCEPT ![r] = NoPush] /\ had' = [had EXCEPT ![r] = [p \in Product |-> {}]]

\* The marketplace takes the stocks; its answer may be lost.
SendStocks(r) ==
  /\ push[r].stage = "send"
  /\ shown' = push[r].items
  /\ EndPush(r) /\ UNCHANGED <<stock, locks, alerts, sale>>

FailPush(r) ==
  /\ push[r].stage # "idle"
  /\ EndPush(r) /\ UNCHANGED <<stock, locks, alerts, sale, shown>>

WatchNext ==
  \/ \E s \in Seller : \/ \E c \in Cell, q \in Quantity : ReadFree(s, c, q)
                       \/ Deduct(s) \/ ReadLows(s) \/ CommitSale(s) \/ RollbackSale(s)
                       \/ \E p \in Product, told \in BOOLEAN : EnqueueAlert(s, p, told)
  \/ \E c \in Cell : Receive(c)
  \/ NextDay
  \/ \E r \in Pusher : \/ \E w \in Warehouse : PushStocks(r, {w})
                       \/ PushStocks(r, Warehouse)
                       \/ \E read \in BOOLEAN : ReadOffer(r, read)
                       \/ SendStocks(r) \/ FailPush(r)

-----------------------------------------------------------------------------
\* The sale that leaves a product below the threshold is not over without an
\* alert of the last 24 hours, its own or another's that is committed: one that
\* may still be rolled back does not count.  Unless, when it came to that, no
\* administrator with a channel switched on was there to be told (CheckLowStock,
\* EnqueueTx).
LowIsAlerted ==
  [][\A c \in Cell : stock'[c] < stock[c] /\ stock'[c] < Threshold =>
       \/ c[2] \in alerts'
       \/ c[2] \in sale[locks[c]].unheard]_watchVars

\* The marketplace is told, of every offer, whole units that were free while
\* the push ran, however sales went on meanwhile; and 0 of the offers whose
\* SELECT failed (PushStocks).
ShownWasFree ==
  [][\A r \in Pusher : push[r].stage = "send" /\ push'[r] = NoPush /\ shown' # shown =>
       \A k \in DOMAIN Offers :
         \/ k \in push[r].failed /\ shown'[k] = 0
         \/ \E q \in had[r][Offers[k]] :
              shown'[k] * 2 <= (IF q < 0 THEN 0 ELSE q) /\ (IF q < 0 THEN 0 ELSE q) < shown'[k] * 2 + 2]_watchVars

=============================================================================
