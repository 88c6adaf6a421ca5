------------------------------ MODULE Balances ------------------------------
(***************************************************************************)
(* One row of warehouse_balance and what the statements of BalanceRepo     *)
(* (repository/stock.go) compute on it.  A row that does not exist is the  *)
(* row with zero quantities: Deduct, Reserve and Ship refuse both, and Add *)
(* is an upsert.                                                           *)
(***************************************************************************)
EXTENDS Integers

Row == [quantity : Int, reserved : Nat]

\* GREATEST(0, x)
NotBelowZero(x) == IF x < 0 THEN 0 ELSE x

\* Deduct: the check, on a row read without a lock, and the UPDATE.
CanDeduct(row, qty) == row.quantity - row.reserved >= qty
Deducted(row, qty) == [row EXCEPT !.quantity = @ - qty]

\* Add: an upsert, never refused.
Added(row, qty) == [row EXCEPT !.quantity = @ + qty]

\* Mutant of CanReserve: what is reserved is not held back.
CanReserveStock(row, qty) == row.quantity >= qty

\* Reserve: the check is in the WHERE clause of the UPDATE itself.
CanReserve(row, qty) == row.quantity - row.reserved >= qty
Reserved(row, qty) == [row EXCEPT !.reserved = @ + qty]

\* Release: never below zero.
Released(row, qty) == [row EXCEPT !.reserved = NotBelowZero(@ - qty)]

\* Ship: the check reads the physical quantity without a lock.
CanShip(row, qty) == row.quantity >= qty
Shipped(row, qty) ==
  [quantity |-> row.quantity - qty, reserved |-> NotBelowZero(row.reserved - qty)]

=============================================================================
