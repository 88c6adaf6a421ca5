--------------------------- MODULE WarehouseProofs ---------------------------
(***************************************************************************)
(* Proofs about the warehouse, for any number of sessions, products,       *)
(* orders, documents and quantities.  The argument: a request holds the    *)
(* row of its order or document from its first statement to its end, so    *)
(* what it has decided from the row is right when it commits; and each     *)
(* commit moves the balances by what it changes in that row.               *)
(***************************************************************************)
EXTENDS WarehouseProperties, RanksAndSums

-----------------------------------------------------------------------------
(* The lines of an order. *)

LineSum(lines, amount, p) ==
  SumFunction([k \in DOMAIN lines |-> IF lines[k].product = p THEN amount[k] ELSE 0])

LEMMA PerProductIs ==
  ASSUME NEW o, NEW amount, NEW p
  PROVE  PerProduct(o, amount, p) = LineSum(Lines(o), amount, p)
BY DEF PerProduct, LineSum

LEMMA LinesAreFinite ==
  ASSUME NEW lines \in Seq(OrderLine)
  PROVE  IsFiniteSet(DOMAIN lines)
<1>1. DOMAIN lines = 1..Len(lines) /\ 1 \in Int /\ Len(lines) \in Int
  OBVIOUS
<1>. QED  BY <1>1, FS_Interval

LEMMA LineSumAdds ==
  ASSUME NEW lines \in Seq(OrderLine), NEW p, NEW a, NEW b, NEW c,
         \A k \in DOMAIN lines : a[k] \in Int /\ b[k] \in Int /\ c[k] = a[k] + b[k]
  PROVE  /\ LineSum(lines, a, p) \in Int /\ LineSum(lines, b, p) \in Int
         /\ LineSum(lines, c, p) = LineSum(lines, a, p) + LineSum(lines, b, p)
<1> DEFINE D == DOMAIN lines
           Of(x) == [k \in D |-> IF lines[k].product = p THEN x[k] ELSE 0]
<1>1. IsFiniteSet(D)
  BY LinesAreFinite
<1>2. Summable(Of(a), D) /\ Summable(Of(b), D) /\ \A k \in D : Of(c)[k] = Of(a)[k] + Of(b)[k]
  BY <1>1 DEF Summable
<1>3. /\ LineSum(lines, a, p) = SumFunctionOnSet(Of(a), D)
      /\ LineSum(lines, b, p) = SumFunctionOnSet(Of(b), D)
      /\ LineSum(lines, c, p) = SumFunctionOnSet(Of(c), D)
  BY DEF LineSum, SumFunction
<1> HIDE DEF D, Of
<1>4. SumFunctionOnSet(Of(c), D) = SumFunctionOnSet(Of(a), D) + SumFunctionOnSet(Of(b), D)
  BY <1>2, SumAdds
<1>5. SumFunctionOnSet(Of(a), D) \in Int /\ SumFunctionOnSet(Of(b), D) \in Int
  BY <1>2, SumStep
<1>. QED  BY <1>3, <1>4, <1>5

LEMMA LineSumOfNaturals ==
  ASSUME NEW lines \in Seq(OrderLine), NEW p, NEW a, \A k \in DOMAIN lines : a[k] \in Nat
  PROVE  /\ LineSum(lines, a, p) \in Nat
         /\ (\A k \in DOMAIN lines : a[k] = 0) => LineSum(lines, a, p) = 0
<1> DEFINE D == DOMAIN lines
           f == [k \in D |-> IF lines[k].product = p THEN a[k] ELSE 0]
<1>1. IsFiniteSet(D) /\ \A k \in D : f[k] \in Nat
  BY LinesAreFinite
<1>2. LineSum(lines, a, p) = SumFunctionOnSet(f, D)
  BY DEF LineSum, SumFunction
<1>3. (\A k \in D : a[k] = 0) => \A k \in D : f[k] = 0
  OBVIOUS
<1> HIDE DEF f, D
<1>4. /\ SumFunctionOnSet(f, D) \in Nat
      /\ (\A k \in D : f[k] = 0) => SumFunctionOnSet(f, D) = 0
  BY <1>1, SumOfNaturals
<1>. QED  BY <1>2, <1>3, <1>4 DEF D

\* Only the products of the lines matter and the amounts.
LEMMA LineSumSame ==
  ASSUME NEW lines, NEW others, NEW p, NEW a, NEW b, DOMAIN lines = DOMAIN others,
         \A k \in DOMAIN lines : lines[k].product = others[k].product /\ a[k] = b[k]
  PROVE  LineSum(lines, a, p) = LineSum(others, b, p)
<1>1. [k \in DOMAIN lines |-> IF lines[k].product = p THEN a[k] ELSE 0]
        = [k \in DOMAIN others |-> IF others[k].product = p THEN b[k] ELSE 0]
  OBVIOUS
<1>. QED  BY <1>1, Zenon DEF LineSum

-----------------------------------------------------------------------------
(* An order as a row: what it keeps, what it waits for, what has left. *)

QtyOf(row) == [k \in DOMAIN row.lines |-> row.lines[k].qty]
ReservedOf(row) == [k \in DOMAIN row.lines |-> row.lines[k].reserved]
GoneOf(row) == [k \in DOMAIN row.lines |-> row.lines[k].shipped]
OwedOf(row) == [k \in DOMAIN row.lines |-> row.lines[k].qty - row.lines[k].shipped]

Owed(row, p) == LineSum(row.lines, OwedOf(row), p)
Gone(row, p) == LineSum(row.lines, GoneOf(row), p)
AnyGone(row) == \E k \in DOMAIN row.lines : row.lines[k].shipped > 0
AllGone(row) == \A k \in DOMAIN row.lines : row.lines[k].shipped = row.lines[k].qty

RowOK(row) ==
  /\ \A k \in DOMAIN row.lines :
       /\ row.lines[k].shipped <= row.lines[k].qty
       /\ row.status = "CONFIRMED" => row.lines[k].reserved = row.lines[k].qty
  /\ row.status \in {"DRAFT", "CONFIRMED"} => ~AnyGone(row)
  /\ row.status = "SHIPPED" => AnyGone(row)
  /\ row.status = "COMPLETED" <=> AllGone(row)

\* What a row adds to the reserve: what it waits for, and what it has left
\* behind when it was canceled.
OpenClaim(row, p) ==
  IF row # None /\ row.status \in {"CONFIRMED", "SHIPPED"} THEN Owed(row, p) ELSE 0
LeftClaim(row, p) == IF row # None /\ row.status = "CANCELED" /\ AnyGone(row) THEN Owed(row, p) ELSE 0
GoneClaim(row, p) == IF row # None THEN Gone(row, p) ELSE 0

Moves == {<<"DRAFT", "CONFIRMED">>, <<"DRAFT", "CANCELED">>, <<"CONFIRMED", "SHIPPED">>,
          <<"CONFIRMED", "COMPLETED">>, <<"CONFIRMED", "CANCELED">>, <<"SHIPPED", "SHIPPED">>,
          <<"SHIPPED", "COMPLETED">>, <<"SHIPPED", "CANCELED">>}

\* A request that has found this row and may commit on it.
Ready(t, row) ==
  /\ t.kind \in {"confirm", "cancel", "ship"}
  /\ t.kind = "confirm" =>
       /\ row.status = "DRAFT"
       /\ \A p \in Product : t.qty[p] = LineSum(row.lines, QtyOf(row), p)
  /\ t.kind = "cancel" =>
       /\ row.status \notin {"CANCELED", "COMPLETED"}
       /\ \A p \in Product : t.qty[p] = IF row.status = "CONFIRMED"
                                        THEN LineSum(row.lines, ReservedOf(row), p) ELSE 0
  /\ t.kind = "ship" =>
       /\ row.status \in {"CONFIRMED", "SHIPPED"}
       /\ t.toShip \in [DOMAIN row.lines -> Nat]
       /\ \A k \in DOMAIN row.lines : t.toShip[k] <= row.lines[k].qty - row.lines[k].shipped
       /\ \E k \in DOMAIN row.lines : t.toShip[k] > 0
       /\ \A p \in Product : t.qty[p] = LineSum(row.lines, t.toShip, p)

\* What its commit makes of the row and of the claims on the balances.
Done(t, row, new) ==
  /\ new \in OrderRow /\ RowOK(new) /\ <<row.status, new.status>> \in Moves
  /\ \A p \in Product :
       /\ GoneClaim(new, p) = GoneClaim(row, p) + (IF t.kind = "ship" THEN t.qty[p] ELSE 0)
       /\ OpenClaim(new, p) + LeftClaim(new, p)
            = OpenClaim(row, p) + LeftClaim(row, p)
                + (IF t.kind = "confirm" THEN t.qty[p] ELSE 0 - t.qty[p])
       /\ t.kind # "confirm" => t.qty[p] <= OpenClaim(row, p)

LEMMA RowTyped ==
  ASSUME NEW row \in OrderRow
  PROVE  /\ row.lines \in Seq(OrderLine) /\ row # None
         /\ \A k \in DOMAIN row.lines : row.lines[k] \in OrderLine
         /\ \A k \in DOMAIN row.lines : /\ row.lines[k].qty \in Nat \ {0}
                                        /\ row.lines[k].shipped \in Nat
                                        /\ row.lines[k].reserved \in Nat
<1>1. row.lines \in Seq(OrderLine)
  BY DEF OrderRow
<1>2. \A k \in DOMAIN row.lines : row.lines[k] \in OrderLine
  BY <1>1
<1>3. row # None
  BY WarehouseAssumption
<1>. QED  BY <1>1, <1>2, <1>3 DEF OrderLine

LEMMA ClaimsAreNaturals ==
  ASSUME NEW row \in OrderRow, RowOK(row), NEW p
  PROVE  Owed(row, p) \in Nat /\ Gone(row, p) \in Nat
<1>1. /\ row.lines \in Seq(OrderLine)
      /\ \A k \in DOMAIN row.lines : /\ row.lines[k].qty \in Nat /\ row.lines[k].shipped \in Nat
  BY RowTyped
<1>2. \A k \in DOMAIN row.lines : row.lines[k].shipped <= row.lines[k].qty
  BY DEF RowOK
<1>3. \A k \in DOMAIN row.lines : OwedOf(row)[k] \in Nat /\ GoneOf(row)[k] \in Nat
  BY <1>1, <1>2 DEF OwedOf, GoneOf
<1>. QED  BY <1>1, <1>3, LineSumOfNaturals DEF Owed, Gone

\* The new row keeps the products and the amounts of the old one.
Alike(row, new) ==
  /\ DOMAIN new.lines = DOMAIN row.lines
  /\ \A k \in DOMAIN row.lines : /\ new.lines[k].product = row.lines[k].product
                                 /\ new.lines[k].qty = row.lines[k].qty
                                 /\ new.lines[k].shipped = row.lines[k].shipped

LEMMA MappedLines ==
  ASSUME NEW lines \in Seq(OrderLine), NEW f, f = [k \in DOMAIN lines |-> f[k]],
         \A k \in DOMAIN lines : f[k] \in OrderLine
  PROVE  f \in Seq(OrderLine) /\ DOMAIN f = DOMAIN lines
<1>1. DOMAIN lines = 1..Len(lines) /\ Len(lines) \in Nat
  OBVIOUS
<1>2. f \in [1..Len(lines) -> OrderLine]
  BY <1>1
<1>. QED  BY <1>1, <1>2

LEMMA SameClaims ==
  ASSUME NEW row \in OrderRow, NEW new \in OrderRow, NEW p, Alike(row, new)
  PROVE  /\ Owed(new, p) = Owed(row, p) /\ Gone(new, p) = Gone(row, p)
         /\ AnyGone(new) <=> AnyGone(row)
         /\ AllGone(new) <=> AllGone(row)
<1>1. \A k \in DOMAIN row.lines : OwedOf(new)[k] = OwedOf(row)[k] /\ GoneOf(new)[k] = GoneOf(row)[k]
  BY DEF OwedOf, GoneOf, Alike
<1>2. Owed(new, p) = Owed(row, p) /\ Gone(new, p) = Gone(row, p)
  BY <1>1, LineSumSame DEF Owed, Gone, Alike
<1>. QED  BY <1>2 DEF AnyGone, AllGone, Alike

LEMMA NothingGone ==
  ASSUME NEW row \in OrderRow, ~AnyGone(row), NEW p
  PROVE  Gone(row, p) = 0 /\ Owed(row, p) = LineSum(row.lines, QtyOf(row), p)
<1>1. /\ row.lines \in Seq(OrderLine)
      /\ \A k \in DOMAIN row.lines : /\ row.lines[k].qty \in Nat /\ row.lines[k].shipped = 0
  BY RowTyped DEF AnyGone
<1>2. \A k \in DOMAIN row.lines : OwedOf(row)[k] = QtyOf(row)[k] /\ GoneOf(row)[k] = 0
  BY <1>1 DEF OwedOf, QtyOf, GoneOf
<1>3. Gone(row, p) = 0
  BY <1>1, <1>2, LineSumOfNaturals DEF Gone
<1>4. Owed(row, p) = LineSum(row.lines, QtyOf(row), p)
  BY <1>2, LineSumSame DEF Owed
<1>. QED  BY <1>3, <1>4

LEMMA ConfirmDone ==
  ASSUME NEW t \in Tx, t.kind = "confirm", NEW row \in OrderRow, RowOK(row), Ready(t, row),
         NEW new, new = [status |-> "CONFIRMED",
                         lines |-> [k \in DOMAIN row.lines |->
                                      [row.lines[k] EXCEPT !.reserved = row.lines[k].qty]]]
  PROVE  Done(t, row, new)
<1>1. /\ row.lines \in Seq(OrderLine) /\ row # None /\ row.status = "DRAFT" /\ ~AnyGone(row)
      /\ \A k \in DOMAIN row.lines : row.lines[k] \in OrderLine
  BY RowTyped DEF Ready, RowOK
<1>2. PICK lines : lines = [k \in DOMAIN row.lines |-> [row.lines[k] EXCEPT !.reserved = row.lines[k].qty]]
  OBVIOUS
<1>3. /\ \A k \in DOMAIN row.lines :
           /\ lines[k] \in OrderLine /\ lines[k].product = row.lines[k].product
           /\ lines[k].qty = row.lines[k].qty /\ lines[k].shipped = row.lines[k].shipped
           /\ lines[k].reserved = lines[k].qty
      /\ lines = [k \in DOMAIN row.lines |-> lines[k]]
  BY <1>1, <1>2 DEF OrderLine
<1>4. lines \in Seq(OrderLine) /\ DOMAIN lines = DOMAIN row.lines
  BY <1>1, <1>3, MappedLines
<1>5. new = [status |-> "CONFIRMED", lines |-> lines] /\ new.lines = lines /\ new.status = "CONFIRMED"
  BY <1>2
<1>6. new \in OrderRow /\ Alike(row, new)
  BY <1>3, <1>4, <1>5 DEF OrderRow, Alike
<1>7. new # None
  BY <1>6, RowTyped
<1>8. ~AnyGone(new) /\ ~AllGone(new)
  BY <1>1, <1>6, SameClaims DEF RowOK
<1>9. RowOK(new)
  BY <1>1, <1>3, <1>4, <1>5, <1>8 DEF RowOK
<1>10. ASSUME NEW p \in Product
       PROVE  /\ GoneClaim(new, p) = 0 /\ GoneClaim(row, p) = 0
              /\ OpenClaim(new, p) = t.qty[p] /\ OpenClaim(row, p) = 0
              /\ LeftClaim(new, p) = 0 /\ LeftClaim(row, p) = 0
  <2>1. Owed(new, p) = Owed(row, p) /\ Gone(new, p) = Gone(row, p)
    BY <1>6, SameClaims
  <2>2. Gone(row, p) = 0 /\ Owed(row, p) = t.qty[p]
    BY <1>1, NothingGone DEF Ready
  <2>. QED  BY <1>1, <1>5, <1>7, <2>1, <2>2 DEF GoneClaim, OpenClaim, LeftClaim
<1>11. \A p \in Product : t.qty[p] \in Int
  BY DEF Tx, Quantities
<1>. QED  BY <1>1, <1>5, <1>6, <1>9, <1>10, <1>11 DEF Done, Moves

LEMMA CancelDone ==
  ASSUME NEW t \in Tx, t.kind = "cancel", NEW row \in OrderRow, RowOK(row), Ready(t, row),
         NEW new, new = [status |-> "CANCELED", lines |-> row.lines]
  PROVE  Done(t, row, new)
<1>1. /\ row.lines \in Seq(OrderLine) /\ row # None
      /\ row.status \in {"DRAFT", "CONFIRMED", "SHIPPED"}
  BY RowTyped DEF Ready, OrderRow
<1>2. new.lines = row.lines /\ new.status = "CANCELED"
  OBVIOUS
<1>3. new \in OrderRow /\ Alike(row, new)
  BY <1>1 DEF OrderRow, Alike
<1>4. new # None
  BY <1>3, RowTyped
<1>5. RowOK(new)
  <2>1. AllGone(new) <=> AllGone(row)
    BY <1>3, SameClaims
  <2>2. \A k \in DOMAIN new.lines : new.lines[k].shipped <= new.lines[k].qty
    BY <1>2 DEF RowOK
  <2>. QED  BY <1>1, <1>2, <2>1, <2>2 DEF RowOK
<1>6. ASSUME NEW p \in Product
      PROVE  /\ GoneClaim(new, p) = GoneClaim(row, p) /\ GoneClaim(row, p) \in Nat
             /\ OpenClaim(new, p) = 0 /\ LeftClaim(row, p) = 0
             /\ t.qty[p] + LeftClaim(new, p) = OpenClaim(row, p)
             /\ t.qty[p] \in Nat /\ LeftClaim(new, p) \in Nat
  <2>1. /\ Owed(new, p) = Owed(row, p) /\ Gone(new, p) = Gone(row, p)
        /\ AnyGone(new) <=> AnyGone(row)
    BY <1>3, SameClaims
  <2>2. Owed(row, p) \in Nat /\ Gone(row, p) \in Nat
    BY ClaimsAreNaturals
  <2>3. t.qty[p] \in Nat
    BY DEF Tx, Quantities
  <2>4. CASE row.status = "CONFIRMED"
    <3>1. \A k \in DOMAIN row.lines : ReservedOf(row)[k] = QtyOf(row)[k]
      BY <2>4 DEF RowOK, ReservedOf, QtyOf
    <3>2. LineSum(row.lines, ReservedOf(row), p) = LineSum(row.lines, QtyOf(row), p)
      BY <3>1, LineSumSame
    <3>3. ~AnyGone(row)
      BY <2>4 DEF RowOK
    <3>4. t.qty[p] = Owed(row, p)
      BY <2>4, <3>2, <3>3, NothingGone DEF Ready
    <3>. QED  BY <1>1, <1>2, <1>4, <2>1, <2>2, <2>4, <3>3, <3>4 DEF GoneClaim, OpenClaim, LeftClaim
  <2>5. CASE row.status = "SHIPPED"
    <3>1. t.qty[p] = 0 /\ AnyGone(row)
      BY <2>5 DEF Ready, RowOK
    <3>. QED  BY <1>1, <1>2, <1>4, <2>1, <2>2, <2>5, <3>1 DEF GoneClaim, OpenClaim, LeftClaim
  <2>6. CASE row.status = "DRAFT"
    <3>1. t.qty[p] = 0 /\ ~AnyGone(row)
      BY <2>6 DEF Ready, RowOK
    <3>. QED  BY <1>1, <1>2, <1>4, <2>1, <2>2, <2>6, <3>1 DEF GoneClaim, OpenClaim, LeftClaim
  <2>. QED  BY <1>1, <2>4, <2>5, <2>6
<1>7. <<row.status, new.status>> \in Moves
  BY <1>1, <1>2 DEF Moves
<1>. QED  BY <1>3, <1>5, <1>6, <1>7 DEF Done

Remaining(row, toShip) ==
  SumFunction([k \in DOMAIN row.lines |-> row.lines[k].qty - row.lines[k].shipped - toShip[k]])

LEMMA RemainingIs ==
  ASSUME NEW row \in OrderRow, NEW toShip \in [DOMAIN row.lines -> Nat],
         \A k \in DOMAIN row.lines : toShip[k] <= row.lines[k].qty - row.lines[k].shipped
  PROVE  Remaining(row, toShip) <= 0 <=>
           \A k \in DOMAIN row.lines : row.lines[k].shipped + toShip[k] = row.lines[k].qty
<1> DEFINE D == DOMAIN row.lines
           f == [k \in D |-> row.lines[k].qty - row.lines[k].shipped - toShip[k]]
<1>1. \A k \in D : /\ row.lines[k].qty \in Nat /\ row.lines[k].shipped \in Nat
                   /\ toShip[k] \in Nat
  BY RowTyped
<1>2. IsFiniteSet(D) /\ \A k \in D : f[k] \in Nat
  BY <1>1, RowTyped, LinesAreFinite
<1>3. \A k \in D : f[k] = 0 <=> row.lines[k].shipped + toShip[k] = row.lines[k].qty
  BY <1>1
<1>4. Remaining(row, toShip) = SumFunctionOnSet(f, D)
  BY DEF Remaining, SumFunction
<1> HIDE DEF f
<1>5. SumFunctionOnSet(f, D) \in Nat /\ (SumFunctionOnSet(f, D) = 0 <=> \A k \in D : f[k] = 0)
  BY <1>2, SumOfNaturals
<1>. QED  BY <1>3, <1>4, <1>5

AfterShip(row, toShip) ==
  [status |-> IF Remaining(row, toShip) <= 0 THEN "COMPLETED" ELSE "SHIPPED",
   lines |-> [k \in DOMAIN row.lines |-> [row.lines[k] EXCEPT !.shipped = @ + toShip[k]]]]

\* Every line of the shipment is still waited for.
Shippable(row, toShip) ==
  /\ toShip \in [DOMAIN row.lines -> Nat]
  /\ \A k \in DOMAIN row.lines : toShip[k] <= row.lines[k].qty - row.lines[k].shipped

LEMMA ShippedLines ==
  ASSUME NEW row \in OrderRow, NEW toShip, Shippable(row, toShip),
         NEW new, new = AfterShip(row, toShip)
  PROVE  /\ new \in OrderRow /\ DOMAIN new.lines = DOMAIN row.lines
         /\ new.status = IF Remaining(row, toShip) <= 0 THEN "COMPLETED" ELSE "SHIPPED"
         /\ \A k \in DOMAIN row.lines :
              /\ new.lines[k].product = row.lines[k].product
              /\ new.lines[k].qty = row.lines[k].qty
              /\ new.lines[k].shipped = row.lines[k].shipped + toShip[k]
<1>1. row.lines \in Seq(OrderLine) /\ \A k \in DOMAIN row.lines : row.lines[k] \in OrderLine
  BY RowTyped
<1>2. \A k \in DOMAIN row.lines : toShip[k] \in Nat
  BY DEF Shippable
<1>3. PICK lines : lines = [k \in DOMAIN row.lines |-> [row.lines[k] EXCEPT !.shipped = @ + toShip[k]]]
  OBVIOUS
<1>4. ASSUME NEW k \in DOMAIN row.lines
      PROVE  /\ lines[k] \in OrderLine /\ lines[k].product = row.lines[k].product
             /\ lines[k].qty = row.lines[k].qty
             /\ lines[k].shipped = row.lines[k].shipped + toShip[k]
  <2>1. lines[k] = [row.lines[k] EXCEPT !.shipped = @ + toShip[k]]
    BY <1>3
  <2>2. PICK line \in OrderLine, q \in Nat : line = row.lines[k] /\ q = toShip[k]
    BY <1>1, <1>2
  <2>3. lines[k] = [line EXCEPT !.shipped = line.shipped + q]
    BY <2>1, <2>2
  <2>4. /\ lines[k] \in OrderLine /\ lines[k].product = line.product
        /\ lines[k].qty = line.qty /\ lines[k].shipped = line.shipped + q
    BY <2>3 DEF OrderLine
  <2>. QED  BY <2>2, <2>4
<1>5. lines = [k \in DOMAIN row.lines |-> lines[k]]
  BY <1>3
<1>6. lines \in Seq(OrderLine) /\ DOMAIN lines = DOMAIN row.lines
  BY <1>1, <1>4, <1>5, MappedLines
<1>7. PICK status \in {"COMPLETED", "SHIPPED"} :
         status = IF Remaining(row, toShip) <= 0 THEN "COMPLETED" ELSE "SHIPPED"
  OBVIOUS
<1>8. new = [status |-> status, lines |-> lines]
  BY <1>3, <1>7 DEF AfterShip
<1>9. new.lines = lines /\ new.status = status /\ new \in OrderRow
  BY <1>6, <1>8 DEF OrderRow
<1>. QED  BY <1>4, <1>6, <1>7, <1>9

LEMMA ShippedRow ==
  ASSUME NEW row \in OrderRow, RowOK(row), NEW toShip, Shippable(row, toShip),
         \E k \in DOMAIN row.lines : toShip[k] > 0,
         row.status \in {"CONFIRMED", "SHIPPED"},
         NEW new, new = AfterShip(row, toShip)
  PROVE  RowOK(new) /\ (new.status = "COMPLETED" => AllGone(new))
<1>1. /\ DOMAIN new.lines = DOMAIN row.lines
      /\ new.status = IF Remaining(row, toShip) <= 0 THEN "COMPLETED" ELSE "SHIPPED"
      /\ \A k \in DOMAIN row.lines :
           /\ new.lines[k].qty = row.lines[k].qty
           /\ new.lines[k].shipped = row.lines[k].shipped + toShip[k]
  BY ShippedLines
<1>2. /\ toShip \in [DOMAIN row.lines -> Nat]
      /\ \A k \in DOMAIN row.lines : toShip[k] <= row.lines[k].qty - row.lines[k].shipped
  BY DEF Shippable
<1>3. \A k \in DOMAIN row.lines : row.lines[k].qty \in Nat /\ row.lines[k].shipped \in Nat
  BY RowTyped
<1>4. new.status = "COMPLETED" <=> AllGone(new)
  <2>1. Remaining(row, toShip) <= 0 <=>
          \A k \in DOMAIN row.lines : row.lines[k].shipped + toShip[k] = row.lines[k].qty
    BY <1>2, RemainingIs
  <2>. QED  BY <1>1, <2>1 DEF AllGone
<1>5. AnyGone(new)
  BY <1>1, <1>2, <1>3 DEF AnyGone
<1>6. \A k \in DOMAIN new.lines : new.lines[k].shipped <= new.lines[k].qty
  BY <1>1, <1>2, <1>3
<1>. QED  BY <1>1, <1>4, <1>5, <1>6 DEF RowOK

LEMMA ShippedClaims ==
  ASSUME NEW row \in OrderRow, NEW toShip, Shippable(row, toShip), NEW p,
         NEW new, new = AfterShip(row, toShip)
  PROVE  /\ Gone(new, p) = Gone(row, p) + LineSum(row.lines, toShip, p)
         /\ Owed(row, p) = Owed(new, p) + LineSum(row.lines, toShip, p)
         /\ AllGone(new) => Owed(new, p) = 0
<1>1. /\ DOMAIN new.lines = DOMAIN row.lines /\ new \in OrderRow
      /\ \A k \in DOMAIN row.lines :
           /\ new.lines[k].product = row.lines[k].product
           /\ new.lines[k].qty = row.lines[k].qty
           /\ new.lines[k].shipped = row.lines[k].shipped + toShip[k]
  BY ShippedLines
<1>2. /\ row.lines \in Seq(OrderLine)
      /\ \A k \in DOMAIN row.lines : /\ row.lines[k].qty \in Nat /\ row.lines[k].shipped \in Nat
                                     /\ toShip[k] \in Nat
  BY RowTyped DEF Shippable
<1>3. PICK before, after, owed, left :
        before = GoneOf(row) /\ after = GoneOf(new) /\ owed = OwedOf(row) /\ left = OwedOf(new)
  OBVIOUS
<1>4. \A k \in DOMAIN row.lines :
        /\ before[k] = row.lines[k].shipped /\ after[k] = new.lines[k].shipped
        /\ owed[k] = row.lines[k].qty - row.lines[k].shipped
        /\ left[k] = new.lines[k].qty - new.lines[k].shipped
  BY <1>1, <1>3 DEF GoneOf, OwedOf
<1>5. \A k \in DOMAIN row.lines :
        /\ before[k] \in Int /\ toShip[k] \in Int /\ left[k] \in Int
        /\ after[k] = before[k] + toShip[k] /\ owed[k] = left[k] + toShip[k]
  BY <1>1, <1>2, <1>4
<1>6. LineSum(row.lines, after, p) = LineSum(row.lines, before, p) + LineSum(row.lines, toShip, p)
  BY <1>2, <1>5, LineSumAdds
<1>7. LineSum(row.lines, owed, p) = LineSum(row.lines, left, p) + LineSum(row.lines, toShip, p)
  BY <1>2, <1>5, LineSumAdds
<1>8. /\ LineSum(row.lines, after, p) = LineSum(new.lines, after, p)
      /\ LineSum(row.lines, left, p) = LineSum(new.lines, left, p)
  BY <1>1, LineSumSame
<1>9. AllGone(new) => Owed(new, p) = 0
  <2>. SUFFICES ASSUME AllGone(new)  PROVE Owed(new, p) = 0
    OBVIOUS
  <2>1. \A k \in DOMAIN new.lines : new.lines[k].shipped = new.lines[k].qty /\ new.lines[k].qty \in Nat
    BY <1>1, RowTyped DEF AllGone
  <2>2. \A k \in DOMAIN new.lines : OwedOf(new)[k] = 0
    BY <2>1 DEF OwedOf
  <2>3. new.lines \in Seq(OrderLine)
    BY <1>1, RowTyped
  <2>. QED  BY <2>2, <2>3, LineSumOfNaturals DEF Owed
<1>. QED  BY <1>3, <1>6, <1>7, <1>8, <1>9 DEF Gone, Owed

LEMMA ShipDone ==
  ASSUME NEW t \in Tx, t.kind = "ship", NEW row \in OrderRow, RowOK(row), Ready(t, row),
         NEW new, new = AfterShip(row, t.toShip)
  PROVE  Done(t, row, new)
<1>1. row # None /\ row.status \in {"CONFIRMED", "SHIPPED"} /\ Shippable(row, t.toShip)
      /\ \E k \in DOMAIN row.lines : t.toShip[k] > 0
  BY RowTyped DEF Ready, Shippable
<1>2. new \in OrderRow /\ new.status \in {"COMPLETED", "SHIPPED"}
  BY <1>1, ShippedLines
<1>3. RowOK(new) /\ (new.status = "COMPLETED" => AllGone(new)) /\ new # None
  BY <1>1, <1>2, ShippedRow, RowTyped
<1>4. ASSUME NEW p \in Product
       PROVE  /\ GoneClaim(new, p) = GoneClaim(row, p) + t.qty[p]
              /\ OpenClaim(new, p) + LeftClaim(new, p)
                   = OpenClaim(row, p) + LeftClaim(row, p) + (0 - t.qty[p])
              /\ t.qty[p] <= OpenClaim(row, p)
  <2>1. t.qty[p] = LineSum(row.lines, t.toShip, p) /\ t.qty[p] \in Nat
    BY DEF Ready, Tx, Quantities
  <2>2. /\ Gone(new, p) = Gone(row, p) + t.qty[p] /\ Owed(row, p) = Owed(new, p) + t.qty[p]
        /\ new.status = "COMPLETED" => Owed(new, p) = 0
    BY <1>1, <1>3, <2>1, ShippedClaims
  <2>3. Owed(new, p) \in Nat /\ Gone(row, p) \in Nat
    BY <1>2, <1>3, ClaimsAreNaturals
  <2>. QED  BY <1>1, <1>2, <1>3, <2>1, <2>2, <2>3 DEF GoneClaim, OpenClaim, LeftClaim
<1>5. <<row.status, new.status>> \in Moves
  BY <1>1, <1>2 DEF Moves
<1>. QED  BY <1>2, <1>3, <1>4, <1>5 DEF Done

-----------------------------------------------------------------------------
(* What a request holds and what it has decided from it. *)

OrderKinds == {"confirm", "cancel", "ship"}

\* The row of its order or document is as the request has found it.
Decided(s) ==
  /\ tx[s].kind \in OrderKinds =>
       /\ tx[s].order \in Order /\ order[tx[s].order] # None /\ orderOwner[tx[s].order] = s
       /\ Ready(tx[s], order[tx[s].order])
  /\ tx[s].kind \notin OrderKinds => tx[s].order = None
  /\ tx[s].kind = "post" =>
       /\ tx[s].doc \in Doc /\ doc[tx[s].doc] # None /\ docOwner[tx[s].doc] = s
       /\ ~doc[tx[s].doc].posted /\ tx[s].qty = doc[tx[s].doc].items
  /\ tx[s].kind # "post" => tx[s].doc = None

\* The balances it has written are its own until it ends.
Written(s) ==
  /\ \A p \in tx[s].done \cup tx[s].checked : tx[s].qty[p] > 0
  /\ tx[s].kind \notin {"ship", "sell"} => tx[s].checked = {}
  /\ \A p \in tx[s].done :
       /\ stockOwner[p] = s
       /\ tx[s].kind = "confirm" => CanReserve(stock[p], tx[s].qty[p])

RowsOK == \A o \in Order : order[o] # None => RowOK(order[o])

Known == TypeOK /\ RowsOK /\ \A s \in Session : Decided(s) /\ Written(s)

\* A step of another session: what u holds stays as it is.
Leaves(u) ==
  /\ tx'[u] = tx[u]
  /\ \A o \in Order : order[o] # None /\ orderOwner[o] = u => order'[o] = order[o] /\ orderOwner'[o] = u
  /\ \A d \in Doc : doc[d] # None /\ docOwner[d] = u => doc'[d] = doc[d] /\ docOwner'[d] = u
  /\ \A p \in Product : stockOwner[p] = u => stock'[p] = stock[p] /\ stockOwner'[p] = u

LEMMA LeavesKnown ==
  ASSUME TypeOK, NEW u \in Session, Decided(u), Written(u), Leaves(u)
  PROVE  Decided(u)' /\ Written(u)'
<1>1. tx[u].done \subseteq Product
  BY DEF TypeOK, Tx
<1>2. Decided(u)'
  BY DEF Decided, Leaves
<1>3. Written(u)'
  BY <1>1 DEF Written, Leaves
<1>. QED  BY <1>2, <1>3

LEMMA NoTxTyped == NoTx \in Tx
BY DEF NoTx, Tx, Zero, Quantities

\* Locks taken and given back.
LEMMA AcquireTyped ==
  ASSUME NEW X, NEW owner \in [X -> Session \cup {NoSession}], NEW row \in X, NEW s \in Session
  PROVE  Acquire(owner, row, s) \in [X -> Session \cup {NoSession}]
BY DEF Acquire

LEMMA AcquireLeaves ==
  ASSUME NEW X, NEW owner \in [X -> Session \cup {NoSession}], NEW row \in X, NEW s \in Session,
         Grantable(owner, row, s), NEW u \in Session, u # s, NEW x \in X, owner[x] = u
  PROVE  Acquire(owner, row, s)[x] = u
BY WarehouseAssumption DEF Acquire, Grantable

LEMMA ReleaseTyped ==
  ASSUME NEW X, NEW owner \in [X -> Session \cup {NoSession}], NEW s \in Session
  PROVE  /\ ReleaseAll(owner, s) \in [X -> Session \cup {NoSession}]
         /\ \A u \in Session \ {s}, x \in X : owner[x] = u => ReleaseAll(owner, s)[x] = u
BY DEF ReleaseAll

\* A step that touches only the transaction of s and the locks.
LEMMA QuietKnown ==
  ASSUME Known, NEW s \in Session, UNCHANGED tables,
         orderOwner' \in [Order -> Session \cup {NoSession}],
         docOwner' \in [Doc -> Session \cup {NoSession}],
         stockOwner' \in [Product -> Session \cup {NoSession}],
         NEW t \in Tx, tx' = [tx EXCEPT ![s] = t], \A u \in Session \ {s} : Leaves(u),
         Decided(s)', Written(s)'
  PROVE  Known'
<1>1. TypeOK'
  BY DEF Known, TypeOK, tables
<1>2. RowsOK'
  BY DEF Known, RowsOK, tables
<1>3. \A u \in Session \ {s} : Decided(u)' /\ Written(u)'
  BY LeavesKnown DEF Known
<1>. QED  BY <1>1, <1>2, <1>3 DEF Known

\* A request starts on an order whose row it locks.
LEMMA StartOnOrder ==
  ASSUME Known, NEW s \in Session, NEW o \in Order, order[o] # None, Grantable(orderOwner, o, s),
         NEW t \in Tx, t.kind \in OrderKinds, t.order = o, t.doc = None,
         t.done = {}, t.checked = {}, Ready(t, order[o]),
         tx' = [tx EXCEPT ![s] = t], orderOwner' = Acquire(orderOwner, o, s),
         UNCHANGED <<tables, docOwner, stockOwner>>
  PROVE  Known'
<1>1. TypeOK
  BY DEF Known
<1>2. tx'[s] = t
  BY <1>1 DEF TypeOK
<1>3. orderOwner' \in [Order -> Session \cup {NoSession}] /\ orderOwner'[o] = s
  BY <1>1, AcquireTyped DEF TypeOK, Acquire
<1>4. ASSUME NEW u \in Session \ {s} PROVE Leaves(u)
  <2>1. \A x \in Order : orderOwner[x] = u => orderOwner'[x] = u
    BY <1>1, AcquireLeaves DEF TypeOK
  <2>. QED  BY <1>1, <2>1 DEF Leaves, TypeOK, tables
<1>5. UNCHANGED order /\ UNCHANGED doc /\ UNCHANGED stock
  BY DEF tables
<1>6. Decided(s)'
  BY <1>2, <1>3, <1>5 DEF Decided, OrderKinds
<1>7. Written(s)'
  BY <1>2 DEF Written
<1>. QED  BY <1>1, <1>3, <1>4, <1>6, <1>7, QuietKnown DEF TypeOK

LEMMA BoundedTyped == BoundedQuantities \subseteq Quantities
BY WarehouseAssumption DEF BoundedQuantities, Quantities

LEMMA StartConfirmKnown ==
  ASSUME Known, NEW s \in Session, NEW o \in Order, StartConfirm(s, o)
  PROVE  Known'
<1>1. PICK qty \in BoundedQuantities :
        /\ IsPerProduct(qty, o, [k \in DOMAIN Lines(o) |-> Lines(o)[k].qty])
        /\ tx' = [tx EXCEPT ![s] = [NoTx EXCEPT !.kind = "confirm", !.order = o, !.qty = qty]]
  BY DEF StartConfirm
<1>2. PICK t : t = [NoTx EXCEPT !.kind = "confirm", !.order = o, !.qty = qty]
  OBVIOUS
<1>3. /\ t \in Tx /\ t.kind = "confirm" /\ t.order = o /\ t.doc = None /\ t.qty = qty
      /\ t.done = {} /\ t.checked = {}
  BY <1>2, NoTxTyped, BoundedTyped DEF NoTx, Tx
<1>4. Ready(t, order[o])
  <2>1. order[o].status = "DRAFT"
    BY DEF StartConfirm, CanConfirm
  <2>2. [k \in DOMAIN Lines(o) |-> Lines(o)[k].qty] = QtyOf(order[o])
    BY DEF Lines, QtyOf
  <2>3. \A p \in Product : t.qty[p] = LineSum(order[o].lines, QtyOf(order[o]), p)
    BY <1>1, <1>3, <2>2, PerProductIs DEF IsPerProduct, Lines
  <2>. QED  BY <1>3, <2>1, <2>3 DEF Ready
<1>. QED  BY <1>1, <1>2, <1>3, <1>4, StartOnOrder DEF StartConfirm, OrderKinds

LEMMA StartCancelKnown ==
  ASSUME Known, NEW s \in Session, NEW o \in Order, StartCancel(s, o)
  PROVE  Known'
<1>1. PICK qty \in BoundedQuantities :
        /\ IsPerProduct(qty, o, [k \in DOMAIN Lines(o) |-> ReleasedBy(o, k)])
        /\ tx' = [tx EXCEPT ![s] = [NoTx EXCEPT !.kind = "cancel", !.order = o, !.qty = qty]]
  BY DEF StartCancel
<1>2. PICK t : t = [NoTx EXCEPT !.kind = "cancel", !.order = o, !.qty = qty]
  OBVIOUS
<1>3. /\ t \in Tx /\ t.kind = "cancel" /\ t.order = o /\ t.doc = None /\ t.qty = qty
      /\ t.done = {} /\ t.checked = {}
  BY <1>2, NoTxTyped, BoundedTyped DEF NoTx, Tx
<1>4. Ready(t, order[o])
  <2>1. PICK row \in OrderRow : row = order[o]
    BY DEF StartCancel, Known, TypeOK
  <2>2. row.status \notin {"CANCELED", "COMPLETED"}
    BY <2>1 DEF StartCancel, CanCancel
  <2>3. PICK amount : amount = [k \in DOMAIN row.lines |->
                                  IF row.status = "CONFIRMED" THEN row.lines[k].reserved ELSE 0]
    OBVIOUS
  <2>4. amount = [k \in DOMAIN Lines(o) |-> ReleasedBy(o, k)]
    BY <2>1, <2>3 DEF ReleasedBy, Lines
  <2>5. ASSUME NEW p \in Product PROVE t.qty[p] = LineSum(row.lines, amount, p)
    BY <1>1, <1>3, <2>1, <2>4, PerProductIs DEF IsPerProduct, Lines
  <2>6. ASSUME NEW p \in Product, row.status = "CONFIRMED"
        PROVE  t.qty[p] = LineSum(row.lines, ReservedOf(row), p)
    <3>1. \A k \in DOMAIN row.lines : amount[k] = ReservedOf(row)[k]
      BY <2>3, <2>6 DEF ReservedOf
    <3>. QED  BY <2>5, <3>1, LineSumSame
  <2>7. ASSUME NEW p \in Product, row.status # "CONFIRMED"
        PROVE  t.qty[p] = 0
    <3>1. \A k \in DOMAIN row.lines : amount[k] = 0
      BY <2>3, <2>7
    <3>2. row.lines \in Seq(OrderLine)
      BY RowTyped
    <3>. QED  BY <2>5, <3>1, <3>2, LineSumOfNaturals
  <2>. QED  BY <1>3, <2>1, <2>2, <2>6, <2>7 DEF Ready
<1>. QED  BY <1>1, <1>2, <1>3, <1>4, StartOnOrder DEF StartCancel, OrderKinds

LEMMA StartShipKnown ==
  ASSUME Known, NEW s \in Session, NEW o \in Order, StartShip(s, o)
  PROVE  Known'
<1>1. PICK toShip \in [DOMAIN Lines(o) -> 0..MaxQty], qty \in BoundedQuantities :
        /\ \A k \in DOMAIN Lines(o) : WithinRemaining(Lines(o)[k], toShip[k])
        /\ \E k \in DOMAIN Lines(o) : toShip[k] > 0
        /\ IsPerProduct(qty, o, toShip)
        /\ tx' = [tx EXCEPT ![s] = [NoTx EXCEPT !.kind = "ship", !.order = o,
                                                !.toShip = toShip, !.qty = qty]]
  BY DEF StartShip
<1>2. PICK t : t = [NoTx EXCEPT !.kind = "ship", !.order = o, !.toShip = toShip, !.qty = qty]
  OBVIOUS
<1>3. PICK row \in OrderRow : row = order[o]
  BY DEF StartShip, Known, TypeOK
<1>4. /\ toShip \in Seq(Nat) /\ toShip \in [DOMAIN row.lines -> Nat]
      /\ row.lines \in Seq(OrderLine)
  <2>1. row.lines \in Seq(OrderLine) /\ toShip \in [DOMAIN row.lines -> 0..MaxQty]
    BY <1>3, RowTyped DEF Lines
  <2>2. DOMAIN row.lines = 1..Len(row.lines) /\ Len(row.lines) \in Nat
    BY <2>1
  <2>. QED  BY <2>1, <2>2, WarehouseAssumption
<1>5. /\ t \in Tx /\ t.kind = "ship" /\ t.order = o /\ t.doc = None /\ t.qty = qty
      /\ t.done = {} /\ t.checked = {} /\ t.toShip = toShip
  BY <1>2, <1>4, NoTxTyped, BoundedTyped DEF NoTx, Tx
<1>6. Ready(t, row)
  <2>1. row.status \in {"CONFIRMED", "SHIPPED"}
    BY <1>3 DEF StartShip, CanShipOrder
  <2>2. \A p \in Product : t.qty[p] = LineSum(row.lines, toShip, p)
    BY <1>1, <1>3, <1>5, PerProductIs DEF IsPerProduct, Lines
  <2>3. /\ \A k \in DOMAIN row.lines : toShip[k] <= row.lines[k].qty - row.lines[k].shipped
        /\ \E k \in DOMAIN row.lines : toShip[k] > 0
    BY <1>1, <1>3 DEF Lines, WithinRemaining
  <2>. QED  BY <1>4, <1>5, <2>1, <2>2, <2>3 DEF Ready
<1>. QED  BY <1>1, <1>2, <1>3, <1>5, <1>6, StartOnOrder DEF StartShip, OrderKinds

LEMMA StartPostKnown ==
  ASSUME Known, NEW s \in Session, NEW d \in Doc, StartPost(s, d)
  PROVE  Known'
<1>1. PICK t : t = [NoTx EXCEPT !.kind = "post", !.doc = d, !.qty = doc[d].items]
  OBVIOUS
<1>2. TypeOK /\ doc[d] \in DocRow
  BY DEF Known, TypeOK, StartPost
<1>3. /\ t \in Tx /\ t.kind = "post" /\ t.order = None /\ t.doc = d /\ t.qty = doc[d].items
      /\ t.done = {} /\ t.checked = {}
  BY <1>1, <1>2, NoTxTyped DEF NoTx, Tx, DocRow
<1>4. tx' = [tx EXCEPT ![s] = t] /\ tx'[s] = t
  BY <1>1, <1>2 DEF StartPost, TypeOK
<1>5. /\ docOwner' \in [Doc -> Session \cup {NoSession}] /\ docOwner'[d] = s
      /\ UNCHANGED order /\ UNCHANGED doc /\ UNCHANGED stock /\ UNCHANGED tables
      /\ UNCHANGED orderOwner /\ UNCHANGED stockOwner
  BY <1>2, AcquireTyped DEF StartPost, TypeOK, Acquire, tables
<1>6. ASSUME NEW u \in Session \ {s} PROVE Leaves(u)
  <2>1. \A x \in Doc : docOwner[x] = u => docOwner'[x] = u
    BY <1>2, AcquireLeaves DEF TypeOK, StartPost
  <2>. QED  BY <1>2, <1>4, <1>5, <2>1 DEF Leaves, TypeOK
<1>7. Decided(s)'
  BY <1>3, <1>4, <1>5 DEF Decided, OrderKinds, StartPost, NotPosted
<1>8. Written(s)'
  BY <1>3, <1>4 DEF Written
<1>. QED  BY <1>2, <1>3, <1>4, <1>5, <1>6, <1>7, <1>8, QuietKnown DEF TypeOK

LEMMA StartSellKnown ==
  ASSUME Known, NEW s \in Session, NEW items \in SaleRequest, StartSell(s, items)
  PROVE  Known'
<1>1. PICK t : t = [NoTx EXCEPT !.kind = "sell", !.qty = items]
  OBVIOUS
<1>2. TypeOK
  BY DEF Known
<1>3. /\ t \in Tx /\ t.kind = "sell" /\ t.order = None /\ t.doc = None
      /\ t.done = {} /\ t.checked = {}
  BY <1>1, NoTxTyped, WarehouseAssumption DEF NoTx, Tx
<1>4. tx' = [tx EXCEPT ![s] = t] /\ tx'[s] = t
  BY <1>1, <1>2 DEF StartSell, TypeOK
<1>5. /\ UNCHANGED tables /\ UNCHANGED order /\ UNCHANGED doc /\ UNCHANGED stock
      /\ UNCHANGED orderOwner /\ UNCHANGED docOwner /\ UNCHANGED stockOwner
  BY DEF StartSell, tables, owners
<1>6. \A u \in Session \ {s} : Leaves(u)
  BY <1>2, <1>4, <1>5 DEF Leaves, TypeOK
<1>7. Decided(s)' /\ Written(s)'
  BY <1>3, <1>4 DEF Decided, Written, OrderKinds
<1>. QED  BY <1>2, <1>3, <1>4, <1>5, <1>6, <1>7, QuietKnown DEF TypeOK

LEMMA StartKnown ==
  ASSUME Known, NEW s \in Session, Start(s)
  PROVE  Known'
<1>1. CASE StartRefused(s)
  <2>1. /\ UNCHANGED order /\ UNCHANGED doc /\ UNCHANGED stock /\ UNCHANGED sold /\ UNCHANGED tx
        /\ UNCHANGED orderOwner /\ UNCHANGED docOwner /\ UNCHANGED stockOwner
    BY <1>1 DEF StartRefused, vars, tables, owners
  <2>. QED  BY <2>1 DEF Known, TypeOK, RowsOK, Decided, Written
<1>2. CASE \E o \in Order : StartConfirm(s, o) \/ StartCancel(s, o) \/ StartShip(s, o)
  BY <1>2, StartConfirmKnown, StartCancelKnown, StartShipKnown
<1>3. CASE \E d \in Doc : StartPost(s, d)
  BY <1>3, StartPostKnown
<1>4. CASE \E items \in SaleRequest : StartSell(s, items)
  BY <1>4, StartSellKnown
<1>. QED  BY <1>1, <1>2, <1>3, <1>4 DEF Start

-----------------------------------------------------------------------------
(* New rows, and the balances one by one. *)

LEMMA CreateOrderKnown ==
  ASSUME Known, NEW o \in Order, NEW lines \in OrderRequest, CreateOrder(o, lines)
  PROVE  Known' /\ order' = [order EXCEPT ![o] = order'[o]] /\ order'[o] \in OrderRow
         /\ order'[o].status = "DRAFT" /\ ~AnyGone(order'[o])
<1>1. TypeOK /\ order[o] = None
  BY DEF Known, CreateOrder
<1>2. /\ lines \in Seq(RequestLine) /\ lines # <<>>
      /\ \A k \in DOMAIN lines : lines[k].product \in Product /\ lines[k].qty \in Nat \ {0}
  <2>1. lines \in Seq(RequestLine) /\ lines # <<>>
    BY WarehouseAssumption
  <2>2. \A k \in DOMAIN lines : lines[k] \in RequestLine
    BY <2>1
  <2>. QED  BY <2>1, <2>2 DEF RequestLine
<1>3. PICK made : made = [k \in DOMAIN lines |-> [product |-> lines[k].product, qty |-> lines[k].qty,
                                                  reserved |-> 0, shipped |-> 0]]
  OBVIOUS
<1>4. /\ DOMAIN made = DOMAIN lines
      /\ \A k \in DOMAIN lines : /\ made[k] \in OrderLine /\ made[k].shipped = 0
                                 /\ made[k].qty \in Nat \ {0}
  BY <1>2, <1>3 DEF OrderLine
<1>5. made \in Seq(OrderLine) /\ 1 \in DOMAIN made
  <2>1. DOMAIN lines = 1..Len(lines) /\ Len(lines) \in Nat /\ Len(lines) # 0
    BY <1>2
  <2>2. made \in [1..Len(lines) -> OrderLine]
    BY <1>3, <1>4, <2>1
  <2>. QED  BY <1>4, <2>1, <2>2
<1>6. PICK row : row = [status |-> "DRAFT", lines |-> made]
  OBVIOUS
<1>7. row \in OrderRow /\ row.status = "DRAFT" /\ row.lines = made
  BY <1>5, <1>6 DEF OrderRow
<1>8. ~AnyGone(row) /\ RowOK(row)
  BY <1>4, <1>5, <1>7 DEF AnyGone, AllGone, RowOK
<1>9. /\ order' = [order EXCEPT ![o] = row] /\ UNCHANGED doc /\ UNCHANGED stock /\ UNCHANGED sold
      /\ UNCHANGED tx /\ UNCHANGED orderOwner /\ UNCHANGED docOwner /\ UNCHANGED stockOwner
  BY <1>3, <1>6 DEF CreateOrder, owners
<1>10. TypeOK' /\ RowsOK'
  BY <1>1, <1>7, <1>8, <1>9 DEF Known, TypeOK, RowsOK
<1>11. \A u \in Session : Leaves(u)
  BY <1>1, <1>9 DEF Leaves, TypeOK
<1>12. \A u \in Session : Decided(u)' /\ Written(u)'
  BY <1>11, LeavesKnown DEF Known
<1>. QED  BY <1>1, <1>7, <1>8, <1>9, <1>10, <1>12 DEF Known, TypeOK

LEMMA CreateDocKnown ==
  ASSUME Known, NEW d \in Doc, NEW items \in DocRequest, CreateReceiptDoc(d, items)
  PROVE  Known'
<1>1. TypeOK /\ doc[d] = None
  BY DEF Known, CreateReceiptDoc
<1>2. items \in Quantities
  BY WarehouseAssumption
<1>3. /\ UNCHANGED order /\ UNCHANGED stock /\ UNCHANGED sold
      /\ UNCHANGED tx /\ UNCHANGED orderOwner /\ UNCHANGED docOwner /\ UNCHANGED stockOwner
      /\ doc' = [doc EXCEPT ![d] = [posted |-> FALSE, items |-> items]]
  BY DEF CreateReceiptDoc, owners
<1>4. [posted |-> FALSE, items |-> items] \in DocRow
  BY <1>2, Zenon DEF DocRow
<1>5. TypeOK' /\ RowsOK'
  BY <1>1, <1>3, <1>4 DEF Known, TypeOK, RowsOK
<1>6. \A u \in Session : Leaves(u)
  BY <1>1, <1>3 DEF Leaves, TypeOK
<1>7. \A u \in Session : Decided(u)' /\ Written(u)'
  BY <1>1, <1>6, LeavesKnown DEF Known
<1>. QED  BY <1>5, <1>7 DEF Known

LEMMA TakeRowKnown ==
  ASSUME Known, NEW s \in Session, NEW p \in Product, TakeRow(s, p), tx[s].qty[p] > 0,
         tx[s].kind = "confirm" => CanReserve(stock[p], tx[s].qty[p])
  PROVE  Known'
<1>1. TypeOK /\ Decided(s) /\ Written(s) /\ tx[s] \in Tx
  BY DEF Known, TypeOK
<1>2. PICK t : t = [tx[s] EXCEPT !.done = @ \cup {p}, !.checked = {}]
  OBVIOUS
<1>3. /\ t \in Tx /\ t.kind = tx[s].kind /\ t.order = tx[s].order /\ t.doc = tx[s].doc
      /\ t.toShip = tx[s].toShip /\ t.qty = tx[s].qty
      /\ t.done = tx[s].done \cup {p} /\ t.checked = {}
  BY <1>1, <1>2 DEF Tx
<1>4. tx' = [tx EXCEPT ![s] = t] /\ tx'[s] = t
  BY <1>1, <1>2 DEF TakeRow, TypeOK
<1>5. /\ stockOwner' \in [Product -> Session \cup {NoSession}]
      /\ stockOwner'[p] = s /\ \A x \in Product : stockOwner[x] = s => stockOwner'[x] = s
      /\ UNCHANGED order /\ UNCHANGED doc /\ UNCHANGED stock /\ UNCHANGED tables
      /\ UNCHANGED orderOwner /\ UNCHANGED docOwner
  BY <1>1, AcquireTyped DEF TakeRow, TypeOK, Acquire, tables
<1>6. ASSUME NEW u \in Session \ {s} PROVE Leaves(u)
  <2>1. \A x \in Product : stockOwner[x] = u => stockOwner'[x] = u
    BY <1>1, AcquireLeaves DEF TypeOK, TakeRow
  <2>. QED  BY <1>1, <1>4, <1>5, <2>1 DEF Leaves, TypeOK
<1>7. Decided(s)'
  <2>1. Ready(tx[s], order[tx[s].order]) => Ready(t, order[tx[s].order])
    BY <1>3 DEF Ready
  <2>. QED  BY <1>1, <1>3, <1>4, <1>5, <2>1 DEF Decided
<1>8. Written(s)'
  <2>1. tx[s].done \subseteq Product
    BY <1>1 DEF Tx
  <2>. QED  BY <1>1, <1>3, <1>4, <1>5, <2>1 DEF Written
<1>. QED  BY <1>1, <1>3, <1>4, <1>5, <1>6, <1>7, <1>8, QuietKnown DEF TypeOK

LEMMA TakeOutCheckKnown ==
  ASSUME Known, NEW s \in Session, NEW p \in Product, TakeOutCheck(s, p)
  PROVE  Known'
<1>1. TypeOK /\ Decided(s) /\ Written(s) /\ tx[s] \in Tx /\ tx[s].qty[p] > 0
  BY DEF Known, TypeOK, TakeOutCheck, LeftOf
<1>2. PICK t : t = [tx[s] EXCEPT !.checked = {p}]
  OBVIOUS
<1>3. /\ t \in Tx /\ t.kind = tx[s].kind /\ t.order = tx[s].order /\ t.doc = tx[s].doc
      /\ t.toShip = tx[s].toShip /\ t.qty = tx[s].qty
      /\ t.done = tx[s].done /\ t.checked = {p}
  BY <1>1, <1>2 DEF Tx
<1>4. tx' = [tx EXCEPT ![s] = t] /\ tx'[s] = t
  BY <1>1, <1>2 DEF TakeOutCheck, TypeOK
<1>5. /\ UNCHANGED tables /\ UNCHANGED order /\ UNCHANGED doc /\ UNCHANGED stock
      /\ UNCHANGED orderOwner /\ UNCHANGED docOwner /\ UNCHANGED stockOwner
  BY DEF TakeOutCheck, tables, owners
<1>6. \A u \in Session \ {s} : Leaves(u)
  BY <1>1, <1>4, <1>5 DEF Leaves, TypeOK
<1>7. Decided(s)'
  <2>1. Ready(tx[s], order[tx[s].order]) => Ready(t, order[tx[s].order])
    BY <1>3 DEF Ready
  <2>. QED  BY <1>1, <1>3, <1>4, <1>5, <2>1 DEF Decided
<1>8. Written(s)'
  BY <1>1, <1>3, <1>4, <1>5 DEF Written, TakeOutCheck
<1>. QED  BY <1>1, <1>3, <1>4, <1>5, <1>6, <1>7, <1>8, QuietKnown DEF TypeOK

-----------------------------------------------------------------------------
(* The end of a request. *)

LEMMA FinishLeaves ==
  ASSUME TypeOK, NEW s \in Session, Finish(s)
  PROVE  /\ tx' \in [Session -> Tx] /\ tx'[s] = NoTx /\ tx' = [tx EXCEPT ![s] = NoTx]
         /\ orderOwner' \in [Order -> Session \cup {NoSession}]
         /\ docOwner' \in [Doc -> Session \cup {NoSession}]
         /\ stockOwner' \in [Product -> Session \cup {NoSession}]
         /\ \A u \in Session \ {s} :
              /\ tx'[u] = tx[u]
              /\ \A o \in Order : orderOwner[o] = u => orderOwner'[o] = u
              /\ \A d \in Doc : docOwner[d] = u => docOwner'[d] = u
              /\ \A p \in Product : stockOwner[p] = u => stockOwner'[p] = u
BY NoTxTyped, ReleaseTyped DEF TypeOK, Finish

LEMMA EndedKnown ==
  ASSUME NEW s \in Session, tx'[s] = NoTx
  PROVE  Decided(s)' /\ Written(s)'
BY DEF Decided, Written, NoTx, OrderKinds

LEMMA RollbackKnown ==
  ASSUME Known, NEW s \in Session, Rollback(s)
  PROVE  Known'
<1>1. TypeOK /\ Finish(s) /\ UNCHANGED tables
  BY DEF Known, Rollback
<1>2. \A u \in Session \ {s} : Leaves(u)
  BY <1>1, FinishLeaves DEF Leaves, tables
<1>. QED  BY <1>1, <1>2, FinishLeaves, EndedKnown, NoTxTyped, QuietKnown

\* What the commit of a request on an order makes of it.
LEMMA CommitOrder ==
  ASSUME Known, NEW s \in Session, Commit(s), tx[s].kind \in OrderKinds,
         NEW o, o = tx[s].order
  PROVE  /\ o \in Order /\ order[o] \in OrderRow /\ RowOK(order[o]) /\ orderOwner[o] = s
         /\ Done(tx[s], order[o], order'[o])
         /\ order' = [order EXCEPT ![o] = order'[o]] /\ doc' = doc
<1>1. /\ TypeOK /\ Decided(s) /\ tx[s] \in Tx
      /\ o \in Order /\ order[o] # None /\ orderOwner[o] = s /\ Ready(tx[s], order[o])
  BY DEF Known, TypeOK, Decided
<1>2. order[o] \in OrderRow /\ RowOK(order[o])
  BY <1>1 DEF Known, RowsOK, TypeOK
<1>3. PICK t \in Tx, row \in OrderRow : t = tx[s] /\ row = order[o]
  BY <1>1, <1>2
<1>4. order'[o] = OrderAfter(s, o) /\ order' = [order EXCEPT ![o] = order'[o]]
  BY <1>1 DEF Commit, TypeOK
<1>5. doc' = doc
  BY <1>1, WarehouseAssumption DEF Commit, TypeOK, Decided, OrderKinds
<1>6. CASE t.kind = "confirm"
  <2>1. LinesAfter(s, o) = [k \in DOMAIN row.lines |->
                              [row.lines[k] EXCEPT !.reserved = row.lines[k].qty]]
    BY <1>3, <1>6 DEF LinesAfter, Lines
  <2>2. OrderAfter(s, o) = [status |-> "CONFIRMED",
                            lines |-> [k \in DOMAIN row.lines |->
                                         [row.lines[k] EXCEPT !.reserved = row.lines[k].qty]]]
    BY <1>3, <1>6, <2>1, Zenon DEF OrderAfter
  <2>3. Done(t, row, OrderAfter(s, o))
    BY <1>1, <1>2, <1>3, <1>6, <2>2, ConfirmDone
  <2>. QED  BY <1>1, <1>2, <1>3, <1>4, <1>5, <2>3
<1>7. CASE t.kind = "cancel"
  <2>1. LinesAfter(s, o) = row.lines
    <3>1. LinesAfter(s, o) = [k \in DOMAIN row.lines |-> row.lines[k]]
      BY <1>3, <1>7 DEF LinesAfter, Lines
    <3>2. row.lines \in Seq(OrderLine)
      BY RowTyped
    <3>. QED  BY <3>1, <3>2
  <2>2. OrderAfter(s, o) = [status |-> "CANCELED", lines |-> row.lines]
    BY <1>3, <1>7, <2>1, Zenon DEF OrderAfter
  <2>3. Done(t, row, OrderAfter(s, o))
    BY <1>1, <1>2, <1>3, <1>7, <2>2, CancelDone
  <2>. QED  BY <1>1, <1>2, <1>3, <1>4, <1>5, <2>3
<1>8. CASE t.kind = "ship"
  <2>1. LinesAfter(s, o) = [k \in DOMAIN row.lines |->
                              [row.lines[k] EXCEPT !.shipped = @ + t.toShip[k]]]
    BY <1>3, <1>8 DEF LinesAfter, Lines
  <2>2. StatusAfterShip(o, t.toShip) = IF Remaining(row, t.toShip) <= 0 THEN "COMPLETED" ELSE "SHIPPED"
    BY <1>3, Zenon DEF StatusAfterShip, RemainingTotal, Remaining, Lines
  <2>3. OrderAfter(s, o) = AfterShip(row, t.toShip)
    BY <1>3, <1>8, <2>1, <2>2, Zenon DEF OrderAfter, AfterShip
  <2>4. Done(t, row, OrderAfter(s, o))
    BY <1>1, <1>2, <1>3, <1>8, <2>3, ShipDone
  <2>. QED  BY <1>1, <1>2, <1>3, <1>4, <1>5, <2>4
<1>. QED  BY <1>3, <1>6, <1>7, <1>8 DEF OrderKinds

LEMMA CommitNoOrder ==
  ASSUME Known, NEW s \in Session, Commit(s), tx[s].kind \notin OrderKinds
  PROVE  order' = order
BY WarehouseAssumption DEF Commit, Known, TypeOK, Decided

\* The documents once d is posted.
WithPosted(docs, d) == [docs EXCEPT ![d] = [docs[d] EXCEPT !.posted = TRUE]]

LEMMA CommitDoc ==
  ASSUME Known, NEW s \in Session, Commit(s)
  PROVE  IF tx[s].kind = "post"
         THEN /\ tx[s].doc \in Doc /\ doc[tx[s].doc] \in DocRow /\ docOwner[tx[s].doc] = s
              /\ ~doc[tx[s].doc].posted /\ tx[s].qty = doc[tx[s].doc].items
              /\ doc' = WithPosted(doc, tx[s].doc)
         ELSE doc' = doc
<1>1. CASE tx[s].kind = "post"
  <2>1. PICK d : d = tx[s].doc
    OBVIOUS
  <2>2. /\ d \in Doc /\ doc[d] # None /\ docOwner[d] = s
        /\ ~doc[d].posted /\ tx[s].qty = doc[d].items
    BY <1>1, <2>1 DEF Known, Decided
  <2>3. doc[d] \in DocRow /\ doc \in [Doc -> DocRow \cup {None}]
    BY <2>2 DEF Known, TypeOK
  <2>4. PICK row : row = [doc[d] EXCEPT !.posted = TRUE]
    OBVIOUS
  <2>5. doc' = [x \in Doc |-> IF x = d THEN row ELSE doc[x]]
    <3>1. doc' = [x \in Doc |-> IF x = d THEN [doc[x] EXCEPT !.posted = TRUE] ELSE doc[x]]
      BY <2>1 DEF Commit
    <3>. QED  BY <2>4, <3>1
  <2>6. doc' = [doc EXCEPT ![d] = row]
    BY <2>2, <2>3, <2>5
  <2>7. doc' = WithPosted(doc, d)
    BY <2>4, <2>6, Zenon DEF WithPosted
  <2>. QED  BY <1>1, <2>1, <2>2, <2>3, <2>7
<1>2. CASE tx[s].kind # "post"
  BY <1>2, WarehouseAssumption DEF Commit, Known, TypeOK, Decided
<1>. QED  BY <1>1, <1>2, Zenon

\* What a commit takes from the stock of p and adds to its reserve.
TakenOut(t, p) == IF t.kind \in {"ship", "sell"} THEN t.qty[p]
                  ELSE IF t.kind = "post" THEN 0 - t.qty[p] ELSE 0
ReserveOf(t, row, p) == IF t.kind = "confirm" THEN row.reserved + t.qty[p]
                        ELSE IF t.kind \in {"cancel", "ship"}
                             THEN NotBelowZero(row.reserved - t.qty[p])
                        ELSE row.reserved

LEMMA CommitStock ==
  ASSUME Known, NEW s \in Session, Commit(s)
  PROVE  /\ stock' \in [Product -> Row] /\ sold' \in Quantities
         /\ \A p \in Product :
              /\ stock'[p].quantity = stock[p].quantity - TakenOut(tx[s], p)
              /\ stock'[p].reserved = ReserveOf(tx[s], stock[p], p)
              /\ sold'[p] = sold[p] + (IF tx[s].kind = "sell" THEN tx[s].qty[p] ELSE 0)
              /\ p \notin tx[s].done => tx[s].qty[p] = 0 /\ stock'[p] = stock[p]
<1>1. TypeOK /\ tx[s] \in Tx
  BY DEF Known, TypeOK
<1>2. PICK t \in Tx : t = tx[s]
  BY <1>1
<1>3. /\ t.kind \in {"confirm", "cancel", "ship", "post", "sell"}
      /\ \A p \in Product : t.qty[p] \in Nat /\ stock[p] \in Row /\ sold[p] \in Nat
      /\ \A p \in Product : /\ stock[p].quantity \in Int /\ stock[p].reserved \in Nat
                            /\ stock[p] = [quantity |-> stock[p].quantity, reserved |-> stock[p].reserved]
  BY <1>1, <1>2 DEF TypeOK, Tx, Quantities, Row, Commit, Idle
<1>4. ASSUME NEW p \in Product, p \notin t.done PROVE t.qty[p] = 0
  BY <1>2, <1>3, <1>4 DEF Commit, LeftOf
<1>5. ASSUME NEW p \in Product
      PROVE  /\ stock'[p] \in Row
             /\ stock'[p].quantity = stock[p].quantity - TakenOut(t, p)
             /\ stock'[p].reserved = ReserveOf(t, stock[p], p)
             /\ p \notin t.done => stock'[p] = stock[p]
  <2>1. stock'[p] = IF p \in t.done THEN RowAfter(s, p) ELSE stock[p]
    BY <1>2 DEF Commit
  <2>2. PICK q \in Nat, a \in Int, r \in Nat :
           /\ q = t.qty[p] /\ a = stock[p].quantity /\ r = stock[p].reserved
           /\ stock[p] = [quantity |-> a, reserved |-> r]
    BY <1>3
  <2>3. CASE p \notin t.done
    <3>1. q = 0
      BY <1>4, <2>2, <2>3
    <3>. QED  BY <1>3, <2>1, <2>2, <2>3, <3>1 DEF TakenOut, ReserveOf, NotBelowZero
  <2>4. CASE p \in t.done
    <3>1. stock'[p] = CASE t.kind = "confirm" -> Reserved(stock[p], q)
                        [] t.kind = "cancel" -> Released(stock[p], q)
                        [] t.kind = "ship" -> Shipped(stock[p], q)
                        [] t.kind = "post" -> Added(stock[p], q)
                        [] t.kind = "sell" -> Deducted(stock[p], q)
      BY <1>2, <2>1, <2>2, <2>4, Zenon DEF RowAfter
    <3>2. CASE t.kind = "confirm"
      BY <2>2, <2>4, <3>1, <3>2 DEF Reserved, TakenOut, ReserveOf, Row
    <3>3. CASE t.kind = "cancel"
      BY <2>2, <2>4, <3>1, <3>3 DEF Released, TakenOut, ReserveOf, Row, NotBelowZero
    <3>4. CASE t.kind = "ship"
      BY <2>2, <2>4, <3>1, <3>4 DEF Shipped, TakenOut, ReserveOf, Row, NotBelowZero
    <3>5. CASE t.kind = "post"
      BY <2>2, <2>4, <3>1, <3>5 DEF Added, TakenOut, ReserveOf, Row
    <3>6. CASE t.kind = "sell"
      BY <2>2, <2>4, <3>1, <3>6 DEF Deducted, TakenOut, ReserveOf, Row
    <3>. QED  BY <1>3, <3>2, <3>3, <3>4, <3>5, <3>6
  <2>. QED  BY <2>3, <2>4
<1>6. stock' = [p \in Product |-> stock'[p]] /\ stock' \in [Product -> Row]
  <2>1. stock' = [p \in Product |-> IF p \in tx[s].done THEN RowAfter(s, p) ELSE stock[p]]
    BY DEF Commit
  <2>. QED  BY <1>5, <2>1
<1>7. /\ sold' \in Quantities
      /\ \A p \in Product : sold'[p] = sold[p] + (IF t.kind = "sell" THEN t.qty[p] ELSE 0)
  BY <1>2, <1>3 DEF Commit, Quantities
<1>. QED  BY <1>2, <1>4, <1>5, <1>6, <1>7

LEMMA CommitKnown ==
  ASSUME Known, NEW s \in Session, Commit(s)
  PROVE  Known'
<1>1. TypeOK /\ tx[s] \in Tx /\ Finish(s)
  BY DEF Known, TypeOK, Commit
<1>2. order' \in [Order -> OrderRow \cup {None}] /\ RowsOK'
  <2>1. CASE tx[s].kind \in OrderKinds
    <3>1. PICK o : o = tx[s].order
      OBVIOUS
    <3>2. o \in Order /\ Done(tx[s], order[o], order'[o]) /\ order' = [order EXCEPT ![o] = order'[o]]
      BY <2>1, <3>1, CommitOrder
    <3>3. order'[o] \in OrderRow /\ RowOK(order'[o])
      BY <3>2 DEF Done
    <3>. QED  BY <1>1, <3>2, <3>3 DEF Known, TypeOK, RowsOK
  <2>2. CASE tx[s].kind \notin OrderKinds
    <3>1. order' = order
      BY <2>2, CommitNoOrder
    <3>. QED  BY <1>1, <3>1 DEF Known, TypeOK, RowsOK
  <2>. QED  BY <2>1, <2>2
<1>3. doc' \in [Doc -> DocRow \cup {None}]
  <2>1. CASE tx[s].kind = "post"
    <3>1. PICK d : d = tx[s].doc
      OBVIOUS
    <3>2. d \in Doc /\ doc[d] \in DocRow /\ doc' = WithPosted(doc, d)
      BY <2>1, <3>1, CommitDoc
    <3>3. [doc[d] EXCEPT !.posted = TRUE] \in DocRow
      BY <3>2, Zenon DEF DocRow
    <3>. QED  BY <1>1, <3>2, <3>3 DEF TypeOK, WithPosted
  <2>2. CASE tx[s].kind # "post"
    BY <1>1, <2>2, CommitDoc DEF TypeOK
  <2>. QED  BY <2>1, <2>2
<1>4. TypeOK'
  BY <1>1, <1>2, <1>3, CommitStock, FinishLeaves DEF TypeOK
<1>5. ASSUME NEW u \in Session \ {s} PROVE Leaves(u)
  <2>1. \A o \in Order : orderOwner[o] = u => order'[o] = order[o]
    BY <1>1, CommitOrder, CommitNoOrder DEF TypeOK
  <2>2. \A d \in Doc : docOwner[d] = u => doc'[d] = doc[d]
    <3>1. CASE tx[s].kind = "post"
      BY <1>1, <3>1, CommitDoc DEF TypeOK, WithPosted
    <3>2. CASE tx[s].kind # "post"
      BY <3>2, CommitDoc
    <3>. QED  BY <3>1, <3>2
  <2>3. \A p \in Product : stockOwner[p] = u => stock'[p] = stock[p]
    BY CommitStock DEF Known, Written
  <2>. QED  BY <1>1, <2>1, <2>2, <2>3, FinishLeaves DEF Leaves
<1>6. \A u \in Session \ {s} : Decided(u)' /\ Written(u)'
  BY <1>1, <1>5, LeavesKnown DEF Known
<1>7. Decided(s)' /\ Written(s)'
  BY <1>1, FinishLeaves, EndedKnown
<1>. QED  BY <1>2, <1>4, <1>6, <1>7 DEF Known

LEMMA StepKnown ==
  ASSUME Known, NEW s \in Session, Step(s)
  PROVE  Known'
<1>1. ASSUME NEW p \in Product, ReserveWrite(s, p) PROVE Known'
  BY <1>1, TakeRowKnown DEF ReserveWrite, LeftOf
<1>2. ASSUME NEW p \in Product, ReleaseOrAddWrite(s, p) PROVE Known'
  BY <1>2, TakeRowKnown DEF ReleaseOrAddWrite, LeftOf
<1>3. ASSUME NEW p \in Product, TakeOutWrite(s, p) PROVE Known'
  <2>1. tx[s].qty[p] > 0 /\ TakeRow(s, p)
    BY <1>3 DEF TakeOutWrite, Known, Written
  <2>2. CASE tx[s].kind # "confirm"
    BY <2>1, <2>2, TakeRowKnown
  <2>3. CASE tx[s].kind = "confirm"
    BY <1>3, <2>1, <2>3, TakeRowKnown DEF TakeOutWrite, Known, Written
  <2>. QED  BY <2>2, <2>3
<1>4. ASSUME Commit(s) \/ Refuse(s) \/ DetectDeadlock(s) PROVE Known'
  BY <1>4, CommitKnown, RollbackKnown DEF Refuse, DetectDeadlock
<1>. QED  BY <1>1, <1>2, <1>3, <1>4, TakeOutCheckKnown DEF Step

LEMMA NextKnown ==
  ASSUME Known, [Next]_vars
  PROVE  Known'
<1>1. CASE UNCHANGED vars
  <2>1. /\ UNCHANGED order /\ UNCHANGED doc /\ UNCHANGED stock /\ UNCHANGED sold /\ UNCHANGED tx
        /\ UNCHANGED orderOwner /\ UNCHANGED docOwner /\ UNCHANGED stockOwner
    BY <1>1 DEF vars, tables, owners
  <2>. QED  BY <2>1 DEF Known, TypeOK, RowsOK, Decided, Written
<1>2. ASSUME NEW o \in Order, NEW lines \in OrderRequest, CreateOrder(o, lines) PROVE Known'
  BY <1>2, CreateOrderKnown
<1>3. ASSUME NEW d \in Doc, NEW items \in DocRequest, CreateReceiptDoc(d, items) PROVE Known'
  BY <1>3, CreateDocKnown
<1>4. ASSUME NEW s \in Session, Start(s) \/ Step(s) \/ Fail(s) PROVE Known'
  BY <1>4, StartKnown, StepKnown, RollbackKnown DEF Fail
<1>. QED  BY <1>1, <1>2, <1>3, <1>4 DEF Next

LEMMA InitKnown == Init => Known
<1>. SUFFICES ASSUME Init PROVE Known
  OBVIOUS
<1>1. Zero \in Quantities
  BY DEF Zero, Quantities
<1>2. TypeOK
  BY <1>1, NoTxTyped, WarehouseAssumption DEF Init, TypeOK
<1>3. RowsOK /\ \A s \in Session : Decided(s) /\ Written(s)
  BY DEF Init, RowsOK, Decided, Written, NoTx, OrderKinds
<1>. QED  BY <1>2, <1>3 DEF Known

\* The requests keep what they have decided, whatever runs beside them.
THEOREM Invariance == Spec => []Known
<1>1. Known /\ [Next]_vars => Known'
  BY NextKnown
<1>. QED  BY InitKnown, <1>1, PTL DEF Spec

\* However many shipments, confirmations and cancellations overlap, no line is
\* shipped beyond its quantity and the status says what has been shipped.
THEOREM ShipmentsAgreeHolds == Spec => []ShipmentsAgree
<1>1. Known => ShipmentsAgree
  <2>. SUFFICES ASSUME Known PROVE ShipmentsAgree
    OBVIOUS
  <2>1. ASSUME NEW o \in Orders
        PROVE  /\ RowOK(order[o])
               /\ \A k \in DOMAIN Lines(o) : Lines(o)[k].shipped \in Nat /\ Lines(o)[k].qty \in Nat
    <3>1. order[o] \in OrderRow /\ RowOK(order[o])
      BY DEF Orders, Known, RowsOK, TypeOK
    <3>. QED  BY <3>1, RowTyped DEF Lines
  <2>2. ShippedWithinOrdered
    BY <2>1 DEF ShippedWithinOrdered, RowOK, AnyGone, Lines
  <2>3. CompletedIsShipped
    BY <2>1 DEF CompletedIsShipped, RowOK, AllGone, Lines
  <2>. QED  BY <2>2, <2>3 DEF ShipmentsAgree, Known
<1>. QED  BY <1>1, Invariance, PTL

\* Only a commit of a request that holds the order changes it.
LEMMA OrderChanges ==
  ASSUME Known, [Next]_vars, NEW o \in Orders, order'[o] # order[o]
  PROVE  <<order[o].status, order'[o].status>> \in Moves
<1>1. o \in Order /\ order[o] # None /\ TypeOK
  BY DEF Orders, Known
<1>2. CASE UNCHANGED order
  BY <1>2
<1>3. ASSUME NEW x \in Order, NEW lines \in OrderRequest, CreateOrder(x, lines)
      PROVE  FALSE
  BY <1>1, <1>3, CreateOrderKnown DEF TypeOK, CreateOrder
<1>4. ASSUME NEW s \in Session, Commit(s)
      PROVE  <<order[o].status, order'[o].status>> \in Moves
  <2>1. tx[s].kind \in OrderKinds
    BY <1>4, CommitNoOrder
  <2>2. PICK x : x = tx[s].order
    OBVIOUS
  <2>3. x \in Order /\ Done(tx[s], order[x], order'[x]) /\ order' = [order EXCEPT ![x] = order'[x]]
    BY <1>4, <2>1, <2>2, CommitOrder
  <2>4. x = o
    BY <1>1, <2>3 DEF TypeOK
  <2>. QED  BY <2>3, <2>4 DEF Done
<1>5. UNCHANGED order
        \/ (\E x \in Order, lines \in OrderRequest : CreateOrder(x, lines))
        \/ \E s \in Session : Commit(s)
  BY DEF Next, vars, tables, CreateReceiptDoc, Start, StartConfirm, StartCancel, StartShip, StartPost,
         StartSell, StartRefused, Step, ReserveWrite, ReleaseOrAddWrite, TakeOutCheck, TakeOutWrite,
         TakeRow, Refuse, DetectDeadlock, Fail, Rollback
<1>. QED  BY <1>2, <1>3, <1>4, <1>5

\* A canceled or completed order never changes again, and no order goes back.
THEOREM OrdersMoveOn == Spec => StatusMovesOn
<1> DEFINE Moved == \A o \in Orders : \/ order'[o] = order[o]
                                      \/ <<order[o].status, order'[o].status>> \in Moves
<1>1. Known /\ [Next]_vars => Moved
  BY OrderChanges
<1>2. Spec => [][Moved]_vars
  BY <1>1, Invariance, PTL DEF Spec
<1>. QED  BY <1>2 DEF StatusMovesOn, Moves

-----------------------------------------------------------------------------
(* The books: the balances against the orders and the documents. *)

CreatedIn(table) == {o \in Order : table[o] # None}
OpenIn(table) == {o \in Order : table[o] # None /\ table[o].status \in {"CONFIRMED", "SHIPPED"}}
LeftIn(table) == {o \in Order : table[o] # None /\ table[o].status = "CANCELED" /\ AnyGone(table[o])}
PostedIn(docs) == {d \in Doc : docs[d] # None /\ docs[d].posted}

OpenSum(table, p) == SumFunctionOnSet([o \in OpenIn(table) |-> Owed(table[o], p)], OpenIn(table))
LeftSum(table, p) == SumFunctionOnSet([o \in LeftIn(table) |-> Owed(table[o], p)], LeftIn(table))
GoneSum(table, p) == SumFunctionOnSet([o \in CreatedIn(table) |-> Gone(table[o], p)], CreatedIn(table))
PostedSum(docs, p) == SumFunctionOnSet([d \in PostedIn(docs) |-> docs[d].items[p]], PostedIn(docs))

\* A table of finitely many orders that are each in order.
OrderTable(table) ==
  /\ IsFiniteSet(CreatedIn(table))
  /\ \A o \in Order : table[o] # None => table[o] \in OrderRow /\ RowOK(table[o])

LEMMA TableSums ==
  ASSUME NEW table, OrderTable(table), NEW p
  PROVE  /\ IsFiniteSet(OpenIn(table)) /\ IsFiniteSet(LeftIn(table)) /\ IsFiniteSet(CreatedIn(table))
         /\ \A o \in OpenIn(table) : Owed(table[o], p) \in Nat
         /\ \A o \in LeftIn(table) : Owed(table[o], p) \in Nat
         /\ \A o \in CreatedIn(table) : Gone(table[o], p) \in Nat
<1>1. /\ OpenIn(table) \subseteq CreatedIn(table) /\ LeftIn(table) \subseteq CreatedIn(table)
      /\ IsFiniteSet(CreatedIn(table))
  BY DEF OpenIn, LeftIn, CreatedIn, OrderTable
<1>2. IsFiniteSet(OpenIn(table)) /\ IsFiniteSet(LeftIn(table))
  BY <1>1, FS_Subset
<1>3. \A o \in CreatedIn(table) : Owed(table[o], p) \in Nat /\ Gone(table[o], p) \in Nat
  BY ClaimsAreNaturals DEF CreatedIn, OrderTable
<1>. QED  BY <1>1, <1>2, <1>3

LEMMA SumsAreNaturals ==
  ASSUME NEW table, OrderTable(table), NEW p
  PROVE  OpenSum(table, p) \in Nat /\ LeftSum(table, p) \in Nat /\ GoneSum(table, p) \in Nat
<1>1. PICK f, g, h : /\ f = [o \in OpenIn(table) |-> Owed(table[o], p)]
                     /\ g = [o \in LeftIn(table) |-> Owed(table[o], p)]
                     /\ h = [o \in CreatedIn(table) |-> Gone(table[o], p)]
  OBVIOUS
<1>2. /\ \A o \in OpenIn(table) : f[o] \in Nat
      /\ \A o \in LeftIn(table) : g[o] \in Nat
      /\ \A o \in CreatedIn(table) : h[o] \in Nat
  BY <1>1, TableSums
<1>3. OpenSum(table, p) = SumFunctionOnSet(f, OpenIn(table))
  BY <1>1 DEF OpenSum
<1>4. LeftSum(table, p) = SumFunctionOnSet(g, LeftIn(table))
  BY <1>1 DEF LeftSum
<1>5. GoneSum(table, p) = SumFunctionOnSet(h, CreatedIn(table))
  BY <1>1 DEF GoneSum
<1>. QED  BY <1>2, <1>3, <1>4, <1>5, TableSums, SumOfNaturals

LEMMA OpenSumChanges ==
  ASSUME NEW table, NEW new, OrderTable(table), OrderTable(new), NEW o \in Order,
         \A x \in Order \ {o} : new[x] = table[x], NEW p
  PROVE  /\ OpenSum(new, p) \in Nat /\ OpenSum(table, p) \in Nat
         /\ OpenSum(new, p) - OpenClaim(new[o], p) = OpenSum(table, p) - OpenClaim(table[o], p)
         /\ OpenClaim(table[o], p) <= OpenSum(table, p)
<1> DEFINE F(t) == [x \in OpenIn(t) |-> Owed(t[x], p)]
<1>1. /\ IsFiniteSet(OpenIn(table)) /\ \A x \in OpenIn(table) : F(table)[x] \in Nat
      /\ IsFiniteSet(OpenIn(new)) /\ \A x \in OpenIn(new) : F(new)[x] \in Nat
  BY TableSums
<1>2. Summable(F(table), OpenIn(table)) /\ Summable(F(new), OpenIn(new))
  BY <1>1 DEF Summable
<1>3. OpenIn(new) \ {o} = OpenIn(table) \ {o}
  BY DEF OpenIn
<1>4. \A y \in OpenIn(new) \ {o} : F(new)[y] = F(table)[y]
  BY <1>3 DEF OpenIn
<1>5. /\ OpenClaim(new[o], p) = PartOf(F(new), OpenIn(new), o)
      /\ OpenClaim(table[o], p) = PartOf(F(table), OpenIn(table), o)
  BY DEF OpenClaim, OpenIn, PartOf
<1>6. OpenSum(new, p) = SumFunctionOnSet(F(new), OpenIn(new))
      /\ OpenSum(table, p) = SumFunctionOnSet(F(table), OpenIn(table))
  BY DEF OpenSum
<1> HIDE DEF F
<1>7. OpenSum(new, p) \in Nat /\ OpenSum(table, p) \in Nat
      /\ \A x \in OpenIn(table) : F(table)[x] <= OpenSum(table, p)
  BY <1>1, <1>6, SumOfNaturals
<1>8. OpenSum(new, p) - OpenClaim(new[o], p) = OpenSum(table, p) - OpenClaim(table[o], p)
  <2>1. OneDiffers(F(new), OpenIn(new), F(table), OpenIn(table), o)
    BY <1>2, <1>3, <1>4 DEF OneDiffers
  <2>2. SumFunctionOnSet(F(new), OpenIn(new)) - PartOf(F(new), OpenIn(new), o)
          = SumFunctionOnSet(F(table), OpenIn(table)) - PartOf(F(table), OpenIn(table), o)
    BY <2>1, SumAtOne
  <2>. QED  BY <1>5, <1>6, <2>2
<1>9. OpenClaim(table[o], p) <= OpenSum(table, p)
  BY <1>5, <1>7 DEF PartOf
<1>. QED  BY <1>7, <1>8, <1>9

LEMMA LeftSumChanges ==
  ASSUME NEW table, NEW new, OrderTable(table), OrderTable(new), NEW o \in Order,
         \A x \in Order \ {o} : new[x] = table[x], NEW p
  PROVE  /\ LeftSum(new, p) \in Nat /\ LeftSum(table, p) \in Nat
         /\ LeftSum(new, p) - LeftClaim(new[o], p) = LeftSum(table, p) - LeftClaim(table[o], p)
<1> DEFINE F(t) == [x \in LeftIn(t) |-> Owed(t[x], p)]
<1>1. /\ IsFiniteSet(LeftIn(table)) /\ \A x \in LeftIn(table) : F(table)[x] \in Nat
      /\ IsFiniteSet(LeftIn(new)) /\ \A x \in LeftIn(new) : F(new)[x] \in Nat
  BY TableSums
<1>2. Summable(F(table), LeftIn(table)) /\ Summable(F(new), LeftIn(new))
  BY <1>1 DEF Summable
<1>3. LeftIn(new) \ {o} = LeftIn(table) \ {o}
  BY DEF LeftIn
<1>4. \A y \in LeftIn(new) \ {o} : F(new)[y] = F(table)[y]
  BY <1>3 DEF LeftIn
<1>5. /\ LeftClaim(new[o], p) = PartOf(F(new), LeftIn(new), o)
      /\ LeftClaim(table[o], p) = PartOf(F(table), LeftIn(table), o)
  BY DEF LeftClaim, LeftIn, PartOf
<1>6. LeftSum(new, p) = SumFunctionOnSet(F(new), LeftIn(new))
      /\ LeftSum(table, p) = SumFunctionOnSet(F(table), LeftIn(table))
  BY DEF LeftSum
<1> HIDE DEF F
<1>7. LeftSum(new, p) \in Nat /\ LeftSum(table, p) \in Nat
  BY <1>1, <1>6, SumOfNaturals
<1>8. LeftSum(new, p) - LeftClaim(new[o], p) = LeftSum(table, p) - LeftClaim(table[o], p)
  <2>1. OneDiffers(F(new), LeftIn(new), F(table), LeftIn(table), o)
    BY <1>2, <1>3, <1>4 DEF OneDiffers
  <2>2. SumFunctionOnSet(F(new), LeftIn(new)) - PartOf(F(new), LeftIn(new), o)
          = SumFunctionOnSet(F(table), LeftIn(table)) - PartOf(F(table), LeftIn(table), o)
    BY <2>1, SumAtOne
  <2>. QED  BY <1>5, <1>6, <2>2
<1>. QED  BY <1>7, <1>8

LEMMA GoneSumChanges ==
  ASSUME NEW table, NEW new, OrderTable(table), OrderTable(new), NEW o \in Order,
         \A x \in Order \ {o} : new[x] = table[x], NEW p
  PROVE  /\ GoneSum(new, p) \in Nat /\ GoneSum(table, p) \in Nat
         /\ GoneSum(new, p) - GoneClaim(new[o], p) = GoneSum(table, p) - GoneClaim(table[o], p)
<1> DEFINE F(t) == [x \in CreatedIn(t) |-> Gone(t[x], p)]
<1>1. /\ IsFiniteSet(CreatedIn(table)) /\ \A x \in CreatedIn(table) : F(table)[x] \in Nat
      /\ IsFiniteSet(CreatedIn(new)) /\ \A x \in CreatedIn(new) : F(new)[x] \in Nat
  BY TableSums
<1>2. Summable(F(table), CreatedIn(table)) /\ Summable(F(new), CreatedIn(new))
  BY <1>1 DEF Summable
<1>3. CreatedIn(new) \ {o} = CreatedIn(table) \ {o}
  BY DEF CreatedIn
<1>4. \A y \in CreatedIn(new) \ {o} : F(new)[y] = F(table)[y]
  BY <1>3 DEF CreatedIn
<1>5. /\ GoneClaim(new[o], p) = PartOf(F(new), CreatedIn(new), o)
      /\ GoneClaim(table[o], p) = PartOf(F(table), CreatedIn(table), o)
  BY DEF GoneClaim, CreatedIn, PartOf
<1>6. GoneSum(new, p) = SumFunctionOnSet(F(new), CreatedIn(new))
      /\ GoneSum(table, p) = SumFunctionOnSet(F(table), CreatedIn(table))
  BY DEF GoneSum
<1> HIDE DEF F
<1>7. GoneSum(new, p) \in Nat /\ GoneSum(table, p) \in Nat
  BY <1>1, <1>6, SumOfNaturals
<1>8. GoneSum(new, p) - GoneClaim(new[o], p) = GoneSum(table, p) - GoneClaim(table[o], p)
  <2>1. OneDiffers(F(new), CreatedIn(new), F(table), CreatedIn(table), o)
    BY <1>2, <1>3, <1>4 DEF OneDiffers
  <2>2. SumFunctionOnSet(F(new), CreatedIn(new)) - PartOf(F(new), CreatedIn(new), o)
          = SumFunctionOnSet(F(table), CreatedIn(table)) - PartOf(F(table), CreatedIn(table), o)
    BY <2>1, SumAtOne
  <2>. QED  BY <1>5, <1>6, <2>2
<1>. QED  BY <1>7, <1>8

LEMMA PostedSumGrows ==
  ASSUME NEW docs \in [Doc -> DocRow \cup {None}], IsFiniteSet(PostedIn(docs)),
         NEW d \in Doc, docs[d] \in DocRow, ~docs[d].posted, NEW p \in Product,
         NEW new, new = WithPosted(docs, d)
  PROVE  /\ IsFiniteSet(PostedIn(new)) /\ PostedSum(docs, p) \in Int
         /\ PostedSum(new, p) = PostedSum(docs, p) + docs[d].items[p]
<1> DEFINE F(t) == [x \in PostedIn(t) |-> t[x].items[p]]
<1>1. PICK row : row = [docs[d] EXCEPT !.posted = TRUE]
  OBVIOUS
<1>2. /\ row \in DocRow /\ row.posted /\ row.items = docs[d].items
  BY <1>1, Zenon DEF DocRow
<1>3. /\ new = [docs EXCEPT ![d] = row] /\ new[d] = row /\ row # None /\ docs[d] # None
      /\ new \in [Doc -> DocRow \cup {None}] /\ \A x \in Doc \ {d} : new[x] = docs[x]
  BY <1>1, <1>2, WarehouseAssumption DEF WithPosted
<1>4. PostedIn(new) = PostedIn(docs) \cup {d} /\ d \notin PostedIn(docs)
  BY <1>2, <1>3 DEF PostedIn
<1>5. IsFiniteSet(PostedIn(new))
  <2>1. IsFiniteSet(PostedIn(docs) \cup {d})
    BY FS_AddElement
  <2>. QED  BY <1>4, <2>1
<1>6. \A x \in PostedIn(docs) : docs[x].items[p] \in Nat
  BY DEF PostedIn, DocRow, Quantities
<1>7. \A x \in PostedIn(new) : new[x].items[p] \in Nat
  BY <1>3 DEF PostedIn, DocRow, Quantities
<1>8. (\A x \in PostedIn(docs) : F(docs)[x] \in Int) /\ (\A x \in PostedIn(new) : F(new)[x] \in Int)
  <2>1. ASSUME NEW x \in PostedIn(docs) PROVE F(docs)[x] \in Int
    <3>1. F(docs)[x] = docs[x].items[p]
      OBVIOUS
    <3>. QED  BY <1>6, <3>1
  <2>2. ASSUME NEW x \in PostedIn(new) PROVE F(new)[x] \in Int
    <3>1. F(new)[x] = new[x].items[p]
      OBVIOUS
    <3>. QED  BY <1>7, <3>1
  <2>. QED  BY <2>1, <2>2
<1>9. /\ PostedIn(new) \ {d} = PostedIn(docs) \ {d}
      /\ \A y \in PostedIn(new) \ {d} : F(new)[y] = F(docs)[y]
  BY <1>3, <1>4 DEF PostedIn
<1>10. F(new)[d] = docs[d].items[p] /\ F(new)[d] \in Nat
  BY <1>2, <1>3, <1>4, <1>7
<1>11. /\ PostedSum(new, p) = SumFunctionOnSet(F(new), PostedIn(new))
       /\ PostedSum(docs, p) = SumFunctionOnSet(F(docs), PostedIn(docs))
  BY DEF PostedSum
<1> HIDE DEF F
<1>12. OneDiffers(F(new), PostedIn(new), F(docs), PostedIn(docs), d)
  BY <1>5, <1>8, <1>9 DEF OneDiffers, Summable
<1>13. /\ SumFunctionOnSet(F(new), PostedIn(new)) - PartOf(F(new), PostedIn(new), d)
            = SumFunctionOnSet(F(docs), PostedIn(docs)) - PartOf(F(docs), PostedIn(docs), d)
       /\ SumFunctionOnSet(F(new), PostedIn(new)) \in Int
       /\ SumFunctionOnSet(F(docs), PostedIn(docs)) \in Int
  BY <1>12, SumAtOne
<1>14. PartOf(F(new), PostedIn(new), d) = F(new)[d] /\ PartOf(F(docs), PostedIn(docs), d) = 0
  BY <1>4 DEF PartOf
<1>. QED  BY <1>5, <1>10, <1>11, <1>13, <1>14

Books ==
  /\ IsFiniteSet(CreatedIn(order)) /\ IsFiniteSet(PostedIn(doc))
  /\ \A p \in Product :
       /\ stock[p].reserved = InitialStock[p].reserved + OpenSum(order, p) + LeftSum(order, p)
       /\ stock[p].quantity = InitialStock[p].quantity + PostedSum(doc, p) - GoneSum(order, p) - sold[p]

LEMMA OrdersInOrder ==
  ASSUME Known, IsFiniteSet(CreatedIn(order))
  PROVE  OrderTable(order)
BY DEF Known, TypeOK, RowsOK, OrderTable

LEMMA OrdersInOrderNext ==
  ASSUME Known', IsFiniteSet(CreatedIn(order'))
  PROVE  OrderTable(order')
BY DEF Known, TypeOK, RowsOK, OrderTable

LEMMA NumbersTyped ==
  ASSUME Known, NEW p \in Product
  PROVE  /\ stock[p].reserved \in Nat /\ stock[p].quantity \in Int /\ sold[p] \in Nat
         /\ InitialStock[p].reserved \in Nat /\ InitialStock[p].quantity \in Int
         /\ \A s \in Session : tx[s].qty[p] \in Nat
BY WarehouseAssumption DEF Known, TypeOK, Row, Quantities, Tx

LEMMA PostedSumIsInt ==
  ASSUME NEW docs \in [Doc -> DocRow \cup {None}], IsFiniteSet(PostedIn(docs)), NEW p \in Product
  PROVE  PostedSum(docs, p) \in Int
<1> DEFINE f == [x \in PostedIn(docs) |-> docs[x].items[p]]
<1>1. ASSUME NEW x \in PostedIn(docs) PROVE f[x] \in Int
  <2>1. docs[x].items[p] \in Nat
    BY DEF PostedIn, DocRow, Quantities
  <2>2. f[x] = docs[x].items[p]
    OBVIOUS
  <2>. QED  BY <2>1, <2>2
<1>2. PostedSum(docs, p) = SumFunctionOnSet(f, PostedIn(docs))
  BY DEF PostedSum
<1> HIDE DEF f
<1>3. Summable(f, PostedIn(docs))
  BY <1>1 DEF Summable
<1>. QED  BY <1>2, <1>3, SumStep

\* An order is created: nothing is reserved or shipped for it.
LEMMA CreateOrderBooks ==
  ASSUME Known, Books, NEW o \in Order, NEW lines \in OrderRequest, CreateOrder(o, lines)
  PROVE  Books'
<1>1. /\ Known' /\ order' = [order EXCEPT ![o] = order'[o]] /\ order'[o] \in OrderRow
      /\ order'[o].status = "DRAFT" /\ ~AnyGone(order'[o]) /\ order[o] = None
      /\ UNCHANGED doc /\ UNCHANGED stock /\ UNCHANGED sold
  BY CreateOrderKnown DEF CreateOrder
<1>2. PICK new : new = order'
  OBVIOUS
<1>3. \A x \in Order \ {o} : new[x] = order[x]
  BY <1>1, <1>2 DEF Known, TypeOK
<1>4. IsFiniteSet(CreatedIn(new))
  <2>1. IsFiniteSet(CreatedIn(order) \cup {o})
    BY FS_AddElement DEF Books
  <2>2. CreatedIn(new) \subseteq CreatedIn(order) \cup {o}
    BY <1>3 DEF CreatedIn
  <2>. QED  BY <2>1, <2>2, FS_Subset
<1>5. OrderTable(order) /\ OrderTable(new)
  BY <1>1, <1>2, <1>4, OrdersInOrder, OrdersInOrderNext DEF Books
<1>6. ASSUME NEW p \in Product
      PROVE  /\ OpenSum(new, p) = OpenSum(order, p) /\ LeftSum(new, p) = LeftSum(order, p)
             /\ GoneSum(new, p) = GoneSum(order, p)
  <2>1. /\ OpenClaim(order[o], p) = 0 /\ LeftClaim(order[o], p) = 0 /\ GoneClaim(order[o], p) = 0
    BY <1>1 DEF OpenClaim, LeftClaim, GoneClaim
  <2>2. /\ OpenClaim(new[o], p) = 0 /\ LeftClaim(new[o], p) = 0 /\ GoneClaim(new[o], p) = 0
    BY <1>1, <1>2, NothingGone DEF OpenClaim, LeftClaim, GoneClaim
  <2>3. /\ OpenSum(new, p) \in Nat /\ OpenSum(order, p) \in Nat
        /\ OpenSum(new, p) - OpenClaim(new[o], p) = OpenSum(order, p) - OpenClaim(order[o], p)
    BY <1>3, <1>5, OpenSumChanges
  <2>4. /\ LeftSum(new, p) \in Nat /\ LeftSum(order, p) \in Nat
        /\ LeftSum(new, p) - LeftClaim(new[o], p) = LeftSum(order, p) - LeftClaim(order[o], p)
    BY <1>3, <1>5, LeftSumChanges
  <2>5. /\ GoneSum(new, p) \in Nat /\ GoneSum(order, p) \in Nat
        /\ GoneSum(new, p) - GoneClaim(new[o], p) = GoneSum(order, p) - GoneClaim(order[o], p)
    BY <1>3, <1>5, GoneSumChanges
  <2>. QED  BY <2>1, <2>2, <2>3, <2>4, <2>5
<1>. QED  BY <1>1, <1>2, <1>4, <1>6 DEF Books

LEMMA CreateDocBooks ==
  ASSUME Known, Books, NEW d \in Doc, NEW items \in DocRequest, CreateReceiptDoc(d, items)
  PROVE  Books'
<1>1. /\ UNCHANGED order /\ UNCHANGED stock /\ UNCHANGED sold /\ doc[d] = None
      /\ doc \in [Doc -> DocRow \cup {None}]
      /\ doc' = [doc EXCEPT ![d] = [posted |-> FALSE, items |-> items]]
  BY DEF CreateReceiptDoc, Known, TypeOK
<1>2. doc'[d].posted = FALSE /\ \A x \in Doc \ {d} : doc'[x] = doc[x]
  BY <1>1, Zenon
<1>3. PostedIn(doc') = PostedIn(doc) /\ d \notin PostedIn(doc)
  BY <1>1, <1>2 DEF PostedIn
<1>4. ASSUME NEW p \in Product PROVE PostedSum(doc', p) = PostedSum(doc, p)
  <2>1. [x \in PostedIn(doc') |-> doc'[x].items[p]] = [x \in PostedIn(doc) |-> doc[x].items[p]]
    BY <1>2, <1>3 DEF PostedIn
  <2>. QED  BY <1>3, <2>1, Zenon DEF PostedSum
<1>. QED  BY <1>1, <1>3, <1>4 DEF Books

\* A commit on an order changes the sums by what it changes in the order.
LEMMA CommitSums ==
  ASSUME Known, Books, NEW s \in Session, Commit(s), NEW p \in Product
  PROVE  /\ IsFiniteSet(CreatedIn(order'))
         /\ OpenSum(order, p) \in Nat /\ LeftSum(order, p) \in Nat /\ GoneSum(order, p) \in Nat
         /\ GoneSum(order', p) = GoneSum(order, p)
                                   + (IF tx[s].kind = "ship" THEN tx[s].qty[p] ELSE 0)
         /\ OpenSum(order', p) + LeftSum(order', p)
              = OpenSum(order, p) + LeftSum(order, p)
                  + (IF tx[s].kind = "confirm" THEN tx[s].qty[p]
                     ELSE IF tx[s].kind \in {"cancel", "ship"} THEN 0 - tx[s].qty[p] ELSE 0)
         /\ tx[s].kind \in {"cancel", "ship"} => tx[s].qty[p] <= OpenSum(order, p)
<1>1. PICK t, new, q : t = tx[s] /\ new = order' /\ q = tx[s].qty[p]
  OBVIOUS
<1>2. q \in Nat /\ OrderTable(order)
  BY <1>1, NumbersTyped, OrdersInOrder DEF Books
<1>3. CASE t.kind \in OrderKinds
  <2>1. PICK o : o = t.order
    OBVIOUS
  <2>2. /\ o \in Order /\ order[o] \in OrderRow /\ RowOK(order[o])
        /\ Done(t, order[o], new[o]) /\ new = [order EXCEPT ![o] = new[o]]
    BY <1>1, <1>3, <2>1, CommitOrder
  <2>3. \A x \in Order \ {o} : new[x] = order[x]
    BY <2>2 DEF Known, TypeOK
  <2>4. CreatedIn(new) = CreatedIn(order)
    <3>1. order[o] # None /\ new[o] # None
      BY <2>2, RowTyped DEF Done
    <3>. QED  BY <2>3, <3>1 DEF CreatedIn
  <2>5. IsFiniteSet(CreatedIn(new))
    BY <2>4 DEF Books
  <2>6. OrderTable(new)
    BY <1>1, <2>5, CommitKnown, OrdersInOrderNext
  <2>7. /\ OpenSum(new, p) \in Nat /\ OpenSum(order, p) \in Nat
        /\ OpenSum(new, p) - OpenClaim(new[o], p) = OpenSum(order, p) - OpenClaim(order[o], p)
        /\ OpenClaim(order[o], p) <= OpenSum(order, p)
    BY <1>2, <2>2, <2>3, <2>6, OpenSumChanges
  <2>8. /\ LeftSum(new, p) \in Nat /\ LeftSum(order, p) \in Nat
        /\ LeftSum(new, p) - LeftClaim(new[o], p) = LeftSum(order, p) - LeftClaim(order[o], p)
    BY <1>2, <2>2, <2>3, <2>6, LeftSumChanges
  <2>9. /\ GoneSum(new, p) \in Nat /\ GoneSum(order, p) \in Nat
        /\ GoneSum(new, p) - GoneClaim(new[o], p) = GoneSum(order, p) - GoneClaim(order[o], p)
    BY <1>2, <2>2, <2>3, <2>6, GoneSumChanges
  <2>10. \A r \in OrderRow : RowOK(r) => /\ OpenClaim(r, p) \in Nat /\ LeftClaim(r, p) \in Nat
                                         /\ GoneClaim(r, p) \in Nat
    BY ClaimsAreNaturals DEF OpenClaim, LeftClaim, GoneClaim
  <2>11. /\ new[o] \in OrderRow /\ RowOK(new[o])
         /\ GoneClaim(new[o], p) = GoneClaim(order[o], p) + (IF t.kind = "ship" THEN q ELSE 0)
         /\ OpenClaim(new[o], p) + LeftClaim(new[o], p)
              = OpenClaim(order[o], p) + LeftClaim(order[o], p)
                  + (IF t.kind = "confirm" THEN q ELSE 0 - q)
         /\ t.kind # "confirm" => q <= OpenClaim(order[o], p)
    BY <1>1, <2>2 DEF Done
  <2>12. t.kind \in {"confirm", "cancel", "ship"}
    BY <1>3 DEF OrderKinds
  <2>13. PICK a, b, c, d, e, f \in Nat :
            /\ a = OpenClaim(order[o], p) /\ b = LeftClaim(order[o], p) /\ c = GoneClaim(order[o], p)
            /\ d = OpenClaim(new[o], p) /\ e = LeftClaim(new[o], p) /\ f = GoneClaim(new[o], p)
    BY <2>2, <2>10, <2>11
  <2>14. GoneSum(new, p) = GoneSum(order, p) + (IF t.kind = "ship" THEN q ELSE 0)
    BY <1>2, <2>9, <2>11, <2>13
  <2>15. OpenSum(new, p) + LeftSum(new, p)
           = OpenSum(order, p) + LeftSum(order, p) + (IF t.kind = "confirm" THEN q ELSE 0 - q)
    BY <1>2, <2>7, <2>8, <2>11, <2>13
  <2>16. t.kind # "confirm" => q <= OpenSum(order, p)
    BY <1>2, <2>7, <2>11, <2>13
  <2>. QED  BY <1>1, <2>5, <2>7, <2>8, <2>9, <2>12, <2>14, <2>15, <2>16
<1>4. CASE t.kind \notin OrderKinds
  <2>1. order' = order
    BY <1>1, <1>4, CommitNoOrder
  <2>2. OpenSum(order, p) \in Nat /\ LeftSum(order, p) \in Nat /\ GoneSum(order, p) \in Nat
    BY <1>2, SumsAreNaturals
  <2>. QED  BY <1>1, <1>2, <1>4, <2>1, <2>2 DEF Books, OrderKinds
<1>. QED  BY <1>3, <1>4

\* What a commit releases or ships of a product is still reserved for it.
LEMMA ReserveSuffices ==
  ASSUME Known, Books, NEW s \in Session, Commit(s), NEW p \in Product
  PROVE  ReserveOf(tx[s], stock[p], p)
           = stock[p].reserved + (IF tx[s].kind = "confirm" THEN tx[s].qty[p]
                                  ELSE IF tx[s].kind \in {"cancel", "ship"} THEN 0 - tx[s].qty[p]
                                  ELSE 0)
<1>1. /\ stock[p].reserved \in Nat /\ InitialStock[p].reserved \in Nat /\ tx[s].qty[p] \in Nat
      /\ stock[p].reserved = InitialStock[p].reserved + OpenSum(order, p) + LeftSum(order, p)
      /\ OpenSum(order, p) \in Nat /\ LeftSum(order, p) \in Nat
  BY NumbersTyped, CommitSums DEF Books
<1>2. tx[s].kind \in {"cancel", "ship"} => tx[s].qty[p] <= stock[p].reserved
  BY <1>1, CommitSums
<1>. QED  BY <1>1, <1>2 DEF ReserveOf, NotBelowZero

LEMMA CommitBooks ==
  ASSUME Known, Books, NEW s \in Session, Commit(s)
  PROVE  Books'
<1>1. IsFiniteSet(PostedIn(doc')) /\ \A p \in Product :
        /\ PostedSum(doc, p) \in Int
        /\ PostedSum(doc', p) = PostedSum(doc, p) + (IF tx[s].kind = "post" THEN tx[s].qty[p] ELSE 0)
  <2>1. doc \in [Doc -> DocRow \cup {None}] /\ IsFiniteSet(PostedIn(doc))
    BY DEF Known, TypeOK, Books
  <2>2. \A p \in Product : PostedSum(doc, p) \in Int
    BY <2>1, PostedSumIsInt
  <2>3. CASE tx[s].kind = "post"
    <3>1. PICK d : d = tx[s].doc
      OBVIOUS
    <3>2. /\ d \in Doc /\ doc[d] \in DocRow /\ ~doc[d].posted /\ tx[s].qty = doc[d].items
          /\ doc' = WithPosted(doc, d)
      BY <2>3, <3>1, CommitDoc
    <3>3. IsFiniteSet(PostedIn(doc')) /\ \A p \in Product :
            PostedSum(doc', p) = PostedSum(doc, p) + doc[d].items[p]
      <4>1. ASSUME NEW p \in Product
            PROVE  /\ IsFiniteSet(PostedIn(doc'))
                   /\ PostedSum(doc', p) = PostedSum(doc, p) + doc[d].items[p]
        BY <2>1, <3>2, PostedSumGrows
      <4>2. CASE Product = {}
        <5>1. PostedIn(doc') \subseteq PostedIn(doc) \cup {d}
          BY <2>1, <3>2 DEF PostedIn, WithPosted
        <5>2. IsFiniteSet(PostedIn(doc) \cup {d})
          BY <2>1, FS_AddElement
        <5>3. IsFiniteSet(PostedIn(doc'))
          BY <5>1, <5>2, FS_Subset
        <5>. QED  BY <4>2, <5>3
      <4>. QED  BY <4>1, <4>2
    <3>. QED  BY <2>2, <2>3, <3>2, <3>3
  <2>4. CASE tx[s].kind # "post"
    <3>1. doc' = doc
      BY <2>4, CommitDoc
    <3>. QED  BY <2>1, <2>2, <2>4, <3>1
  <2>. QED  BY <2>3, <2>4
<1>2. IsFiniteSet(CreatedIn(order'))
  <2>1. CASE tx[s].kind \in OrderKinds
    <3>1. PICK o : o = tx[s].order
      OBVIOUS
    <3>2. o \in Order /\ order[o] \in OrderRow /\ order' = [order EXCEPT ![o] = order'[o]]
      BY <2>1, <3>1, CommitOrder
    <3>3. CreatedIn(order') \subseteq CreatedIn(order)
      BY <3>2, RowTyped DEF CreatedIn, Known, TypeOK
    <3>. QED  BY <3>3, FS_Subset DEF Books
  <2>2. CASE tx[s].kind \notin OrderKinds
    BY <2>2, CommitNoOrder DEF Books
  <2>. QED  BY <2>1, <2>2
<1>3. ASSUME NEW p \in Product
      PROVE  /\ stock'[p].reserved = InitialStock[p].reserved + OpenSum(order', p) + LeftSum(order', p)
             /\ stock'[p].quantity = InitialStock[p].quantity + PostedSum(doc', p)
                                       - GoneSum(order', p) - sold'[p]
  <2>1. PICK q, r, a, i, j, n : /\ q = tx[s].qty[p] /\ r = stock[p].reserved /\ a = stock[p].quantity
                                /\ i = InitialStock[p].reserved /\ j = InitialStock[p].quantity
                                /\ n = sold[p]
    OBVIOUS
  <2>2. /\ q \in Nat /\ r \in Nat /\ a \in Int /\ i \in Nat /\ j \in Int /\ n \in Nat
    BY <2>1, NumbersTyped
  <2>3. PICK k \in {"confirm", "cancel", "ship", "post", "sell"} : k = tx[s].kind
    BY DEF Commit, Idle, Known, TypeOK, Tx
  <2>4. /\ r = i + OpenSum(order, p) + LeftSum(order, p)
        /\ a = j + PostedSum(doc, p) - GoneSum(order, p) - n
    BY <2>1 DEF Books
  <2>5. /\ OpenSum(order, p) \in Nat /\ LeftSum(order, p) \in Nat /\ GoneSum(order, p) \in Nat
        /\ GoneSum(order', p) = GoneSum(order, p) + (IF k = "ship" THEN q ELSE 0)
        /\ OpenSum(order', p) + LeftSum(order', p)
             = OpenSum(order, p) + LeftSum(order, p)
                 + (IF k = "confirm" THEN q ELSE IF k \in {"cancel", "ship"} THEN 0 - q ELSE 0)
    BY <2>1, <2>3, CommitSums
  <2>6. OpenSum(order', p) \in Nat /\ LeftSum(order', p) \in Nat
    BY <1>2, CommitKnown, OrdersInOrderNext, SumsAreNaturals
  <2>7. /\ stock'[p].reserved = r + (IF k = "confirm" THEN q
                                     ELSE IF k \in {"cancel", "ship"} THEN 0 - q ELSE 0)
        /\ stock'[p].quantity = a - (IF k \in {"ship", "sell"} THEN q
                                     ELSE IF k = "post" THEN 0 - q ELSE 0)
        /\ sold'[p] = n + (IF k = "sell" THEN q ELSE 0)
    BY <2>1, <2>3, CommitStock, ReserveSuffices DEF TakenOut
  <2>8. /\ PostedSum(doc, p) \in Int
        /\ PostedSum(doc', p) = PostedSum(doc, p) + (IF k = "post" THEN q ELSE 0)
    BY <1>1, <2>1, <2>3
  <2>9. stock'[p].reserved = i + OpenSum(order', p) + LeftSum(order', p)
    BY <2>2, <2>4, <2>5, <2>6, <2>7
  <2>10. stock'[p].quantity = j + PostedSum(doc', p) - GoneSum(order', p) - sold'[p]
    BY <2>2, <2>3, <2>4, <2>5, <2>7, <2>8
  <2>. QED  BY <2>1, <2>9, <2>10
<1>. QED  BY <1>1, <1>2, <1>3 DEF Books

LEMMA NoCommitNoTables ==
  ASSUME [Next]_vars
  PROVE  \/ UNCHANGED tables
         \/ \E o \in Order, lines \in OrderRequest : CreateOrder(o, lines)
         \/ \E d \in Doc, items \in DocRequest : CreateReceiptDoc(d, items)
         \/ \E s \in Session : Commit(s)
BY DEF Next, vars, Start, StartConfirm, StartCancel, StartShip, StartPost, StartSell, StartRefused,
       Step, ReserveWrite, ReleaseOrAddWrite, TakeOutCheck, TakeOutWrite, TakeRow, Refuse,
       DetectDeadlock, Fail, Rollback

LEMMA NextBooks ==
  ASSUME Known, Books, [Next]_vars
  PROVE  Books'
<1>1. CASE UNCHANGED tables
  <2>1. UNCHANGED order /\ UNCHANGED doc /\ UNCHANGED stock /\ UNCHANGED sold
    BY <1>1 DEF tables
  <2>. QED  BY <2>1 DEF Books
<1>. QED  BY <1>1, NoCommitNoTables, CreateOrderBooks, CreateDocBooks, CommitBooks

LEMMA InitBooks == Init => Books
<1>. SUFFICES ASSUME Init PROVE Books
  OBVIOUS
<1>1. CreatedIn(order) = {} /\ PostedIn(doc) = {} /\ OpenIn(order) = {} /\ LeftIn(order) = {}
  BY DEF Init, CreatedIn, PostedIn, OpenIn, LeftIn
<1>2. IsFiniteSet({}) /\ \A f : SumFunctionOnSet(f, {}) = 0
  <2>1. IsFiniteSet({})
    BY FS_EmptySet
  <2>. QED  BY <2>1, SumOfZeros
<1>3. \A p \in Product : /\ OpenSum(order, p) = 0 /\ LeftSum(order, p) = 0 /\ GoneSum(order, p) = 0
                         /\ PostedSum(doc, p) = 0
  BY <1>1, <1>2 DEF OpenSum, LeftSum, GoneSum, PostedSum
<1>4. \A p \in Product : stock[p] = InitialStock[p] /\ sold[p] = 0 /\ stock[p] \in Row
  BY WarehouseAssumption DEF Init, Zero
<1>5. \A p \in Product : InitialStock[p].reserved \in Nat /\ InitialStock[p].quantity \in Int
  BY WarehouseAssumption DEF Row
<1>. QED  BY <1>1, <1>2, <1>3, <1>4, <1>5 DEF Books

THEOREM BooksAreKept == Spec => []Books
<1>1. Known /\ Books /\ [Next]_vars => Books'
  BY NextBooks
<1>. QED  BY InitBooks, <1>1, Invariance, PTL DEF Spec

\* The reserve of a product is what its confirmed orders still wait for and what
\* orders canceled after a shipment have left: GREATEST(0, ...) hides nothing.
THEOREM ReserveAccountedHolds == Spec => []ReserveAccounted
<1>1. Books => ReserveAccounted
  <2>. SUFFICES ASSUME Books, NEW p \in Product
                PROVE  stock[p].reserved = InitialStock[p].reserved
                         + SumFunction([o \in OpenOrders |-> Outstanding(o, p)])
                         + SumFunction([o \in LeftOrders |-> Outstanding(o, p)])
    BY DEF ReserveAccounted
  <2>1. OpenOrders = OpenIn(order) /\ LeftOrders = LeftIn(order)
    BY DEF OpenOrders, LeftOrders, OrdersWith, Orders, HasShipped, Lines, OpenIn, LeftIn, AnyGone
  <2>2. \A o : Outstanding(o, p) = Owed(order[o], p)
    BY PerProductIs DEF Outstanding, Owed, OwedOf, Lines
  <2>3. /\ SumFunction([o \in OpenOrders |-> Outstanding(o, p)]) = OpenSum(order, p)
        /\ SumFunction([o \in LeftOrders |-> Outstanding(o, p)]) = LeftSum(order, p)
    BY <2>1, <2>2 DEF OpenSum, LeftSum, SumFunction
  <2>. QED  BY <2>3 DEF Books
<1>. QED  BY <1>1, BooksAreKept, PTL

\* The stock is the initial one, every posted document once, less what was
\* shipped and sold.
THEOREM StockAccountedHolds == Spec => []StockAccounted
<1>1. Books => StockAccounted
  <2>. SUFFICES ASSUME Books, NEW p \in Product
                PROVE  stock[p].quantity = InitialStock[p].quantity
                         + SumFunction([d \in PostedDocs |-> doc[d].items[p]])
                         - SumFunction([o \in Orders |-> ShippedOf(o, p)]) - sold[p]
    BY DEF StockAccounted
  <2>1. PostedDocs = PostedIn(doc) /\ Orders = CreatedIn(order)
    BY DEF PostedDocs, PostedIn, Orders, CreatedIn
  <2>2. \A o : ShippedOf(o, p) = Gone(order[o], p)
    BY PerProductIs DEF ShippedOf, Gone, GoneOf, Lines
  <2>3. /\ SumFunction([d \in PostedDocs |-> doc[d].items[p]]) = PostedSum(doc, p)
        /\ SumFunction([o \in Orders |-> ShippedOf(o, p)]) = GoneSum(order, p)
    BY <2>1, <2>2 DEF PostedSum, GoneSum, SumFunction
  <2>. QED  BY <2>3 DEF Books
<1>. QED  BY <1>1, BooksAreKept, PTL

-----------------------------------------------------------------------------
(* What is reserved is there. *)

InitiallyCovered == \A p \in Product : InitialStock[p].quantity >= InitialStock[p].reserved

LEMMA CommitCovers ==
  ASSUME Known, Books, StockCoversReserves, NEW s \in Session, Commit(s), NEW p \in Product,
         sold'[p] = 0
  PROVE  stock'[p].quantity >= stock'[p].reserved
<1>1. PICK q, r, a : q = tx[s].qty[p] /\ r = stock[p].reserved /\ a = stock[p].quantity
  OBVIOUS
<1>2. q \in Nat /\ r \in Nat /\ a \in Int /\ sold[p] \in Nat
  BY <1>1, NumbersTyped
<1>3. PICK k \in {"confirm", "cancel", "ship", "post", "sell"} : k = tx[s].kind
  BY DEF Commit, Idle, Known, TypeOK, Tx
<1>4. /\ stock'[p].reserved = r + (IF k = "confirm" THEN q
                                   ELSE IF k \in {"cancel", "ship"} THEN 0 - q ELSE 0)
      /\ stock'[p].quantity = a - (IF k \in {"ship", "sell"} THEN q
                                   ELSE IF k = "post" THEN 0 - q ELSE 0)
      /\ sold'[p] = sold[p] + (IF k = "sell" THEN q ELSE 0)
  BY <1>1, <1>3, CommitStock, ReserveSuffices DEF TakenOut
<1>5. sold[p] = 0 /\ (k = "sell" => q = 0)
  BY <1>2, <1>4
<1>6. a >= r
  BY <1>1, <1>5 DEF StockCoversReserves
<1>7. k = "confirm" => a - r >= q
  <2>1. CASE p \in tx[s].done
    BY <1>1, <1>3, <2>1 DEF Known, Written, CanReserve
  <2>2. CASE p \notin tx[s].done
    <3>1. q = 0
      BY <1>1, <2>2, CommitStock
    <3>. QED  BY <1>2, <1>6, <3>1
  <2>. QED  BY <2>1, <2>2
<1>. QED  BY <1>2, <1>3, <1>4, <1>5, <1>6, <1>7

LEMMA NextCovers ==
  ASSUME Known, Books, StockCoversReserves, [Next]_vars
  PROVE  StockCoversReserves'
<1>1. CASE UNCHANGED <<stock, sold>>
  BY <1>1 DEF StockCoversReserves
<1>2. ASSUME NEW s \in Session, Commit(s) PROVE StockCoversReserves'
  BY <1>2, CommitCovers DEF StockCoversReserves
<1>. QED  BY <1>1, <1>2, NoCommitNoTables DEF CreateOrder, CreateReceiptDoc, tables

\* As long as no register sells a product of the warehouse, what is reserved of
\* it is there, if it was at the start.
THEOREM StockCovers == Spec /\ InitiallyCovered => []StockCoversReserves
<1>1. Init /\ InitiallyCovered => StockCoversReserves
  BY DEF Init, InitiallyCovered, StockCoversReserves
<1>2. Known /\ Books /\ StockCoversReserves /\ [Next]_vars => StockCoversReserves'
  BY NextCovers
<1>. QED  BY <1>1, <1>2, Invariance, BooksAreKept, PTL DEF Spec

=============================================================================
