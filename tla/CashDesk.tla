------------------------------ MODULE CashDesk ------------------------------
(***************************************************************************)
(* The cash desk: shifts, sales, returns and corrections of the receipt    *)
(* service, with the marking codes and the stock that a receipt moves.     *)
(*                                                                         *)
(* A session is an HTTP request in progress.  Sell, Return and Correction  *)
(* run in one READ COMMITTED transaction each: the variables shift,        *)
(* receipts, pool, link, gismt and stock hold what is committed, tx[s]     *)
(* what session s has read and decided, and codeOwner and stockOwner the   *)
(* row locks.  What a transaction writes is visible to nobody else before  *)
(* its COMMIT, so Commit applies all of it.  A statement that reads        *)
(* without a lock is a step of its own: others may commit before the next. *)
(***************************************************************************)
EXTENDS Integers, Sequences, FiniteSets, SequencesExt, FiniteSetsExt,
        RowLocks, Balances

CONSTANTS Session,        \* requests that can be in progress at once
          Register,       \* cash registers of one organization
          WithWarehouse,  \* those with warehouse_id set, all to one warehouse
          Product,
          Marked,         \* products with is_marked
          Code,           \* marking codes, trimmed
          Blank,          \* a code that is empty after TrimSpace
          ProductOf,      \* the product a code was issued for
          Unit,           \* how many fractions of quantity make 1 (DECIMAL)
          SaleRequest,    \* item lists a client sends to sell or correct
          ReturnRequest,  \* item lists a client sends to return
          InitialStock,   \* balance rows when the desk starts
          MaxShift,       \* bound: shifts per register
          MaxReceipt,     \* bound: receipts per register
          None

Key == Register \X (Nat \ {0})           \* receipt: register and number
Item == [product : Product, qty : Nat \ {0}]
Line == [product : Product, qty : Nat \ {0}, codes : Seq(Code \cup {Blank})]

ASSUME ConstantsAssumption ==
  /\ IsFiniteSet(Session) /\ NoSession \notin Session
  /\ WithWarehouse \subseteq Register /\ None \notin Register \cup Key
  /\ Marked \subseteq Product
  /\ Blank \notin Code /\ ProductOf \in [Code -> Marked]
  /\ Unit \in Nat \ {0}
  /\ SaleRequest \subseteq Seq(Line) /\ ReturnRequest \subseteq Seq(Line)
  /\ InitialStock \in [Product -> Row]
  /\ MaxShift \in Nat /\ MaxReceipt \in Nat

VARIABLES
  shift,       \* cash_shift: per register, the shifts in order of number
  receipts,    \* sales_receipt with its items
  pool,        \* marking_code_pool.status
  link,        \* receipt_marking_link: the receipt a code was withdrawn by
  gismt,       \* gismt_queue: per code, the operations in order of id
  stock,       \* warehouse_balance
  codeOwner, stockOwner,
  tx           \* per session, the request it serves

tables == <<shift, receipts, pool, link, gismt, stock>>
vars == <<tables, codeOwner, stockOwner, tx>>

-----------------------------------------------------------------------------
Selling == {"SALE", "CORRECTION"}

Receipt == [key : Key, type : Selling \cup {"RETURN"}, shift : Nat,
            base : Key \cup {None}, items : Seq(Item)]

Shift == [status : {"OPEN", "CLOSED"}, report : SUBSET Key]

Operation == [op : {"RECEIVE", "WITHDRAW", "RETURN", "WRITE_OFF"},
              receipt : Key \cup {None}]

Tx == [pc : {"idle", "resolve", "number", "inserted", "open", "close"},
       kind : Selling \cup {"RETURN", "none"},
       reg : Register \cup {None}, shift : Nat, base : Key \cup {None},
       lines : Seq(Line), \* the request
       i : Nat,           \* lines resolved so far
       todo : Seq(Code \cup {Blank}), seen : SUBSET Code, ids : Seq(Code),
       qty : [Product -> Nat], done : SUBSET Product, checked : SUBSET Product,
       number : Nat, report : SUBSET Key]

NoTx == [pc |-> "idle", kind |-> "none", reg |-> None, shift |-> 0, base |-> None,
         lines |-> <<>>, i |-> 0, todo |-> <<>>, seen |-> {}, ids |-> <<>>,
         qty |-> [p \in Product |-> 0], done |-> {}, checked |-> {},
         number |-> 0, report |-> {}]

Init ==
  /\ shift = [r \in Register |-> <<>>]
  /\ receipts = {}
  /\ pool = [c \in Code |-> "ABSENT"]
  /\ link = [c \in Code |-> None]
  /\ gismt = [c \in Code |-> <<>>]
  /\ stock = InitialStock
  /\ codeOwner = [c \in Code |-> NoSession]
  /\ stockOwner = [p \in Product |-> NoSession]
  /\ tx = [s \in Session |-> NoTx]

-----------------------------------------------------------------------------
(* What the statements read. *)

IsOpen(r, n) == n \in DOMAIN shift[r] /\ shift[r][n].status = "OPEN"

Keys == {x.key : x \in receipts}
NumbersOf(r) == {k[2] : k \in {k \in Keys : k[1] = r}}

\* Mutant of LastNumber: COALESCE(MAX(...), -1), the first number is 0.
LastNumberFromMinusOne(r) == Max({-1} \cup NumbersOf(r))

\* SELECT COALESCE(MAX(receipt_number::bigint), 0)
LastNumber(r) == Max({0} \cup NumbersOf(r))

\* The quantity of product p in the items of a receipt.
ItemQty(x, p) ==
  SumFunction([k \in DOMAIN x.items |-> IF x.items[k].product = p THEN x.items[k].qty ELSE 0])

\* SUM(i.quantity) over the receipts that return product p of base.
ReturnedQty(base, p) ==
  SumFunction([x \in {x \in receipts : x.type = "RETURN" /\ x.base = base} |-> ItemQty(x, p)])

\* The position of product p that BaseItem's query may return: any.
BaseItems(base, p) ==
  UNION {{x.items[k] : k \in {k \in DOMAIN x.items : x.items[k].product = p}} :
           x \in {x \in receipts : x.key = base}}

\* Mutant of ReportOf: the WHERE clause names SALE alone.
ReportOfSales(r, n) ==
  {x.key : x \in {x \in receipts : x.key[1] = r /\ x.shift = n /\ x.type = "SALE"}}

\* The shift report counts and sums SALE and RETURN receipts.
ReportOf(r, n) ==
  {x.key : x \in {x \in receipts : x.key[1] = r /\ x.shift = n /\ x.type # "CORRECTION"}}

-----------------------------------------------------------------------------
(* The end of a request.  ROLLBACK and COMMIT both free the row locks. *)

\* Mutant of Finish: the transaction is not ended on the way out.
FinishKeepingLocks(s) ==
  tx' = [tx EXCEPT ![s] = NoTx] /\ UNCHANGED <<codeOwner, stockOwner>>

Finish(s) ==
  /\ tx' = [tx EXCEPT ![s] = NoTx]
  /\ codeOwner' = ReleaseAll(codeOwner, s)
  /\ stockOwner' = ReleaseAll(stockOwner, s)

Rollback(s) == Finish(s) /\ UNCHANGED tables

-----------------------------------------------------------------------------
(* Sell, Correction and Return up to the receipt. *)

\* Bound: the receipts in progress count as made.
RoomForReceipt(r) ==
  Cardinality(NumbersOf(r))
    + Cardinality({s \in Session : tx[s].reg = r /\ tx[s].kind # "none"}) < MaxReceipt

\* GetOpen reads the open shift of the register without a lock.
SellBegin(s, r, kind, lines) ==
  /\ tx[s].pc = "idle" /\ RoomForReceipt(r)
  /\ \E n \in DOMAIN shift[r] :
       /\ IsOpen(r, n)
       /\ tx' = [tx EXCEPT ![s] = [NoTx EXCEPT !.pc = "resolve", !.kind = kind,
                                               !.reg = r, !.shift = n, !.lines = lines]]
  /\ UNCHANGED <<tables, codeOwner, stockOwner>>

\* BaseForReturn and ShiftOpen: a sale whose shift is open is returned at its
\* register, in its shift.
ReturnBegin(s, x, lines) ==
  /\ tx[s].pc = "idle" /\ RoomForReceipt(x.key[1])
  /\ x.type = "SALE" /\ IsOpen(x.key[1], x.shift)
  /\ tx' = [tx EXCEPT ![s] = [NoTx EXCEPT !.pc = "resolve", !.kind = "RETURN",
                                          !.reg = x.key[1], !.shift = x.shift,
                                          !.base = x.key, !.lines = lines]]
  /\ UNCHANGED <<tables, codeOwner, stockOwner>>

AtLine(s) == tx[s].pc = "resolve" /\ tx[s].todo = <<>> /\ tx[s].i < Len(tx[s].lines)
AtCode(s) == tx[s].pc = "resolve" /\ tx[s].todo # <<>>
Resolved(s) == tx[s].pc = "resolve" /\ tx[s].todo = <<>> /\ tx[s].i = Len(tx[s].lines)

\* len(MarkingCodes) == int(Quantity), blank and repeated codes included.
CodesPerUnit(line) == line.product \in Marked => Len(line.codes) = line.qty \div Unit

WithinSold(sold, base, line) == line.qty <= sold - ReturnedQty(base, line.product)

\* Mutant of Summed: the map entry is set, not added to.
Overwritten(qty, line) == [qty EXCEPT ![line.product] = line.qty]

\* moved[line.Product] += line.Quantity
Summed(qty, line) == [qty EXCEPT ![line.product] = @ + line.qty]

\* One turn of the loop over the items, up to their codes.
ResolveLine(s) ==
  /\ AtLine(s)
  /\ LET line == tx[s].lines[tx[s].i + 1] IN
       /\ CodesPerUnit(line)
       /\ tx[s].kind = "RETURN" =>
            \E it \in BaseItems(tx[s].base, line.product) : WithinSold(it.qty, tx[s].base, line)
       /\ tx' = [tx EXCEPT ![s].i = @ + 1, ![s].seen = {},
                           ![s].todo = IF line.product \in Marked THEN line.codes ELSE <<>>,
                           ![s].qty = Summed(@, line)]
  /\ UNCHANGED <<tables, codeOwner, stockOwner>>

LineRefused(s) ==
  /\ AtLine(s)
  /\ LET line == tx[s].lines[tx[s].i + 1]
         base == tx[s].base
     IN \/ ~CodesPerUnit(line)
        \/ /\ tx[s].kind = "RETURN"
           /\ \/ BaseItems(base, line.product) = {}
              \/ \E it \in BaseItems(base, line.product) : ~WithinSold(it.qty, base, line)

\* LockCodes, and SoldCodeInReceipt for a return.
Sellable(c, p) == pool[c] = "AVAILABLE" /\ ProductOf[c] = p

\* Mutant of Returnable: the status of the code is not in the WHERE clause.
ReturnableAgain(c, base) == link[c] = base
Returnable(c, base) == link[c] = base /\ pool[c] = "SOLD"

CodeAccepted(s, c) ==
  IF tx[s].kind = "RETURN" THEN Returnable(c, tx[s].base)
                           ELSE Sellable(c, tx[s].lines[tx[s].i].product)

\* Only LockCodes skips blank codes and codes seen in the same item.
Skipped(s, c) == tx[s].kind # "RETURN" /\ c \in tx[s].seen \cup {Blank}

\* SELECT ... FOR UPDATE waits for the row, then reads it.
LockCode(s) ==
  /\ AtCode(s)
  /\ LET c == Head(tx[s].todo) IN
       /\ c \in Code /\ ~Skipped(s, c)
       /\ Grantable(codeOwner, c, s) /\ CodeAccepted(s, c)
       /\ codeOwner' = Acquire(codeOwner, c, s)
       /\ tx' = [tx EXCEPT ![s].todo = Tail(@), ![s].seen = @ \cup {c}, ![s].ids = Append(@, c)]
  /\ UNCHANGED <<tables, stockOwner>>

SkipCode(s) ==
  /\ AtCode(s) /\ Skipped(s, Head(tx[s].todo))
  /\ tx' = [tx EXCEPT ![s].todo = Tail(@)]
  /\ UNCHANGED <<tables, codeOwner, stockOwner>>

CodeRefused(s) ==
  /\ AtCode(s)
  /\ LET c == Head(tx[s].todo) IN
       /\ ~Skipped(s, c)
       /\ c \in Code => Grantable(codeOwner, c, s) /\ ~CodeAccepted(s, c)

-----------------------------------------------------------------------------
(* Stock.  The order of the products is that of a Go map: any. *)

MovesStock(s) == tx[s].reg \in WithWarehouse
Quantities(s) == {p \in Product : tx[s].qty[p] > 0}
LeftOf(s) == IF MovesStock(s) THEN Quantities(s) \ tx[s].done ELSE {}

\* Deduct reads the free quantity without a lock ...
DeductCheck(s, p) ==
  /\ Resolved(s) /\ tx[s].kind \in Selling
  /\ tx[s].checked = {} /\ p \in LeftOf(s) /\ CanDeduct(stock[p], tx[s].qty[p])
  /\ tx' = [tx EXCEPT ![s].checked = {p}]
  /\ UNCHANGED <<tables, codeOwner, stockOwner>>

StockRefused(s) ==
  /\ Resolved(s) /\ tx[s].kind \in Selling /\ tx[s].checked = {}
  /\ \E p \in LeftOf(s) : ~CanDeduct(stock[p], tx[s].qty[p])

\* ... and updates the row in a second statement.
DeductWrite(s, p) ==
  /\ Resolved(s) /\ p \in tx[s].checked /\ Grantable(stockOwner, p, s)
  /\ stockOwner' = Acquire(stockOwner, p, s)
  /\ tx' = [tx EXCEPT ![s].checked = {}, ![s].done = @ \cup {p}]
  /\ UNCHANGED <<tables, codeOwner>>

\* Add, once the return's receipt is inserted.
AddWrite(s, p) ==
  /\ tx[s].pc = "inserted" /\ tx[s].kind = "RETURN"
  /\ p \in LeftOf(s) /\ Grantable(stockOwner, p, s)
  /\ stockOwner' = Acquire(stockOwner, p, s)
  /\ tx' = [tx EXCEPT ![s].done = @ \cup {p}]
  /\ UNCHANGED <<tables, codeOwner>>

-----------------------------------------------------------------------------
(* ReceiptRepo.Insert, and the end of the transaction. *)

ReadNumber(s) ==
  /\ Resolved(s) /\ tx[s].checked = {}
  /\ tx[s].kind \in Selling => LeftOf(s) = {}
  /\ tx' = [tx EXCEPT ![s].pc = "number", ![s].number = LastNumber(tx[s].reg) + 1]
  /\ UNCHANGED <<tables, codeOwner, stockOwner>>

KeyOf(s) == <<tx[s].reg, tx[s].number>>
LinksOf(s) == IF tx[s].kind \in Selling THEN ToSet(tx[s].ids) ELSE {}

\* Mutant of InsertBlockers: receipts in progress do not block on the number.
InsertBlockersOnLinks(s) ==
  {t \in Session \ {s} : tx[t].pc = "inserted" /\ LinksOf(t) \cap LinksOf(s) # {}}

\* A unique index makes an INSERT wait for the transaction that has inserted
\* the same value and not ended.
InsertBlockers(s) ==
  {t \in Session \ {s} : /\ tx[t].pc = "inserted"
                         /\ KeyOf(t) = KeyOf(s) \/ LinksOf(t) \cap LinksOf(s) # {}}

\* Mutant of NumberFree: no unique index.
NumberNotChecked(s) == TRUE

\* UNIQUE (cash_register_id, receipt_number).
NumberFree(s) == KeyOf(s) \notin Keys

\* Mutant of LinksFree: the index only sees the receipt's own links.
LinksFreeInReceipt(s) == tx[s].kind \in Selling => IsInjective(tx[s].ids)

\* UNIQUE (marking_code_id): links of earlier receipts and of this one.
LinksFree(s) ==
  tx[s].kind \in Selling => /\ IsInjective(tx[s].ids)
                            /\ \A c \in ToSet(tx[s].ids) : link[c] = None

InsertReceipt(s) ==
  /\ tx[s].pc = "number" /\ InsertBlockers(s) = {}
  /\ NumberFree(s) /\ LinksFree(s)
  /\ tx' = [tx EXCEPT ![s].pc = "inserted"]
  /\ UNCHANGED <<tables, codeOwner, stockOwner>>

InsertRefused(s) ==
  /\ tx[s].pc = "number" /\ InsertBlockers(s) = {}
  /\ ~(NumberFree(s) /\ LinksFree(s))

ReceiptOf(s) ==
  [key |-> KeyOf(s), type |-> tx[s].kind, shift |-> tx[s].shift, base |-> tx[s].base,
   items |-> [k \in DOMAIN tx[s].lines |->
                [product |-> tx[s].lines[k].product, qty |-> tx[s].lines[k].qty]]]

\* Withdraw and MarkingRepo.Return: one row of gismt_queue per code of the list.
Queued(s, c) ==
  [k \in 1..Cardinality({j \in DOMAIN tx[s].ids : tx[s].ids[j] = c}) |->
     [op |-> IF tx[s].kind = "RETURN" THEN "RETURN" ELSE "WITHDRAW", receipt |-> KeyOf(s)]]

\* Mutant of StatusAfter: a return queues its operations and leaves the pool.
StatusLeftSold(kind) == "SOLD"

\* The status Withdraw or MarkingRepo.Return gives to a code of the receipt.
StatusAfter(kind) == IF kind = "RETURN" THEN "AVAILABLE" ELSE "SOLD"

\* What the transaction has written becomes visible.
Commit(s) ==
  /\ tx[s].pc = "inserted"
  /\ tx[s].kind = "RETURN" => LeftOf(s) = {}
  /\ receipts' = receipts \cup {ReceiptOf(s)}
  /\ pool' = [c \in Code |-> IF c \in ToSet(tx[s].ids) THEN StatusAfter(tx[s].kind) ELSE pool[c]]
  /\ link' = [c \in Code |-> IF c \in LinksOf(s) THEN KeyOf(s) ELSE link[c]]
  /\ gismt' = [c \in Code |-> gismt[c] \o Queued(s, c)]
  /\ stock' = [p \in Product |->
                 IF p \notin tx[s].done THEN stock[p]
                 ELSE IF tx[s].kind = "RETURN" THEN Added(stock[p], tx[s].qty[p])
                                               ELSE Deducted(stock[p], tx[s].qty[p])]
  /\ UNCHANGED shift
  /\ Finish(s)

-----------------------------------------------------------------------------
(* Shifts: each statement commits on its own. *)

OpenRead(s, r) ==
  /\ tx[s].pc = "idle" /\ Len(shift[r]) < MaxShift
  /\ tx' = [tx EXCEPT ![s] = [NoTx EXCEPT !.pc = "open", !.reg = r,
                                          !.number = Len(shift[r]) + 1]]
  /\ UNCHANGED <<tables, codeOwner, stockOwner>>

\* UNIQUE (cash_register_id, shift_number) and idx_shift_open_once.
ShiftNumberFree(r, n) == n \notin DOMAIN shift[r]

\* Mutant of NoneOpen: no partial index on the open shift.
NoneOpenNotChecked(r) == TRUE

NoneOpen(r) == \A n \in DOMAIN shift[r] : ~IsOpen(r, n)

OpenInsert(s) ==
  /\ tx[s].pc = "open"
  /\ ShiftNumberFree(tx[s].reg, tx[s].number) /\ NoneOpen(tx[s].reg)
  /\ shift' = [shift EXCEPT ![tx[s].reg] = Append(@, [status |-> "OPEN", report |-> {}])]
  /\ Finish(s)
  /\ UNCHANGED <<receipts, pool, link, gismt, stock>>

OpenRefused(s) ==
  /\ tx[s].pc = "open"
  /\ ~(ShiftNumberFree(tx[s].reg, tx[s].number) /\ NoneOpen(tx[s].reg))

\* CloseShift reads the report of any shift ...
CloseRead(s, r, n) ==
  /\ tx[s].pc = "idle" /\ n \in DOMAIN shift[r]
  /\ tx' = [tx EXCEPT ![s] = [NoTx EXCEPT !.pc = "close", !.reg = r, !.shift = n,
                                          !.report = ReportOf(r, n)]]
  /\ UNCHANGED <<tables, codeOwner, stockOwner>>

\* Mutant of Closable: UPDATE without status='OPEN'.
ClosableAnyStatus(r, n) == n \in DOMAIN shift[r]

\* ... and stores it WHERE status='OPEN'.
Closable(r, n) == IsOpen(r, n)

CloseWrite(s) ==
  /\ tx[s].pc = "close" /\ Closable(tx[s].reg, tx[s].shift)
  /\ shift' = [shift EXCEPT ![tx[s].reg][tx[s].shift] =
                 [status |-> "CLOSED", report |-> tx[s].report]]
  /\ Finish(s)
  /\ UNCHANGED <<receipts, pool, link, gismt, stock>>

CloseRefused(s) == tx[s].pc = "close" /\ ~Closable(tx[s].reg, tx[s].shift)

-----------------------------------------------------------------------------
(* Marking codes outside receipts: transactions of one statement that matters. *)

\* Register: codes that are in the pool are left alone.
RegisterCodes(cs) ==
  LET new == {c \in cs : pool[c] = "ABSENT"} IN
  /\ new # {}
  /\ pool' = [c \in Code |-> IF c \in new THEN "AVAILABLE" ELSE pool[c]]
  /\ gismt' = [c \in Code |->
                 IF c \in new THEN Append(gismt[c], [op |-> "RECEIVE", receipt |-> None])
                              ELSE gismt[c]]
  /\ UNCHANGED <<shift, receipts, link, stock, codeOwner, stockOwner, tx>>

WriteOff(c) ==
  /\ codeOwner[c] = NoSession /\ pool[c] = "AVAILABLE"
  /\ pool' = [pool EXCEPT ![c] = "WRITTEN_OFF"]
  /\ gismt' = [gismt EXCEPT ![c] = Append(@, [op |-> "WRITE_OFF", receipt |-> None])]
  /\ UNCHANGED <<shift, receipts, link, stock, codeOwner, stockOwner, tx>>

-----------------------------------------------------------------------------
(* Waiting for each other. *)

\* The sessions s waits for; none if it has a statement that does not wait.
OwnersOf(ps) == {stockOwner[p] : p \in ps}

Waits(s) ==
  IF AtCode(s) /\ Head(tx[s].todo) \in Code /\ ~Skipped(s, Head(tx[s].todo))
    THEN {codeOwner[Head(tx[s].todo)]} \ {s, NoSession}
  ELSE IF tx[s].pc = "number" THEN InsertBlockers(s)
  ELSE LET ps == IF tx[s].pc = "inserted" /\ tx[s].kind = "RETURN" THEN LeftOf(s)
                 ELSE tx[s].checked
       IN IF NoSession \in OwnersOf(ps) THEN {} ELSE OwnersOf(ps)

Deadlocked(D) == D # {} /\ \A s \in D : Waits(s) # {} /\ Waits(s) \subseteq D

\* The database's deadlock detector aborts one of them.
DetectDeadlock(s) ==
  /\ \E D \in SUBSET Session : s \in D /\ Deadlocked(D)
  /\ Rollback(s)

\* A statement or a check of the handler refuses: error response, ROLLBACK.
Refuse(s) ==
  /\ \/ LineRefused(s) \/ CodeRefused(s) \/ StockRefused(s) \/ InsertRefused(s)
     \/ OpenRefused(s) \/ CloseRefused(s)
  /\ Rollback(s)

\* Any other error (payment below the total, no price, inactive product), a lost
\* connection, a canceled request, a crash of the server: ROLLBACK.
Fail(s) == tx[s].pc # "idle" /\ Rollback(s)

Begin(s) ==
  \/ \E r \in Register, kind \in Selling, lines \in SaleRequest : SellBegin(s, r, kind, lines)
  \/ \E x \in receipts, lines \in ReturnRequest : ReturnBegin(s, x, lines)
  \/ \E r \in Register : OpenRead(s, r) \/ \E n \in DOMAIN shift[r] : CloseRead(s, r, n)

Step(s) ==
  \/ ResolveLine(s) \/ LockCode(s) \/ SkipCode(s)
  \/ \E p \in Product : DeductCheck(s, p) \/ DeductWrite(s, p) \/ AddWrite(s, p)
  \/ ReadNumber(s) \/ InsertReceipt(s) \/ Commit(s)
  \/ OpenInsert(s) \/ CloseWrite(s)
  \/ Refuse(s) \/ DetectDeadlock(s)

Next ==
  \/ \E s \in Session : Begin(s) \/ Step(s) \/ Fail(s)
  \/ \E cs \in SUBSET Code : RegisterCodes(cs)
  \/ \E c \in Code : WriteOff(c)

Spec == Init /\ [][Next]_vars

\* The handler of a request runs; the database grants a lock in the order of the
\* requests for it, so that no session waits forever for one that comes and goes.
FairSpec == Spec /\ \A s \in Session : SF_vars(Step(s))

=============================================================================
