------------------------------ MODULE TaxBooks ------------------------------
(***************************************************************************)
(* The books of sales and purchases of a quarter, and its declarations.    *)
(*                                                                         *)
(* ClosePeriod reads the two live books in two statements, deletes the     *)
(* stored ones in two more and writes the new ones and the declaration, in *)
(* one transaction and with no lock of its own: closings overlap with each *)
(* other and with the desks.  Each statement sees what is committed when   *)
(* it begins.  A DELETE waits for another closing that deletes the same    *)
(* rows; it does not see those that one has put in their place.  The       *)
(* unique index on the numbers of the entries keeps two sets of rows out   *)
(* of one book.  A date is a month, counted from year 0; sums are whole    *)
(* numbers; there is one organization.                                     *)
(***************************************************************************)
EXTENDS Integers, Sequences, FiniteSets, SequencesExt

CONSTANTS Closer,
          ReceiptKind,   \* what a receipt may be: month, type, total, vat
          PurchaseKind,  \* what a posted document may be: month, total, vat
          Period,        \* <<year, quarter>> that are closed
          DeclType,
          MaxRows,       \* bound: receipts, and documents
          None

TaxBooksAssumption ==
  /\ None \notin Closer /\ MaxRows \in Nat
  /\ ReceiptKind \subseteq [month : Nat, type : {"SALE", "RETURN", "CORRECTION"}, total : Nat, vat : Nat]
  /\ PurchaseKind \subseteq [month : Nat, total : Nat, vat : Nat]
  /\ Period \subseteq Nat \X (1..4)

VARIABLES
  receipts, documents,  \* committed rows by id: they commit in any order
  before,       \* the ids committed before a row; no code keeps them
  books,        \* sales_book and purchase_book of each period
  bookOwner,    \* the closing that has deleted the rows of a book, None if none
  declaration,  \* tax_declaration per period and type
  closing       \* the transaction of each closer

rowVars == <<receipts, documents, before>>
taxVars == <<rowVars, books, bookOwner, declaration, closing>>

RowId == 1..MaxRows
Book == {"sales", "purchases"}

\* What it has read, the book its DELETE is about, and whether the rows the DELETE
\* has found are still the stored ones.
NoClosing == [stage |-> "idle", period |-> None, type |-> None, sales |-> <<>>, purchases |-> <<>>,
              book |-> "sales", current |-> FALSE]

TaxInit ==
  /\ receipts = [i \in RowId |-> None] /\ documents = [i \in RowId |-> None]
  /\ before = [b \in Book |-> [i \in RowId |-> {}]]
  /\ books = [p \in Period |-> [sales |-> <<>>, purchases |-> <<>>]]
  /\ bookOwner = [p \in Period |-> [b \in Book |-> None]]
  /\ declaration = [p \in Period |-> [t \in DeclType |-> None]]
  /\ closing = [s \in Closer |-> NoClosing]

-----------------------------------------------------------------------------
\* The first month of the quarter and the first after it.
quarterRange(p) ==
  [from |-> 12 * p[1] + 3 * (p[2] - 1),
   to |-> 12 * (IF p[2] = 4 THEN p[1] + 1 ELSE p[1]) + 3 * (p[2] % 4)]

InPeriod(month, p) == quarterRange(p).from <= month /\ month < quarterRange(p).to

\* The period's rows, and their ids in order: entry numbers are positions.
RowsOf(rows, p) == {i \in RowId : rows[i] # None /\ InPeriod(rows[i].month, p)}

Ids(rows, p) ==
  [k \in 1..Cardinality(RowsOf(rows, p)) |->
     CHOOSE i \in RowsOf(rows, p) : Cardinality({j \in RowsOf(rows, p) : j < i}) = k - 1]

Rows(b) == IF b = "sales" THEN receipts ELSE documents
Sign(b, r) == IF b = "sales" /\ r.type = "RETURN" THEN -1 ELSE 1

LiveBook(b, p) ==
  [k \in DOMAIN Ids(Rows(b), p) |->
     LET i == Ids(Rows(b), p)[k] r == Rows(b)[i] IN
     [id |-> i, total |-> Sign(b, r) * r.total, vat |-> Sign(b, r) * r.vat]]

LiveSalesBook(p) == LiveBook("sales", p)
LivePurchaseBook(p) == LiveBook("purchases", p)

Total(book) == FoldLeft(LAMBDA sum, e : sum + e.total, 0, book)
Vat(book) == FoldLeft(LAMBDA sum, e : sum + e.vat, 0, book)

-----------------------------------------------------------------------------
Committed(b) == {i \in RowId : Rows(b)[i] # None}

AddReceipt(i, r) ==
  /\ receipts[i] = None /\ receipts' = [receipts EXCEPT ![i] = r]
  /\ before' = [before EXCEPT !["sales"][i] = Committed("sales")]
  /\ UNCHANGED <<documents, books, bookOwner, declaration, closing>>

PostDocument(i, d) ==
  /\ documents[i] = None /\ documents' = [documents EXCEPT ![i] = d]
  /\ before' = [before EXCEPT !["purchases"][i] = Committed("purchases")]
  /\ UNCHANGED <<receipts, books, bookOwner, declaration, closing>>

At(s, stage) == closing[s].stage = stage

ReadSales(s, p, t) ==
  /\ At(s, "idle")
  /\ closing' = [closing EXCEPT ![s] = [NoClosing EXCEPT !.stage = "purchases", !.period = p, !.type = t,
                                                         !.sales = LiveSalesBook(p)]]
  /\ UNCHANGED <<rowVars, books, bookOwner, declaration>>

ReadPurchases(s) ==
  /\ At(s, "purchases")
  /\ closing' = [closing EXCEPT ![s].stage = "start", ![s].purchases = LivePurchaseBook(closing[s].period)]
  /\ UNCHANGED <<rowVars, books, bookOwner, declaration>>

\* The DELETE of a book begins: it is about the rows committed now.
StartDelete(s) ==
  /\ At(s, "start")
  /\ closing' = [closing EXCEPT ![s].stage = "delete", ![s].current = TRUE]
  /\ UNCHANGED <<rowVars, books, bookOwner, declaration>>

\* It waits for a closing that has deleted them, and deletes them unless that one
\* commits.  The sales book comes first.
DeleteBook(s) ==
  LET c == closing[s] IN
  /\ At(s, "delete")
  /\ c.current => bookOwner[c.period][c.book] = None
  /\ bookOwner' = IF c.current /\ books[c.period][c.book] # <<>>
                  THEN [bookOwner EXCEPT ![c.period][c.book] = s] ELSE bookOwner
  /\ closing' = [closing EXCEPT ![s].stage = IF c.book = "sales" THEN "start" ELSE "store",
                                ![s].book = "purchases"]
  /\ UNCHANGED <<rowVars, books, declaration>>

Deleted(s, b) == bookOwner[closing[s].period][b] = s
Release(s) == bookOwner' = [p \in Period |->
                              [b \in Book |-> IF bookOwner[p][b] = s THEN None ELSE bookOwner[p][b]]]

\* Mutant of Clash: without the unique index.
ClashNever(s) == FALSE

\* Entry numbers begin at 1: any row left in a book has the number of a new one.
Clash(s) ==
  \E b \in Book : ~Deleted(s, b) /\ books[closing[s].period][b] # <<>> /\ closing[s][b] # <<>>

DeclaredBy(s) ==
  LET c == closing[s] IN
  [totalSales |-> Total(c.sales), vatOut |-> Vat(c.sales),
   totalPurchases |-> Total(c.purchases), vatIn |-> Vat(c.purchases),
   vatDue |-> Vat(c.sales) - Vat(c.purchases), status |-> "DRAFT"]

\* The rows, the declaration and the commit; the old rows stay if they were not deleted.
StorePeriod(s) ==
  LET c == closing[s]
      p == c.period
      Stored(b) == (IF Deleted(s, b) THEN <<>> ELSE books[p][b]) \o c[b]
      Rewritten(o) == closing[o].period = p /\ (Deleted(s, closing[o].book) \/ c[closing[o].book] # <<>>)
  IN
  /\ At(s, "store") /\ ~Clash(s)
  /\ books' = [books EXCEPT ![p] = [sales |-> Stored("sales"), purchases |-> Stored("purchases")]]
  /\ declaration' = [declaration EXCEPT ![p][c.type] = DeclaredBy(s)]
  /\ Release(s)
  /\ closing' = [o \in Closer |-> IF o = s THEN NoClosing ELSE
                   [closing[o] EXCEPT !.current = @ /\ ~Rewritten(o)]]
  /\ UNCHANGED rowVars

\* The unique index, or any other error: the closing is rolled back.
FailClosing(s) ==
  /\ ~At(s, "idle")
  /\ Release(s) /\ closing' = [closing EXCEPT ![s] = NoClosing]
  /\ UNCHANGED <<rowVars, books, declaration>>

\* Whatever the declaration says.
SubmitDeclaration(p, t) ==
  /\ declaration[p][t] # None
  /\ declaration' = [declaration EXCEPT ![p][t].status = "SUBMITTED"]
  /\ UNCHANGED <<rowVars, books, bookOwner, closing>>

TaxNext ==
  \/ \E i \in RowId : (\E r \in ReceiptKind : AddReceipt(i, r)) \/ (\E d \in PurchaseKind : PostDocument(i, d))
  \/ \E s \in Closer : \/ \E p \in Period, t \in DeclType : ReadSales(s, p, t)
                       \/ ReadPurchases(s) \/ StartDelete(s) \/ DeleteBook(s)
                       \/ StorePeriod(s) \/ FailClosing(s)
  \/ \E p \in Period, t \in DeclType : SubmitDeclaration(p, t)

TaxSpec == TaxInit /\ [][TaxNext]_taxVars

-----------------------------------------------------------------------------
\* However closings overlap, each stored book by itself is a live book there has
\* been (ClosePeriod): every entry is a row of the period with its sign, the entries
\* are numbered in the order of the rows, and with a row come all rows of the period
\* that were committed before it.  That the two books and the declaration are of
\* one closing is not promised: a closing that read nothing may leave the books of
\* another beside the declaration it writes.
BookIsOneLiveBook ==
  \A p \in Period, b \in Book : \A k \in DOMAIN books[p][b] :
    LET book == books[p][b]
        e == book[k]
        r == Rows(b)[e.id]
        quarter == 4 * p[1] + p[2] - 1
        negative == b = "sales" /\ r.type = "RETURN"
    IN
    /\ r # None /\ r.month \div 3 = quarter
    /\ e.total = (IF negative THEN -r.total ELSE r.total) /\ e.vat = (IF negative THEN -r.vat ELSE r.vat)
    /\ \A j \in 1..k-1 : book[j].id < e.id
    /\ \A i \in before[b][e.id] : Rows(b)[i].month \div 3 = quarter => \E j \in DOMAIN book : book[j].id = i

=============================================================================
