--------------------------- MODULE CashDeskProofs ---------------------------
(***************************************************************************)
(* Proofs about the cash desk, for any number of sessions, registers,      *)
(* products, codes and requests: the variables keep their types, receipts  *)
(* are numbered without a gap, one shift of a register is open, a closed   *)
(* one never changes, a Z report lacks only the last receipts, and the     *)
(* status of a marking code, its receipts and its operations agree.        *)
(***************************************************************************)
EXTENDS CashDeskProperties, RanksAndSums, SequenceTheorems

InReceipt(s) == tx[s].pc \in {"resolve", "number", "inserted"}

\* A request in progress knows its register and its kind.
Known(s) ==
  /\ InReceipt(s) => tx[s].reg \in Register /\ tx[s].kind \in Selling \cup {"RETURN"}
  /\ tx[s].pc \in {"open", "close"} => tx[s].reg \in Register
  /\ tx[s].pc \in {"number", "inserted"} => tx[s].number \in Nat \ {0}

TypeInv == TypeOK /\ \A s \in Session : Known(s)

-----------------------------------------------------------------------------
(* What the operators return. *)

LEMMA NoTxTyped == NoTx \in Tx
  BY DEF NoTx, Tx

LEMMA ReplacedInSeq ==
  ASSUME NEW T, NEW q \in Seq(T), NEW n \in DOMAIN q, NEW x \in T
  PROVE  [q EXCEPT ![n] = x] \in Seq(T) /\ Len([q EXCEPT ![n] = x]) = Len(q)
  OBVIOUS

LEMMA AcquireTyped ==
  ASSUME NEW R, NEW owner \in [R -> Session \cup {NoSession}], NEW s \in Session, NEW row \in R
  PROVE  Acquire(owner, row, s) \in [R -> Session \cup {NoSession}]
  BY DEF Acquire

LEMMA ReleaseTyped ==
  ASSUME NEW R, NEW owner \in [R -> Session \cup {NoSession}], NEW s
  PROVE  ReleaseAll(owner, s) \in [R -> Session \cup {NoSession}]
  BY DEF ReleaseAll

LEMMA SummedTyped ==
  ASSUME NEW qty \in [Product -> Nat], NEW line \in Line
  PROVE  Summed(qty, line) \in [Product -> Nat]
<1>1. line.product \in Product /\ line.qty \in Nat
  BY DEF Line
<1>. QED  BY <1>1 DEF Summed

\* COMMIT and ROLLBACK leave the session idle and every type as it was.
LEMMA FinishTyped ==
  ASSUME TypeInv, NEW s \in Session, Finish(s)
  PROVE  /\ tx' \in [Session -> Tx]
         /\ codeOwner' \in [Code -> Session \cup {NoSession}]
         /\ stockOwner' \in [Product -> Session \cup {NoSession}]
         /\ \A t \in Session : Known(t)'
<1>1. tx' \in [Session -> Tx]
  BY NoTxTyped DEF TypeInv, TypeOK, Finish
<1>2. codeOwner' \in [Code -> Session \cup {NoSession}] /\ stockOwner' \in [Product -> Session \cup {NoSession}]
  BY ReleaseTyped DEF TypeInv, TypeOK, Finish
<1>3. ASSUME NEW t \in Session PROVE Known(t)'
  <2>1. CASE t = s
    BY <2>1 DEF TypeInv, TypeOK, Finish, Known, InReceipt, NoTx
  <2>2. CASE t # s
    <3>1. tx'[t] = tx[t]
      BY <2>2 DEF TypeInv, TypeOK, Finish
    <3>. QED  BY <3>1 DEF TypeInv, Known, InReceipt
  <2>. QED  BY <2>1, <2>2
<1>. QED  BY <1>1, <1>2, <1>3

\* A step that changes only the request of s keeps the types if the new request
\* is one.
LEMMA RequestTyped ==
  ASSUME TypeInv, NEW s \in Session, NEW rec \in Tx,
         tx' = [tx EXCEPT ![s] = rec], Known(s)', UNCHANGED tables,
         codeOwner' \in [Code -> Session \cup {NoSession}],
         stockOwner' \in [Product -> Session \cup {NoSession}]
  PROVE  TypeInv'
<1>1. TypeOK'
  BY DEF TypeInv, TypeOK, tables
<1>2. ASSUME NEW t \in Session, t # s PROVE Known(t)'
  <2>1. tx'[t] = tx[t]
    BY <1>2 DEF TypeInv, TypeOK
  <2>. QED  BY <2>1 DEF TypeInv, Known, InReceipt
<1>. QED  BY <1>1, <1>2 DEF TypeInv

\* A step within a phase of the request: only what the request has resolved,
\* checked and locked changes.
Progress(s) ==
  /\ \E rec \in Tx : /\ tx' = [tx EXCEPT ![s] = rec]
                     /\ rec.pc = tx[s].pc /\ rec.reg = tx[s].reg
                     /\ rec.kind = tx[s].kind /\ rec.number = tx[s].number
  /\ UNCHANGED tables
  /\ codeOwner' \in [Code -> Session \cup {NoSession}]
  /\ stockOwner' \in [Product -> Session \cup {NoSession}]

LEMMA ProgressTyped ==
  ASSUME TypeInv, NEW s \in Session, Progress(s)
  PROVE  TypeInv'
<1>1. PICK rec \in Tx : /\ tx' = [tx EXCEPT ![s] = rec]
                        /\ rec.pc = tx[s].pc /\ rec.reg = tx[s].reg
                        /\ rec.kind = tx[s].kind /\ rec.number = tx[s].number
  BY DEF Progress
<1>2. tx'[s] = rec
  BY <1>1 DEF TypeInv, TypeOK
<1>3. Known(s)'
  BY <1>1, <1>2 DEF TypeInv, Known, InReceipt
<1>. QED  BY <1>1, <1>3, RequestTyped DEF Progress

-----------------------------------------------------------------------------
(* The steps of a receipt up to its number, and those on its stock. *)

LEMMA ResolveLineProgresses ==
  ASSUME TypeInv, NEW s \in Session, ResolveLine(s)
  PROVE  Progress(s)
<1> DEFINE line == tx[s].lines[tx[s].i + 1]
           rec == [tx[s] EXCEPT !.i = @ + 1, !.seen = {},
                                !.todo = IF line.product \in Marked THEN line.codes ELSE <<>>,
                                !.qty = Summed(@, line)]
<1>1. tx[s] \in Tx /\ line \in Line
  BY DEF TypeInv, TypeOK, ResolveLine, AtLine, Tx
<1>2. Summed(tx[s].qty, line) \in [Product -> Nat]
  <2>. HIDE DEF line
  <2>1. tx[s].qty \in [Product -> Nat]
    BY <1>1 DEF Tx
  <2>. QED  BY <1>1, <2>1, SummedTyped
<1>3. rec \in Tx
  <2>. HIDE DEF line
  <2>1. (IF line.product \in Marked THEN line.codes ELSE <<>>) \in Seq(Code \cup {Blank})
    BY <1>1 DEF Line
  <2>2. tx[s].i + 1 \in Nat
    BY <1>1 DEF Tx
  <2>. QED  BY <1>1, <1>2, <2>1, <2>2 DEF Tx
<1>4. tx' = [tx EXCEPT ![s] = rec]
  BY DEF ResolveLine, TypeInv, TypeOK
<1>5. rec.pc = tx[s].pc /\ rec.reg = tx[s].reg /\ rec.kind = tx[s].kind /\ rec.number = tx[s].number
  BY <1>1 DEF Tx
<1>. QED  BY <1>3, <1>4, <1>5 DEF ResolveLine, Progress, TypeInv, TypeOK

LEMMA CodeProgresses ==
  ASSUME TypeInv, NEW s \in Session, LockCode(s) \/ SkipCode(s)
  PROVE  Progress(s)
<1> DEFINE c == Head(tx[s].todo)
<1>1. tx[s] \in Tx /\ tx[s].todo \in Seq(Code \cup {Blank}) /\ tx[s].todo # <<>>
  BY DEF TypeInv, TypeOK, LockCode, SkipCode, AtCode, Tx
<1>2. Tail(tx[s].todo) \in Seq(Code \cup {Blank})
  BY <1>1
<1>3. CASE LockCode(s)
  <2> DEFINE rec == [tx[s] EXCEPT !.todo = Tail(@), !.seen = @ \cup {c}, !.ids = Append(@, c)]
  <2>1. c \in Code /\ codeOwner' = Acquire(codeOwner, c, s)
    BY <1>3 DEF LockCode
  <2>2. rec \in Tx
    <3>. HIDE DEF c
    <3>1. Append(tx[s].ids, c) \in Seq(Code) /\ tx[s].seen \cup {c} \in SUBSET Code
      BY <1>1, <2>1 DEF Tx
    <3>. QED  BY <1>1, <1>2, <3>1 DEF Tx
  <2>3. tx' = [tx EXCEPT ![s] = rec]
    BY <1>3 DEF LockCode, TypeInv, TypeOK
  <2>4. codeOwner' \in [Code -> Session \cup {NoSession}]
    BY <2>1, AcquireTyped DEF TypeInv, TypeOK
  <2>5. rec.pc = tx[s].pc /\ rec.reg = tx[s].reg /\ rec.kind = tx[s].kind /\ rec.number = tx[s].number
    BY <1>1 DEF Tx
  <2>. QED  BY <1>3, <2>2, <2>3, <2>4, <2>5 DEF LockCode, Progress, TypeInv, TypeOK
<1>4. CASE SkipCode(s)
  <2> DEFINE rec == [tx[s] EXCEPT !.todo = Tail(@)]
  <2>1. rec \in Tx
    BY <1>1, <1>2 DEF Tx
  <2>2. tx' = [tx EXCEPT ![s] = rec]
    BY <1>4 DEF SkipCode, TypeInv, TypeOK
  <2>3. rec.pc = tx[s].pc /\ rec.reg = tx[s].reg /\ rec.kind = tx[s].kind /\ rec.number = tx[s].number
    BY <1>1 DEF Tx
  <2>. QED  BY <1>4, <2>1, <2>2, <2>3 DEF SkipCode, Progress, TypeInv, TypeOK
<1>. QED  BY <1>3, <1>4

LEMMA DeductProgresses ==
  ASSUME TypeInv, NEW s \in Session, NEW p \in Product, DeductCheck(s, p) \/ DeductWrite(s, p)
  PROVE  Progress(s)
<1>1. tx[s] \in Tx
  BY DEF TypeInv, TypeOK
<1>2. CASE DeductCheck(s, p)
  <2> DEFINE rec == [tx[s] EXCEPT !.checked = {p}]
  <2>1. rec \in Tx
    BY <1>1 DEF Tx
  <2>2. tx' = [tx EXCEPT ![s] = rec]
    BY <1>2 DEF DeductCheck, TypeInv, TypeOK
  <2>3. rec.pc = tx[s].pc /\ rec.reg = tx[s].reg /\ rec.kind = tx[s].kind /\ rec.number = tx[s].number
    BY <1>1 DEF Tx
  <2>. QED  BY <1>2, <2>1, <2>2, <2>3 DEF DeductCheck, Progress, TypeInv, TypeOK
<1>3. CASE DeductWrite(s, p)
  <2> DEFINE rec == [tx[s] EXCEPT !.checked = {}, !.done = @ \cup {p}]
  <2>1. rec \in Tx
    BY <1>1 DEF Tx
  <2>2. tx' = [tx EXCEPT ![s] = rec]
    BY <1>3 DEF DeductWrite, TypeInv, TypeOK
  <2>3. rec.pc = tx[s].pc /\ rec.reg = tx[s].reg /\ rec.kind = tx[s].kind /\ rec.number = tx[s].number
    BY <1>1 DEF Tx
  <2>. QED  BY <1>3, <2>1, <2>2, <2>3, AcquireTyped DEF DeductWrite, Progress, TypeInv, TypeOK
<1>. QED  BY <1>2, <1>3

LEMMA AddProgresses ==
  ASSUME TypeInv, NEW s \in Session, NEW p \in Product, AddWrite(s, p)
  PROVE  Progress(s)
<1> DEFINE rec == [tx[s] EXCEPT !.done = @ \cup {p}]
<1>0. tx[s] \in Tx
  BY DEF TypeInv, TypeOK
<1>1. tx[s] \in Tx /\ rec \in Tx
  BY <1>0 DEF Tx
<1>2. tx' = [tx EXCEPT ![s] = rec]
  BY DEF AddWrite, TypeInv, TypeOK
<1>3. rec.pc = tx[s].pc /\ rec.reg = tx[s].reg /\ rec.kind = tx[s].kind /\ rec.number = tx[s].number
  BY <1>1 DEF Tx
<1>. QED  BY <1>1, <1>2, <1>3, AcquireTyped DEF AddWrite, Progress, TypeInv, TypeOK

LEMMA InsertTyped ==
  ASSUME TypeInv, NEW s \in Session, InsertReceipt(s)
  PROVE  TypeInv'
<1> DEFINE rec == [tx[s] EXCEPT !.pc = "inserted"]
<1>0. tx[s] \in Tx
  BY DEF TypeInv, TypeOK
<1>1. tx[s] \in Tx /\ rec \in Tx
  BY <1>0 DEF Tx
<1>2. tx' = [tx EXCEPT ![s] = rec]
  BY DEF InsertReceipt, TypeInv, TypeOK
<1>3. Known(s)'
  BY <1>1, <1>2 DEF TypeInv, TypeOK, Known, InReceipt, Tx, InsertReceipt
<1>. QED  BY <1>1, <1>2, <1>3, RequestTyped DEF InsertReceipt, TypeInv, TypeOK

-----------------------------------------------------------------------------
(* The numbers of the receipts. *)

Dense(r) == \E n \in Nat : NumbersOf(r) = 1..n

OneReceiptPerKey == \A x, y \in receipts : x.key = y.key => x = y

HasNumber(s) == tx[s].pc \in {"number", "inserted"}

\* The number a request has read is the first, or the next of one in use.
Follows(s) == HasNumber(s) => tx[s].number = 1 \/ tx[s].number - 1 \in NumbersOf(tx[s].reg)

\* What the unique index keeps apart until the transaction ends.
Fresh(s) ==
  tx[s].pc = "inserted" =>
    /\ KeyOf(s) \notin Keys
    /\ \A t \in Session \ {s} : tx[t].pc = "inserted" => KeyOf(t) # KeyOf(s)

Numbered ==
  /\ \A r \in Register : Dense(r)
  /\ OneReceiptPerKey
  /\ \A s \in Session : Follows(s) /\ Fresh(s)

LEMMA LastNumberIs ==
  ASSUME NEW r, NEW n \in Nat, NumbersOf(r) = 1..n
  PROVE  LastNumber(r) = n
<1> DEFINE S == {0} \cup NumbersOf(r)
<1>1. n \in S /\ \A m \in S : m <= n
  OBVIOUS
<1>2. \A x \in S : (\A m \in S : x >= m) => x = n
  BY <1>1
<1>3. (CHOOSE x \in S : \A m \in S : x >= m) = n
  BY <1>1, <1>2
<1>. QED  BY <1>3 DEF LastNumber, Max

LEMMA DenseMeansDense ==
  ASSUME Numbered
  PROVE  NumbersDense
<1>1. ASSUME NEW r \in Register, NEW n \in NumbersOf(r), NEW m \in 1..n PROVE m \in NumbersOf(r)
  <2>1. PICK top \in Nat : NumbersOf(r) = 1..top
    BY DEF Numbered, Dense
  <2>. QED  BY <2>1
<1>. QED  BY <1>1 DEF Numbered, OneReceiptPerKey, NumbersDense

\* A step that inserts and commits no receipt keeps the numbering.
LEMMA QuietNumbered ==
  ASSUME TypeInv, Numbered, NEW s \in Session, NEW rec,
         receipts' = receipts, tx' = [tx EXCEPT ![s] = rec],
         \/ rec.pc \notin {"number", "inserted"}
         \/ rec.pc = tx[s].pc /\ rec.reg = tx[s].reg /\ rec.number = tx[s].number
  PROVE  Numbered'
<1>1. Keys' = Keys /\ \A r : NumbersOf(r)' = NumbersOf(r)
  BY DEF Keys, NumbersOf
<1>2. tx'[s] = rec /\ \A t \in Session \ {s} : tx'[t] = tx[t]
  BY DEF TypeInv, TypeOK
<1>3. \A t \in Session : HasNumber(t)' => /\ tx'[t].pc = tx[t].pc /\ tx'[t].reg = tx[t].reg
                                          /\ tx'[t].number = tx[t].number
  BY <1>2 DEF HasNumber
<1>4. \A t \in Session : Follows(t)'
  BY <1>1, <1>3 DEF Numbered, Follows, HasNumber
<1>5. \A t \in Session : Fresh(t)'
  <2>1. \A t \in Session : tx'[t].pc = "inserted" => tx[t].pc = "inserted" /\ KeyOf(t)' = KeyOf(t)
    BY <1>3 DEF HasNumber, KeyOf
  <2>. QED  BY <1>1, <2>1 DEF Numbered, Fresh
<1>6. (\A r \in Register : Dense(r)') /\ OneReceiptPerKey'
  BY <1>1 DEF Numbered, Dense, OneReceiptPerKey
<1>. QED  BY <1>4, <1>5, <1>6 DEF Numbered

LEMMA ReadNumbered ==
  ASSUME TypeInv, Numbered, NEW s \in Session, ReadNumber(s)
  PROVE  TypeInv' /\ Numbered'
<1>1. tx[s] \in Tx /\ tx[s].reg \in Register /\ tx[s].kind \in Selling \cup {"RETURN"}
  BY DEF TypeInv, TypeOK, Known, InReceipt, ReadNumber, Resolved
<1>2. PICK n \in Nat : NumbersOf(tx[s].reg) = 1..n
  BY <1>1 DEF Numbered, Dense
<1>3. LastNumber(tx[s].reg) = n
  BY <1>2, LastNumberIs
<1> DEFINE rec == [tx[s] EXCEPT !.pc = "number", !.number = n + 1]
<1>4. /\ rec \in Tx /\ rec.pc = "number" /\ rec.number = n + 1
      /\ rec.reg = tx[s].reg /\ rec.kind = tx[s].kind
  <2>1. n + 1 \in Nat
    OBVIOUS
  <2>2. rec \in Tx
    BY <1>1, <2>1 DEF Tx
  <2>3. rec.pc = "number" /\ rec.number = n + 1
    BY <1>1 DEF Tx
  <2>4. rec.reg = tx[s].reg /\ rec.kind = tx[s].kind
    BY <1>1 DEF Tx
  <2>. QED  BY <2>2, <2>3, <2>4
<1>5. tx' = [tx EXCEPT ![s] = rec]
  BY <1>3 DEF ReadNumber, TypeInv, TypeOK
<1>. HIDE DEF rec
<1>6. tx'[s] = rec /\ \A t \in Session \ {s} : tx'[t] = tx[t]
  BY <1>5 DEF TypeInv, TypeOK
<1>7. TypeInv'
  <2>1. Known(s)'
    BY <1>1, <1>4, <1>6 DEF Known, InReceipt
  <2>. QED  BY <1>4, <1>5, <2>1, RequestTyped DEF ReadNumber, TypeInv, TypeOK
<1>8. Keys' = Keys /\ \A r : NumbersOf(r)' = NumbersOf(r)
  BY DEF ReadNumber, tables, Keys, NumbersOf
<1>9. Follows(s)'
  BY <1>2, <1>4, <1>6, <1>8 DEF Follows
<1>10. \A t \in Session \ {s} : Follows(t)'
  BY <1>6, <1>8 DEF Numbered, Follows, HasNumber
<1>11. \A t \in Session : Fresh(t)'
  BY <1>4, <1>6, <1>8 DEF Numbered, Fresh, KeyOf
<1>12. (\A r \in Register : Dense(r)') /\ OneReceiptPerKey'
  BY <1>8 DEF Numbered, Dense, OneReceiptPerKey, ReadNumber, tables
<1>. QED  BY <1>7, <1>9, <1>10, <1>11, <1>12 DEF Numbered

LEMMA InsertNumbered ==
  ASSUME TypeInv, Numbered, NEW s \in Session, InsertReceipt(s)
  PROVE  Numbered'
<1>1. tx'[s] = [tx[s] EXCEPT !.pc = "inserted"] /\ \A t \in Session \ {s} : tx'[t] = tx[t]
  BY DEF InsertReceipt, TypeInv, TypeOK
<1>2. tx[s] \in Tx
  BY DEF TypeInv, TypeOK
<1>3. tx'[s].reg = tx[s].reg /\ tx'[s].number = tx[s].number /\ tx'[s].pc = "inserted"
  BY <1>1, <1>2 DEF Tx
<1>4. receipts' = receipts /\ Keys' = Keys /\ \A r : NumbersOf(r)' = NumbersOf(r)
  BY DEF InsertReceipt, tables, Keys, NumbersOf
<1>5. \A t \in Session : KeyOf(t)' = KeyOf(t)
  BY <1>1, <1>3 DEF KeyOf
<1>6. \A t \in Session : Follows(t)'
  BY <1>1, <1>3, <1>4 DEF Numbered, Follows, HasNumber, InsertReceipt
<1>7. KeyOf(s) \notin Keys /\ \A t \in Session \ {s} : tx[t].pc = "inserted" => KeyOf(t) # KeyOf(s)
  BY DEF InsertReceipt, NumberFree, InsertBlockers
<1>8. \A t \in Session : Fresh(t)'
  BY <1>1, <1>3, <1>4, <1>5, <1>7 DEF Numbered, Fresh
<1>9. (\A r \in Register : Dense(r)') /\ OneReceiptPerKey'
  BY <1>4 DEF Numbered, Dense, OneReceiptPerKey
<1>. QED  BY <1>6, <1>8, <1>9 DEF Numbered

-----------------------------------------------------------------------------
(* COMMIT of a receipt. *)

LEMMA QueuedTyped ==
  ASSUME TypeInv, NEW s \in Session, NEW c \in Code, KeyOf(s) \in Key
  PROVE  Queued(s, c) \in Seq(Operation)
<1> DEFINE J == {j \in DOMAIN tx[s].ids : tx[s].ids[j] = c}
<1>1. tx[s].ids \in Seq(Code)
  BY DEF TypeInv, TypeOK, Tx
<1>2. IsFiniteSet(1..Len(tx[s].ids))
  BY <1>1, FS_Interval
<1>3. IsFiniteSet(J)
  BY <1>1, <1>2, FS_Subset
<1>4. Cardinality(J) \in Nat
  BY <1>3, FS_CardinalityType
<1>5. [op |-> IF tx[s].kind = "RETURN" THEN "RETURN" ELSE "WITHDRAW", receipt |-> KeyOf(s)] \in Operation
  BY DEF Operation
<1>. HIDE DEF J
<1>6. \A n \in Nat, x \in Operation : [k \in 1..n |-> x] \in Seq(Operation)
  OBVIOUS
<1>. QED  BY <1>4, <1>5, <1>6 DEF Queued, J

LEMMA ReceiptTyped ==
  ASSUME TypeInv, NEW s \in Session, tx[s].pc = "inserted"
  PROVE  KeyOf(s) \in Key /\ ReceiptOf(s) \in Receipt /\ ReceiptOf(s).key = KeyOf(s)
<1>1. tx[s] \in Tx /\ tx[s].reg \in Register /\ tx[s].kind \in Selling \cup {"RETURN"}
      /\ tx[s].number \in Nat \ {0}
  BY DEF TypeInv, TypeOK, Known, InReceipt
<1>2. KeyOf(s) \in Key
  BY <1>1 DEF KeyOf, Key
<1> DEFINE items == [k \in DOMAIN tx[s].lines |->
                       [product |-> tx[s].lines[k].product, qty |-> tx[s].lines[k].qty]]
<1>3. tx[s].lines \in Seq(Line)
  BY <1>1 DEF Tx
<1>4. \A k \in 1..Len(tx[s].lines) :
        [product |-> tx[s].lines[k].product, qty |-> tx[s].lines[k].qty] \in Item
  <2>1. ASSUME NEW k \in 1..Len(tx[s].lines)
        PROVE  tx[s].lines[k].product \in Product /\ tx[s].lines[k].qty \in Nat \ {0}
    <3>1. tx[s].lines[k] \in Line
      BY <1>3
    <3>. QED  BY <3>1 DEF Line
  <2>. QED  BY <2>1 DEF Item
<1>5. items \in Seq(Item)
  BY <1>3, <1>4
<1>6. tx[s].shift \in Nat /\ tx[s].base \in Key \cup {None}
  BY <1>1 DEF Tx
<1>7. ReceiptOf(s) = [key |-> KeyOf(s), type |-> tx[s].kind, shift |-> tx[s].shift,
                      base |-> tx[s].base, items |-> items]
  BY DEF ReceiptOf
<1>. HIDE DEF items
<1>. QED  BY <1>1, <1>2, <1>5, <1>6, <1>7 DEF Receipt

LEMMA CommitTyped ==
  ASSUME TypeInv, NEW s \in Session, Commit(s)
  PROVE  TypeInv'
<1>1. tx[s] \in Tx /\ KeyOf(s) \in Key /\ ReceiptOf(s) \in Receipt
  BY ReceiptTyped DEF Commit, TypeInv, TypeOK
<1>2. shift' \in [Register -> Seq(Shift)] /\ receipts' \subseteq Receipt
  BY <1>1 DEF Commit, TypeInv, TypeOK
<1>3. pool' \in [Code -> {"ABSENT", "AVAILABLE", "SOLD", "WRITTEN_OFF"}]
  BY DEF Commit, TypeInv, TypeOK, StatusAfter
<1>4. link' \in [Code -> Key \cup {None}]
  BY <1>1 DEF Commit, TypeInv, TypeOK
<1>5. gismt' \in [Code -> Seq(Operation)]
  <2>1. \A c \in Code : gismt[c] \in Seq(Operation) /\ Queued(s, c) \in Seq(Operation)
    BY <1>1, QueuedTyped DEF TypeInv, TypeOK
  <2>2. \A c \in Code : gismt[c] \o Queued(s, c) \in Seq(Operation)
    BY <2>1
  <2>. QED  BY <2>2 DEF Commit
<1>6. stock' \in [Product -> Row]
  <2>1. ASSUME NEW p \in Product
        PROVE  Added(stock[p], tx[s].qty[p]) \in Row /\ Deducted(stock[p], tx[s].qty[p]) \in Row
    <3>1. stock[p] \in Row /\ tx[s].qty[p] \in Nat
      BY <1>1 DEF TypeInv, TypeOK, Tx
    <3>. QED  BY <3>1 DEF Added, Deducted, Row
  <2>. QED  BY <2>1 DEF Commit, TypeInv, TypeOK
<1>7. /\ tx' \in [Session -> Tx] /\ \A t \in Session : Known(t)'
      /\ codeOwner' \in [Code -> Session \cup {NoSession}]
      /\ stockOwner' \in [Product -> Session \cup {NoSession}]
  BY FinishTyped DEF Commit
<1>. QED  BY <1>2, <1>3, <1>4, <1>5, <1>6, <1>7 DEF TypeInv, TypeOK

\* What a COMMIT adds to the numbers of the register.
LEMMA CommitNumber ==
  ASSUME TypeInv, Numbered, NEW s \in Session, Commit(s)
  PROVE  /\ Keys' = Keys \cup {KeyOf(s)} /\ KeyOf(s) \notin Keys
         /\ tx[s].reg \in Register
         /\ \A r : NumbersOf(r)' =
                   NumbersOf(r) \cup (IF r = tx[s].reg THEN {tx[s].number} ELSE {})
<1>1. tx[s].pc = "inserted" /\ receipts' = receipts \cup {ReceiptOf(s)}
  BY DEF Commit
<1>2. tx[s].reg \in Register /\ KeyOf(s) \notin Keys /\ ReceiptOf(s).key = KeyOf(s)
  BY <1>1, ReceiptTyped DEF TypeInv, Known, InReceipt, Numbered, Fresh
<1>3. Keys' = Keys \cup {KeyOf(s)}
  BY <1>1, <1>2 DEF Keys
<1>4. ASSUME NEW r
      PROVE  NumbersOf(r)' = NumbersOf(r) \cup (IF r = tx[s].reg THEN {tx[s].number} ELSE {})
  <2>1. KeyOf(s)[1] = tx[s].reg /\ KeyOf(s)[2] = tx[s].number
    BY DEF KeyOf
  <2>. QED  BY <1>3, <2>1 DEF NumbersOf
<1>. QED  BY <1>2, <1>3, <1>4

LEMMA CommitNumbered ==
  ASSUME TypeInv, Numbered, NEW s \in Session, Commit(s)
  PROVE  Numbered'
<1> DEFINE reg == tx[s].reg
           num == tx[s].number
<1>1. /\ Keys' = Keys \cup {KeyOf(s)} /\ KeyOf(s) \notin Keys /\ reg \in Register
      /\ \A r : NumbersOf(r)' = NumbersOf(r) \cup (IF r = reg THEN {num} ELSE {})
  BY CommitNumber
<1>2. tx[s].pc = "inserted" /\ num \in Nat \ {0} /\ (num = 1 \/ num - 1 \in NumbersOf(reg))
  BY DEF Commit, TypeInv, Known, Numbered, Follows, HasNumber
<1>3. tx'[s] = NoTx /\ \A t \in Session \ {s} : tx'[t] = tx[t]
  BY DEF Commit, Finish, TypeInv, TypeOK
<1>4. ASSUME NEW r \in Register PROVE Dense(r)'
  <2>1. CASE r # reg
    BY <1>1, <2>1 DEF Numbered, Dense
  <2>2. CASE r = reg
    <3>1. PICK n \in Nat : NumbersOf(reg) = 1..n
      BY <1>1 DEF Numbered, Dense
    <3>2. NumbersOf(r)' = (1..n) \cup {num}
      BY <1>1, <2>2, <3>1
    <3>3. num \in 1..(n + 1)
      BY <1>2, <3>1
    <3>4. CASE num \in 1..n
      <4>1. NumbersOf(r)' = 1..n
        BY <3>2, <3>4
      <4>. QED  BY <4>1 DEF Dense
    <3>5. CASE num = n + 1
      <4>1. NumbersOf(r)' = 1..(n + 1) /\ n + 1 \in Nat
        BY <3>2, <3>5
      <4>. QED  BY <4>1 DEF Dense
    <3>. QED  BY <3>3, <3>4, <3>5
  <2>. QED  BY <2>1, <2>2
<1>5. OneReceiptPerKey'
  <2>1. receipts' = receipts \cup {ReceiptOf(s)} /\ ReceiptOf(s).key = KeyOf(s)
    BY <1>2, ReceiptTyped DEF Commit
  <2>2. \A x \in receipts : x.key # KeyOf(s)
    BY <1>1 DEF Keys
  <2>. QED  BY <2>1, <2>2 DEF Numbered, OneReceiptPerKey
<1>6. ASSUME NEW t \in Session PROVE Follows(t)' /\ Fresh(t)'
  <2>1. CASE t = s
    BY <1>3, <2>1 DEF Follows, Fresh, HasNumber, NoTx
  <2>2. CASE t # s
    <3>1. tx'[t] = tx[t] /\ KeyOf(t)' = KeyOf(t)
      BY <1>3, <2>2 DEF KeyOf
    <3>2. \A r : NumbersOf(r) \subseteq NumbersOf(r)'
      BY <1>1
    <3>3. Follows(t)'
      BY <3>1, <3>2 DEF Numbered, Follows, HasNumber
    <3>4. Fresh(t)'
      <4>1. tx[t].pc = "inserted" => KeyOf(t) # KeyOf(s) /\ KeyOf(t) \notin Keys
        BY <1>2, <2>2 DEF Numbered, Fresh
      <4>2. \A u \in Session \ {t} : tx'[u].pc = "inserted" => tx[u].pc = "inserted" /\ KeyOf(u)' = KeyOf(u)
        BY <1>3 DEF KeyOf, NoTx
      <4>. QED  BY <1>1, <3>1, <4>1, <4>2 DEF Numbered, Fresh
    <3>. QED  BY <3>3, <3>4
  <2>. QED  BY <2>1, <2>2
<1>. QED  BY <1>4, <1>5, <1>6 DEF Numbered

-----------------------------------------------------------------------------
(* The other steps, and the invariant. *)

Inv == TypeInv /\ Numbered

LEMMA SellBeginInv ==
  ASSUME Inv, NEW s \in Session, NEW r \in Register, NEW kind \in Selling,
         NEW lines \in SaleRequest, SellBegin(s, r, kind, lines)
  PROVE  Inv'
<1>1. PICK n \in DOMAIN shift[r] :
        tx' = [tx EXCEPT ![s] = [NoTx EXCEPT !.pc = "resolve", !.kind = kind,
                                             !.reg = r, !.shift = n, !.lines = lines]]
  BY DEF SellBegin
<1> DEFINE rec == [NoTx EXCEPT !.pc = "resolve", !.kind = kind,
                               !.reg = r, !.shift = n, !.lines = lines]
<1>2. n \in Nat /\ lines \in Seq(Line) /\ kind \in Selling \cup {"RETURN", "none"}
  BY ConstantsAssumption DEF Inv, TypeInv, TypeOK
<1>3. rec \in Tx
  BY <1>2, NoTxTyped DEF Tx
<1>4. rec.pc = "resolve" /\ rec.reg = r /\ rec.kind = kind
  BY DEF NoTx
<1>. HIDE DEF rec
<1>5. tx' = [tx EXCEPT ![s] = rec] /\ UNCHANGED tables /\ UNCHANGED <<codeOwner, stockOwner>>
  BY <1>1 DEF SellBegin, rec
<1>6. Known(s)'
  BY <1>4, <1>5 DEF Inv, TypeInv, TypeOK, Known, InReceipt
<1>7. TypeInv'
  BY <1>3, <1>5, <1>6, RequestTyped DEF Inv, TypeInv, TypeOK
<1>8. Numbered'
  BY <1>4, <1>5, QuietNumbered DEF Inv, tables
<1>. QED  BY <1>7, <1>8 DEF Inv

LEMMA ReturnBeginInv ==
  ASSUME Inv, NEW s \in Session, NEW x \in receipts, NEW lines \in ReturnRequest,
         ReturnBegin(s, x, lines)
  PROVE  Inv'
<1> DEFINE rec == [NoTx EXCEPT !.pc = "resolve", !.kind = "RETURN", !.reg = x.key[1],
                               !.shift = x.shift, !.base = x.key, !.lines = lines]
<1>1. x \in Receipt /\ lines \in Seq(Line)
  BY ConstantsAssumption DEF Inv, TypeInv, TypeOK
<1>2. x.key \in Key /\ x.key[1] \in Register /\ x.shift \in Nat
  BY <1>1 DEF Receipt, Key
<1>3. rec \in Tx
  BY <1>1, <1>2, NoTxTyped DEF Tx
<1>4. rec.pc = "resolve" /\ rec.reg = x.key[1] /\ rec.kind = "RETURN"
  BY DEF NoTx
<1>. HIDE DEF rec
<1>5. tx' = [tx EXCEPT ![s] = rec] /\ UNCHANGED tables /\ UNCHANGED <<codeOwner, stockOwner>>
  BY DEF ReturnBegin, rec
<1>6. Known(s)'
  BY <1>2, <1>4, <1>5 DEF Inv, TypeInv, TypeOK, Known, InReceipt
<1>7. TypeInv'
  BY <1>3, <1>5, <1>6, RequestTyped DEF Inv, TypeInv, TypeOK
<1>8. Numbered'
  BY <1>4, <1>5, QuietNumbered DEF Inv, tables
<1>. QED  BY <1>7, <1>8 DEF Inv

LEMMA ShiftBeginInv ==
  ASSUME Inv, NEW s \in Session, NEW r \in Register,
         OpenRead(s, r) \/ \E n \in DOMAIN shift[r] : CloseRead(s, r, n)
  PROVE  Inv'
<1>1. PICK rec \in Tx : /\ tx' = [tx EXCEPT ![s] = rec]
                        /\ rec.pc \in {"open", "close"} /\ rec.reg = r
  <2>1. CASE OpenRead(s, r)
    <3> DEFINE rec == [NoTx EXCEPT !.pc = "open", !.reg = r, !.number = Len(shift[r]) + 1]
    <3>1. Len(shift[r]) + 1 \in Nat
      BY DEF Inv, TypeInv, TypeOK
    <3>2. rec \in Tx
      BY <3>1, NoTxTyped DEF Tx
    <3>3. rec.pc = "open" /\ rec.reg = r
      BY DEF NoTx
    <3>. QED  BY <2>1, <3>2, <3>3 DEF OpenRead
  <2>2. CASE \E n \in DOMAIN shift[r] : CloseRead(s, r, n)
    <3>1. PICK n \in DOMAIN shift[r] : CloseRead(s, r, n)
      BY <2>2
    <3> DEFINE rec == [NoTx EXCEPT !.pc = "close", !.reg = r, !.shift = n, !.report = ReportOf(r, n)]
    <3>2. n \in Nat
      BY DEF Inv, TypeInv, TypeOK
    <3>3. ReportOf(r, n) \subseteq Key
      BY DEF Inv, TypeInv, TypeOK, ReportOf, Receipt
    <3>4. rec \in Tx
      BY <3>2, <3>3, NoTxTyped DEF Tx
    <3>5. rec.pc = "close" /\ rec.reg = r
      BY DEF NoTx
    <3>. QED  BY <3>1, <3>4, <3>5 DEF CloseRead
  <2>. QED  BY <2>1, <2>2
<1>2. UNCHANGED tables /\ UNCHANGED <<codeOwner, stockOwner>>
  BY DEF OpenRead, CloseRead
<1>3. Known(s)'
  BY <1>1 DEF Inv, TypeInv, TypeOK, Known, InReceipt
<1>4. TypeInv'
  BY <1>1, <1>2, <1>3, RequestTyped DEF Inv, TypeInv, TypeOK
<1>5. Numbered'
  BY <1>1, <1>2, QuietNumbered DEF Inv, tables
<1>. QED  BY <1>4, <1>5 DEF Inv

\* A request that ends without a receipt.
LEMMA EndInv ==
  ASSUME Inv, NEW s \in Session, Finish(s), receipts' = receipts,
         pool' = pool, link' = link, gismt' = gismt, stock' = stock,
         shift' \in [Register -> Seq(Shift)]
  PROVE  Inv'
<1>1. TypeInv'
  BY FinishTyped DEF Inv, TypeInv, TypeOK
<1>2. tx' = [tx EXCEPT ![s] = NoTx] /\ NoTx.pc \notin {"number", "inserted"}
  BY DEF Finish, NoTx
<1>3. Numbered'
  BY <1>2, QuietNumbered DEF Inv
<1>. QED  BY <1>1, <1>3 DEF Inv

LEMMA OpenTyped ==
  ASSUME TypeInv, NEW s \in Session, OpenInsert(s)
  PROVE  shift' \in [Register -> Seq(Shift)]
<1>1. tx[s].reg \in Register /\ [status |-> "OPEN", report |-> {}] \in Shift
  BY DEF OpenInsert, TypeInv, Known, Shift
<1>2. Append(shift[tx[s].reg], [status |-> "OPEN", report |-> {}]) \in Seq(Shift)
  BY <1>1 DEF TypeInv, TypeOK
<1>. QED  BY <1>1, <1>2 DEF OpenInsert, TypeInv, TypeOK

LEMMA CloseTyped ==
  ASSUME TypeInv, NEW s \in Session, CloseWrite(s)
  PROVE  /\ shift' \in [Register -> Seq(Shift)]
         /\ tx[s].reg \in Register /\ tx[s].shift \in DOMAIN shift[tx[s].reg]
         /\ shift' = [shift EXCEPT ![tx[s].reg] =
              [shift[tx[s].reg] EXCEPT ![tx[s].shift] = [status |-> "CLOSED", report |-> tx[s].report]]]
<1>1. tx[s].reg \in Register /\ tx[s].shift \in DOMAIN shift[tx[s].reg]
  BY DEF CloseWrite, Closable, IsOpen, TypeInv, Known
<1>2. [status |-> "CLOSED", report |-> tx[s].report] \in Shift
  BY DEF TypeInv, TypeOK, Tx, Shift
<1>3. shift[tx[s].reg] \in Seq(Shift)
  BY <1>1 DEF TypeInv, TypeOK
<1>4. [shift[tx[s].reg] EXCEPT ![tx[s].shift] = [status |-> "CLOSED", report |-> tx[s].report]] \in Seq(Shift)
  BY <1>1, <1>2, <1>3, ReplacedInSeq
<1>5. shift' = [shift EXCEPT ![tx[s].reg] =
        [shift[tx[s].reg] EXCEPT ![tx[s].shift] = [status |-> "CLOSED", report |-> tx[s].report]]]
  BY DEF CloseWrite
<1>. QED  BY <1>1, <1>4, <1>5 DEF TypeInv, TypeOK

LEMMA CodesInv ==
  ASSUME Inv, (\E cs \in SUBSET Code : RegisterCodes(cs)) \/ (\E c \in Code : WriteOff(c))
  PROVE  Inv'
<1>1. UNCHANGED <<shift, receipts, link, stock, codeOwner, stockOwner, tx>>
  BY DEF RegisterCodes, WriteOff
<1>2. pool' \in [Code -> {"ABSENT", "AVAILABLE", "SOLD", "WRITTEN_OFF"}]
  BY DEF Inv, TypeInv, TypeOK, RegisterCodes, WriteOff
<1>3. gismt' \in [Code -> Seq(Operation)]
  <2>1. \A c \in Code : gismt[c] \in Seq(Operation)
    BY DEF Inv, TypeInv, TypeOK
  <2>2. \A o \in Operation, q \in Seq(Operation) : Append(q, o) \in Seq(Operation)
    OBVIOUS
  <2>3. [op |-> "RECEIVE", receipt |-> None] \in Operation /\ [op |-> "WRITE_OFF", receipt |-> None] \in Operation
    BY DEF Operation
  <2>4. CASE \E cs \in SUBSET Code : RegisterCodes(cs)
    <3>1. \A c \in Code : Append(gismt[c], [op |-> "RECEIVE", receipt |-> None]) \in Seq(Operation)
      BY <2>1, <2>2, <2>3
    <3>. QED  BY <2>1, <2>4, <3>1 DEF RegisterCodes
  <2>5. CASE \E c \in Code : WriteOff(c)
    <3>1. \A c \in Code : Append(gismt[c], [op |-> "WRITE_OFF", receipt |-> None]) \in Seq(Operation)
      BY <2>1, <2>2, <2>3
    <3>. QED  BY <2>1, <2>5, <3>1 DEF WriteOff, Inv, TypeInv, TypeOK
  <2>. QED  BY <2>4, <2>5
<1>4. TypeInv'
  BY <1>1, <1>2, <1>3 DEF Inv, TypeInv, TypeOK, Known, InReceipt
<1>5. Numbered'
  BY <1>1 DEF Inv, Numbered, Dense, NumbersOf, Keys, OneReceiptPerKey, Follows, Fresh, HasNumber, KeyOf
<1>. QED  BY <1>4, <1>5 DEF Inv

LEMMA StepInv ==
  ASSUME Inv, NEW s \in Session, Step(s) \/ Fail(s)
  PROVE  Inv'
<1>1. Progress(s) => Inv'
  <2>. SUFFICES ASSUME Progress(s) PROVE Inv'
    OBVIOUS
  <2>1. PICK rec \in Tx : /\ tx' = [tx EXCEPT ![s] = rec]
                          /\ rec.pc = tx[s].pc /\ rec.reg = tx[s].reg
                          /\ rec.kind = tx[s].kind /\ rec.number = tx[s].number
    BY DEF Progress
  <2>2. Numbered'
    BY <2>1, QuietNumbered DEF Inv, Progress, tables
  <2>. QED  BY <2>2, ProgressTyped DEF Inv
<1>2. CASE ResolveLine(s)
  BY <1>1, <1>2, ResolveLineProgresses DEF Inv
<1>3. CASE LockCode(s) \/ SkipCode(s)
  BY <1>1, <1>3, CodeProgresses DEF Inv
<1>4. CASE \E p \in Product : DeductCheck(s, p) \/ DeductWrite(s, p) \/ AddWrite(s, p)
  BY <1>1, <1>4, DeductProgresses, AddProgresses DEF Inv
<1>5. CASE ReadNumber(s)
  BY <1>5, ReadNumbered DEF Inv
<1>6. CASE InsertReceipt(s)
  BY <1>6, InsertTyped, InsertNumbered DEF Inv
<1>7. CASE Commit(s)
  BY <1>7, CommitTyped, CommitNumbered DEF Inv
<1>8. CASE OpenInsert(s)
  BY <1>8, OpenTyped, EndInv DEF Inv, OpenInsert
<1>9. CASE CloseWrite(s)
  BY <1>9, CloseTyped, EndInv DEF Inv, CloseWrite
<1>10. CASE Refuse(s) \/ DetectDeadlock(s) \/ Fail(s)
  <2>1. Finish(s) /\ UNCHANGED tables
    BY <1>10 DEF Refuse, DetectDeadlock, Fail, Rollback
  <2>. QED  BY <2>1, EndInv DEF Inv, TypeInv, TypeOK, tables
<1>. QED  BY <1>2, <1>3, <1>4, <1>5, <1>6, <1>7, <1>8, <1>9, <1>10 DEF Step

LEMMA NextInv ==
  ASSUME Inv, [Next]_vars
  PROVE  Inv'
<1>1. CASE \E s \in Session : Begin(s)
  <2>1. PICK s \in Session : Begin(s)
    BY <1>1
  <2>. QED  BY <2>1, SellBeginInv, ReturnBeginInv, ShiftBeginInv DEF Begin
<1>2. CASE \E s \in Session : Step(s) \/ Fail(s)
  BY <1>2, StepInv
<1>3. CASE (\E cs \in SUBSET Code : RegisterCodes(cs)) \/ (\E c \in Code : WriteOff(c))
  BY <1>3, CodesInv
<1>4. CASE UNCHANGED vars
  <2>1. UNCHANGED <<shift, receipts, pool, link, gismt, stock, codeOwner, stockOwner, tx>>
    BY <1>4 DEF vars, tables
  <2>2. TypeInv'
    BY <2>1 DEF Inv, TypeInv, TypeOK, Known, InReceipt
  <2>3. Numbered'
    BY <2>1 DEF Inv, Numbered, Dense, NumbersOf, Keys, OneReceiptPerKey, Follows, Fresh, HasNumber, KeyOf
  <2>. QED  BY <2>2, <2>3 DEF Inv
<1>. QED  BY <1>1, <1>2, <1>3, <1>4 DEF Next

LEMMA InitInv ==
  ASSUME Init
  PROVE  Inv
<1>1. TypeInv
  BY NoTxTyped, ConstantsAssumption DEF Init, TypeInv, TypeOK, Known, InReceipt, NoTx
<1>2. \A r : NumbersOf(r) = {}
  BY DEF Init, NumbersOf, Keys
<1>3. \A r \in Register : Dense(r)
  BY <1>2 DEF Dense
<1>4. \A s \in Session : Follows(s) /\ Fresh(s)
  BY DEF Init, Follows, Fresh, HasNumber, NoTx
<1>. QED  BY <1>1, <1>3, <1>4 DEF Init, Inv, Numbered, OneReceiptPerKey

THEOREM Invariance == Spec => []Inv
  BY InitInv, NextInv, PTL DEF Spec

\* The tables, the row locks and every request in progress keep their types,
\* whatever the interleaving of the handlers of service/receipt.go.
THEOREM TypeCorrect == Spec => []TypeOK
<1>1. Inv => TypeOK
  BY DEF Inv, TypeInv
<1>. QED  BY <1>1, Invariance, PTL

\* Receipt numbers have no gap and are used once, although ReceiptRepo.Insert
\* reads the last one without a lock: the unique index makes up for it.
THEOREM NumbersAreDense == Spec => []NumbersDense
<1>1. Inv => NumbersDense
  BY DenseMeansDense DEF Inv
<1>. QED  BY <1>1, Invariance, PTL

-----------------------------------------------------------------------------
(* Steps that must not happen. *)

\* Only Commit touches the receipts.
LEMMA ReceiptsChange ==
  ASSUME [Next]_vars
  PROVE  receipts' = receipts \/ \E s \in Session : Commit(s)
  BY DEF Next, Begin, Step, Fail, SellBegin, ReturnBegin, OpenRead, CloseRead, ResolveLine,
         LockCode, SkipCode, DeductCheck, DeductWrite, AddWrite, ReadNumber, InsertReceipt,
         OpenInsert, CloseWrite, Refuse, DetectDeadlock, Rollback, RegisterCodes, WriteOff,
         vars, tables

LEMMA CommitAppends ==
  ASSUME Inv, NEW s \in Session, Commit(s)
  PROVE  \A x \in receipts' \ receipts : \A y \in receipts :
           x.key[1] = y.key[1] => y.key[2] < x.key[2]
<1>1. tx[s].pc = "inserted" /\ receipts' = receipts \cup {ReceiptOf(s)} /\ ReceiptOf(s).key = KeyOf(s)
  BY ReceiptTyped DEF Commit, Inv
<1>2. tx[s].reg \in Register /\ tx[s].number \in Nat \ {0} /\ KeyOf(s) \notin Keys
      /\ (tx[s].number = 1 \/ tx[s].number - 1 \in NumbersOf(tx[s].reg))
  BY <1>1 DEF Inv, TypeInv, Known, InReceipt, Numbered, Fresh, Follows, HasNumber
<1>3. PICK n \in Nat : NumbersOf(tx[s].reg) = 1..n
  BY <1>2 DEF Inv, Numbered, Dense
<1>4. tx[s].number \notin NumbersOf(tx[s].reg)
  <2>1. \A k \in Keys : k = <<k[1], k[2]>>
    BY DEF Inv, TypeInv, TypeOK, Receipt, Key, Keys
  <2>. QED  BY <1>2, <2>1 DEF NumbersOf, KeyOf
<1>5. tx[s].number = n + 1
  BY <1>2, <1>3, <1>4
<1>6. ASSUME NEW y \in receipts, y.key[1] = tx[s].reg PROVE y.key[2] < tx[s].number
  <2>1. y.key[2] \in NumbersOf(tx[s].reg)
    BY <1>6 DEF NumbersOf, Keys
  <2>. QED  BY <1>3, <1>5, <2>1
<1>. QED  BY <1>1, <1>6 DEF KeyOf

\* Committed receipts stay, and those of a register commit in the order of their
\* numbers: a request that has read a smaller number cannot come later.
THEOREM ReceiptsAreAppended == Spec => ReceiptsAppended
<1>1. Inv /\ [Next]_vars => [/\ receipts \subseteq receipts'
                             /\ \A x \in receipts' \ receipts : \A y \in receipts :
                                 x.key[1] = y.key[1] => y.key[2] < x.key[2]]_vars
  BY ReceiptsChange, CommitAppends DEF Commit
<1>. QED  BY <1>1, Invariance, PTL DEF Spec, ReceiptsAppended

-----------------------------------------------------------------------------
(* The shifts. *)

\* How a step may change the shifts.
Opens(s) ==
  /\ tx[s].reg \in Register /\ NoneOpen(tx[s].reg)
  /\ shift' = [shift EXCEPT ![tx[s].reg] = Append(@, [status |-> "OPEN", report |-> {}])]

Closes(s) ==
  /\ tx[s].pc = "close" /\ tx[s].reg \in Register
  /\ tx[s].shift \in DOMAIN shift[tx[s].reg] /\ IsOpen(tx[s].reg, tx[s].shift)
  /\ shift' = [shift EXCEPT ![tx[s].reg] =
       [shift[tx[s].reg] EXCEPT ![tx[s].shift] = [status |-> "CLOSED", report |-> tx[s].report]]]

LEMMA ShiftsChange ==
  ASSUME Inv, [Next]_vars
  PROVE  \/ shift' = shift
         \/ receipts' = receipts /\ \E s \in Session : Opens(s) \/ Closes(s)
<1>1. ASSUME NEW s \in Session, OpenInsert(s) PROVE receipts' = receipts /\ Opens(s)
  BY <1>1 DEF OpenInsert, Opens, Inv, TypeInv, Known
<1>2. ASSUME NEW s \in Session, CloseWrite(s) PROVE receipts' = receipts /\ Closes(s)
  <2>1. receipts' = receipts /\ tx[s].pc = "close" /\ IsOpen(tx[s].reg, tx[s].shift)
    BY <1>2 DEF CloseWrite, Closable
  <2>. QED  BY <1>2, <2>1, CloseTyped DEF Closes, Inv
<1>3. shift' = shift \/ \E s \in Session : OpenInsert(s) \/ CloseWrite(s)
  BY DEF Next, Begin, Step, Fail, SellBegin, ReturnBegin, OpenRead, CloseRead, ResolveLine,
         LockCode, SkipCode, DeductCheck, DeductWrite, AddWrite, ReadNumber, InsertReceipt,
         Commit, Refuse, DetectDeadlock, Rollback, RegisterCodes, WriteOff, vars, tables
<1>. QED  BY <1>1, <1>2, <1>3

\* The shifts of a register after a step that opens or closes one.
LEMMA OpensShift ==
  ASSUME Inv, NEW s \in Session, Opens(s)
  PROVE  /\ \A r \in Register \ {tx[s].reg} : shift'[r] = shift[r]
         /\ Len(shift'[tx[s].reg]) = Len(shift[tx[s].reg]) + 1
         /\ \A n \in 1..Len(shift[tx[s].reg]) : shift'[tx[s].reg][n] = shift[tx[s].reg][n]
         /\ shift'[tx[s].reg][Len(shift[tx[s].reg]) + 1] = [status |-> "OPEN", report |-> {}]
         /\ shift[tx[s].reg] \in Seq(Shift) /\ shift'[tx[s].reg] \in Seq(Shift)
<1> DEFINE q == shift[tx[s].reg]
           new == [status |-> "OPEN", report |-> {}]
<1>1. q \in Seq(Shift) /\ new \in Shift /\ tx[s].reg \in Register
  BY DEF Inv, TypeInv, TypeOK, Opens, Shift
<1>2. shift'[tx[s].reg] = Append(q, new) /\ \A r \in Register \ {tx[s].reg} : shift'[r] = shift[r]
  BY <1>1 DEF Inv, TypeInv, TypeOK, Opens
<1>. HIDE DEF q, new
<1>3. /\ Len(Append(q, new)) = Len(q) + 1 /\ Append(q, new)[Len(q) + 1] = new
      /\ \A n \in 1..Len(q) : Append(q, new)[n] = q[n]
      /\ Append(q, new) \in Seq(Shift)
  BY <1>1
<1>. QED  BY <1>1, <1>2, <1>3 DEF q, new

LEMMA ClosesShift ==
  ASSUME Inv, NEW s \in Session, Closes(s)
  PROVE  /\ \A r \in Register \ {tx[s].reg} : shift'[r] = shift[r]
         /\ Len(shift'[tx[s].reg]) = Len(shift[tx[s].reg])
         /\ DOMAIN shift'[tx[s].reg] = DOMAIN shift[tx[s].reg]
         /\ \A n \in DOMAIN shift[tx[s].reg] \ {tx[s].shift} :
              shift'[tx[s].reg][n] = shift[tx[s].reg][n]
         /\ shift'[tx[s].reg][tx[s].shift] = [status |-> "CLOSED", report |-> tx[s].report]
         /\ shift[tx[s].reg] \in Seq(Shift) /\ shift'[tx[s].reg] \in Seq(Shift)
<1> DEFINE q == shift[tx[s].reg]
           new == [status |-> "CLOSED", report |-> tx[s].report]
           r0 == tx[s].reg
           n0 == tx[s].shift
<1>1. q \in Seq(Shift) /\ new \in Shift /\ r0 \in Register /\ n0 \in DOMAIN q
  BY DEF Inv, TypeInv, TypeOK, Closes, Shift, Tx
<1>2. shift'[r0] = [q EXCEPT ![n0] = new] /\ \A r \in Register \ {r0} : shift'[r] = shift[r]
  BY <1>1 DEF Inv, TypeInv, TypeOK, Closes
<1>. HIDE DEF q, new, n0
<1>3. [q EXCEPT ![n0] = new] \in Seq(Shift) /\ Len([q EXCEPT ![n0] = new]) = Len(q)
  BY <1>1, ReplacedInSeq
<1>4. DOMAIN [q EXCEPT ![n0] = new] = DOMAIN q
  BY <1>1
<1>5. [q EXCEPT ![n0] = new][n0] = new /\ \A n \in DOMAIN q \ {n0} : [q EXCEPT ![n0] = new][n] = q[n]
  BY <1>1
<1>. QED  BY <1>1, <1>2, <1>3, <1>4, <1>5 DEF q, new, n0

-----------------------------------------------------------------------------
(* One open shift, and closed shifts. *)

LEMMA StepOneOpen ==
  ASSUME Inv, OneOpenShift, [Next]_vars
  PROVE  OneOpenShift'
<1>1. CASE shift' = shift
  BY <1>1 DEF OneOpenShift, IsOpen
<1>2. ASSUME NEW s \in Session, Opens(s) PROVE OneOpenShift'
  <2>1. ASSUME NEW r \in Register, NEW n \in DOMAIN shift'[r], IsOpen(r, n)'
        PROVE  n = Len(shift'[r])
    <3>1. CASE r # tx[s].reg
      <4>1. shift'[r] = shift[r]
        BY <1>2, <3>1, OpensShift
      <4>. QED  BY <2>1, <4>1 DEF OneOpenShift, IsOpen
    <3>2. CASE r = tx[s].reg
      <4>1. /\ Len(shift'[r]) = Len(shift[r]) + 1 /\ DOMAIN shift'[r] = 1..(Len(shift[r]) + 1)
            /\ DOMAIN shift[r] = 1..Len(shift[r]) /\ Len(shift[r]) \in Nat
            /\ \A k \in 1..Len(shift[r]) : shift'[r][k] = shift[r][k]
        BY <1>2, <3>2, OpensShift
      <4>2. \A k \in 1..Len(shift[r]) : shift[r][k].status # "OPEN"
        BY <1>2, <3>2, <4>1 DEF Opens, NoneOpen, IsOpen
      <4>. QED  BY <2>1, <4>1, <4>2 DEF IsOpen
    <3>. QED  BY <3>1, <3>2
  <2>. QED  BY <2>1 DEF OneOpenShift
<1>3. ASSUME NEW s \in Session, Closes(s) PROVE OneOpenShift'
  <2>1. ASSUME NEW r \in Register, NEW n \in DOMAIN shift'[r], IsOpen(r, n)'
        PROVE  n = Len(shift'[r])
    <3>1. CASE r # tx[s].reg
      <4>1. shift'[r] = shift[r]
        BY <1>3, <3>1, ClosesShift
      <4>. QED  BY <2>1, <4>1 DEF OneOpenShift, IsOpen
    <3>2. CASE r = tx[s].reg
      <4>1. Len(shift'[r]) = Len(shift[r]) /\ DOMAIN shift'[r] = DOMAIN shift[r]
        BY <1>3, <3>2, ClosesShift
      <4>2. n # tx[s].shift
        <5>1. shift'[r][tx[s].shift] = [status |-> "CLOSED", report |-> tx[s].report]
          BY <1>3, <3>2, ClosesShift
        <5>. QED  BY <2>1, <5>1 DEF IsOpen
      <4>3. shift'[r][n] = shift[r][n]
        BY <1>3, <3>2, <4>1, <4>2, ClosesShift
      <4>. QED  BY <2>1, <4>1, <4>3 DEF OneOpenShift, IsOpen
    <3>. QED  BY <3>1, <3>2
  <2>. QED  BY <2>1 DEF OneOpenShift
<1>. QED  BY <1>1, <1>2, <1>3, ShiftsChange

\* A register never has two open shifts: OpenShift checks nothing, the partial
\* index idx_shift_open_once does, and requests race for it.
THEOREM OneShiftIsOpen == Spec => []OneOpenShift
<1>1. Init => OneOpenShift
  BY DEF Init, OneOpenShift
<1>2. Inv /\ OneOpenShift /\ [Next]_vars => OneOpenShift'
  BY StepOneOpen
<1>. QED  BY <1>1, <1>2, Invariance, PTL DEF Spec

ClosedKept ==
  \A r \in Register : \A n \in DOMAIN shift[r] :
    shift[r][n].status = "CLOSED" => n \in DOMAIN shift'[r] /\ shift'[r][n] = shift[r][n]

LEMMA StepClosedKept ==
  ASSUME Inv, [Next]_vars
  PROVE  ClosedKept
<1>1. CASE shift' = shift
  BY <1>1 DEF ClosedKept
<1>2. ASSUME NEW s \in Session, Opens(s) PROVE ClosedKept
  <2>1. ASSUME NEW r \in Register, NEW n \in DOMAIN shift[r]
        PROVE  n \in DOMAIN shift'[r] /\ shift'[r][n] = shift[r][n]
    <3>1. CASE r # tx[s].reg
      BY <1>2, <3>1, OpensShift
    <3>2. CASE r = tx[s].reg
      <4>1. /\ DOMAIN shift'[r] = 1..(Len(shift[r]) + 1)
            /\ DOMAIN shift[r] = 1..Len(shift[r]) /\ Len(shift[r]) \in Nat
            /\ \A k \in 1..Len(shift[r]) : shift'[r][k] = shift[r][k]
        BY <1>2, <3>2, OpensShift
      <4>. QED  BY <4>1
    <3>. QED  BY <3>1, <3>2
  <2>. QED  BY <2>1 DEF ClosedKept
<1>3. ASSUME NEW s \in Session, Closes(s) PROVE ClosedKept
  <2>1. ASSUME NEW r \in Register, NEW n \in DOMAIN shift[r], shift[r][n].status = "CLOSED"
        PROVE  n \in DOMAIN shift'[r] /\ shift'[r][n] = shift[r][n]
    <3>1. CASE r # tx[s].reg
      BY <1>3, <3>1, ClosesShift
    <3>2. CASE r = tx[s].reg
      <4>1. n # tx[s].shift
        BY <1>3, <2>1, <3>2 DEF Closes, IsOpen
      <4>2. DOMAIN shift'[r] = DOMAIN shift[r]
        BY <1>3, <3>2, ClosesShift
      <4>. QED  BY <1>3, <3>2, <4>1, <4>2, ClosesShift
    <3>. QED  BY <3>1, <3>2
  <2>. QED  BY <2>1 DEF ClosedKept
<1>. QED  BY <1>1, <1>2, <1>3, ShiftsChange

\* A shift closed by one of two concurrent requests keeps the Z report of that
\* request: the UPDATE of the other finds no open shift.
THEOREM ClosedStaysClosed == Spec => ClosedForever
<1>1. Inv /\ [Next]_vars => [ClosedKept]_vars
  BY StepClosedKept
<1>. QED  BY <1>1, Invariance, PTL DEF Spec, ClosedForever, ClosedKept

-----------------------------------------------------------------------------
(* Z reports. *)

\* R counts every receipt of shift n of r up to the last one it counts.
Prefix(R, r, n) ==
  /\ \A k \in R : k \in Keys /\ k[1] = r
  /\ \A k \in R : \A x \in receipts :
       x.key[1] = r /\ x.shift = n /\ x.type # "CORRECTION" /\ x.key[2] <= k[2] => x.key \in R

\* The report a request has read, and those stored.
Reports ==
  /\ \A s \in Session : tx[s].pc = "close" => Prefix(tx[s].report, tx[s].reg, tx[s].shift)
  /\ \A r \in Register : \A n \in DOMAIN shift[r] : Prefix(shift[r][n].report, r, n)

LEMMA ReportOfIsPrefix ==
  ASSUME NEW r, NEW n
  PROVE  Prefix(ReportOf(r, n), r, n)
  BY DEF Prefix, ReportOf, Keys

\* Later receipts have larger numbers, so they leave a prefix one.
LEMMA PrefixStays ==
  ASSUME Inv, [Next]_vars, NEW R, NEW r, NEW n, Prefix(R, r, n)
  PROVE  Prefix(R, r, n)'
<1>1. CASE receipts' = receipts
  BY <1>1 DEF Prefix, Keys
<1>2. ASSUME NEW s \in Session, Commit(s) PROVE Prefix(R, r, n)'
  <2>1. receipts \subseteq receipts' /\ Keys \subseteq Keys'
    BY <1>2 DEF Commit, Keys
  <2>2. ASSUME NEW k \in R, NEW x \in receipts' \ receipts, x.key[1] = r, x.key[2] <= k[2]
        PROVE  FALSE
    <3>1. PICK y \in receipts : y.key = k
      BY <2>2 DEF Prefix, Keys
    <3>2. y.key[1] = x.key[1]
      BY <2>2, <3>1 DEF Prefix
    <3>3. y.key[2] < x.key[2]
      BY <1>2, <2>2, <3>2, CommitAppends
    <3>4. x.key[2] \in Nat /\ k[2] \in Nat
      BY <1>2, <2>1, <2>2, <3>1, CommitTyped DEF Inv, TypeInv, TypeOK, Receipt, Key
    <3>. QED  BY <2>2, <3>1, <3>3, <3>4
  <2>. QED  BY <2>1, <2>2 DEF Prefix
<1>. QED  BY <1>1, <1>2, ReceiptsChange

\* A request is about to store a report only after CloseRead.
LEMMA ClosingAfterRead ==
  ASSUME Inv, [Next]_vars, NEW s \in Session, tx'[s].pc = "close"
  PROVE  tx'[s] = tx[s] \/ \E r \in Register : \E n \in DOMAIN shift[r] : CloseRead(s, r, n)
<1>1. \A t \in Session : tx[t] \in Tx
  BY DEF Inv, TypeInv, TypeOK
<1>2. ASSUME NEW t \in Session, t # s, Begin(t) \/ Step(t) \/ Fail(t) PROVE tx'[s] = tx[s]
  <2>1. \A rec : tx' = [tx EXCEPT ![t] = rec] => tx'[s] = tx[s]
    BY <1>2 DEF Inv, TypeInv, TypeOK
  <2>2. CASE Begin(t)
    BY <2>1, <2>2 DEF Begin, SellBegin, ReturnBegin, OpenRead, CloseRead
  <2>3. CASE Step(t) \/ Fail(t)
    <3>1. Finish(t) \/ Progress(t) => tx'[s] = tx[s]
      BY <2>1 DEF Finish, Progress
    <3>2. ReadNumber(t) \/ InsertReceipt(t) => tx'[s] = tx[s]
      BY <1>2 DEF ReadNumber, InsertReceipt, Inv, TypeInv, TypeOK
    <3>. QED  BY <2>3, <3>1, <3>2, ResolveLineProgresses, CodeProgresses, DeductProgresses, AddProgresses
              DEF Inv, Step, Fail, Commit, OpenInsert, CloseWrite, Refuse, DetectDeadlock, Rollback
  <2>. QED  BY <1>2, <2>2, <2>3
<1>3. ASSUME Begin(s) PROVE \E r \in Register : \E n \in DOMAIN shift[r] : CloseRead(s, r, n)
  <2>1. tx'[s].pc = "resolve" \/ tx'[s].pc = "open"
          \/ \E r \in Register : \E n \in DOMAIN shift[r] : CloseRead(s, r, n)
    BY <1>3 DEF Begin, SellBegin, ReturnBegin, OpenRead, NoTx, Inv, TypeInv, TypeOK
  <2>. QED  BY <2>1
<1>4. ASSUME Step(s) \/ Fail(s) PROVE FALSE
  <2>1. ~Finish(s)
    BY DEF Finish, NoTx, Inv, TypeInv, TypeOK
  <2>2. ASSUME NEW rec \in Tx, tx' = [tx EXCEPT ![s] = rec] PROVE rec.pc = "close"
    BY <2>2 DEF Inv, TypeInv, TypeOK
  <2>3. tx[s].pc \in {"resolve", "inserted"} => ~Progress(s)
    BY <2>2 DEF Progress
  <2>4. ~ResolveLine(s) /\ ~LockCode(s) /\ ~SkipCode(s)
    BY <2>3, ResolveLineProgresses, CodeProgresses
       DEF Inv, ResolveLine, LockCode, SkipCode, AtLine, AtCode
  <2>5. ~\E p \in Product : DeductCheck(s, p) \/ DeductWrite(s, p) \/ AddWrite(s, p)
    BY <2>3, DeductProgresses, AddProgresses DEF Inv, DeductCheck, DeductWrite, AddWrite, Resolved
  <2>6. ~ReadNumber(s) /\ ~InsertReceipt(s)
    BY <1>1 DEF ReadNumber, InsertReceipt, Tx, Inv, TypeInv, TypeOK
  <2>. QED  BY <1>4, <2>1, <2>4, <2>5, <2>6
            DEF Step, Fail, Commit, OpenInsert, CloseWrite, Refuse, DetectDeadlock, Rollback
<1>5. CASE UNCHANGED tx
  BY <1>5
<1>6. CASE (\E cs \in SUBSET Code : RegisterCodes(cs)) \/ (\E c \in Code : WriteOff(c)) \/ UNCHANGED vars
  BY <1>6 DEF RegisterCodes, WriteOff, vars
<1>. QED  BY <1>2, <1>3, <1>4, <1>6 DEF Next

LEMMA StepReports ==
  ASSUME Inv, Reports, [Next]_vars
  PROVE  Reports'
<1>1. \A R, r, n : Prefix(R, r, n) => Prefix(R, r, n)'
  BY PrefixStays
<1>2. ASSUME NEW s \in Session, tx'[s].pc = "close"
      PROVE  \E R, r, n : /\ R = tx'[s].report /\ r = tx'[s].reg /\ n = tx'[s].shift
                          /\ Prefix(R, r, n)
  <2>1. CASE tx'[s] = tx[s]
    BY <1>2, <2>1 DEF Reports
  <2>2. CASE \E r \in Register : \E n \in DOMAIN shift[r] : CloseRead(s, r, n)
    <3>0. PICK r \in Register : \E n \in DOMAIN shift[r] : CloseRead(s, r, n)
      BY <2>2
    <3>1. PICK n \in DOMAIN shift[r] : CloseRead(s, r, n)
      BY <3>0
    <3>2. tx'[s].report = ReportOf(r, n) /\ tx'[s].reg = r /\ tx'[s].shift = n
      BY <3>1 DEF CloseRead, NoTx, Inv, TypeInv, TypeOK
    <3>. QED  BY <3>2, ReportOfIsPrefix
  <2>. QED  BY <1>2, <2>1, <2>2, ClosingAfterRead
<1>3. ASSUME NEW r \in Register, NEW n \in DOMAIN shift'[r]
      PROVE  \E R : R = shift'[r][n].report /\ Prefix(R, r, n)
  <2>1. CASE n \in DOMAIN shift[r] /\ shift'[r][n] = shift[r][n]
    BY <2>1 DEF Reports
  <2>2. CASE shift'[r][n].report = {}
    BY <2>2 DEF Prefix
  <2>3. CASE \E s \in Session : /\ tx[s].pc = "close" /\ r = tx[s].reg /\ n = tx[s].shift
                                /\ shift'[r][n].report = tx[s].report
    BY <2>3 DEF Reports
  <2>4. ASSUME NEW s \in Session, Opens(s)
        PROVE  (n \in DOMAIN shift[r] /\ shift'[r][n] = shift[r][n]) \/ shift'[r][n].report = {}
    <3>1. CASE r # tx[s].reg
      BY <2>4, <3>1, OpensShift
    <3>2. CASE r = tx[s].reg
      <4>1. /\ DOMAIN shift'[r] = 1..(Len(shift[r]) + 1)
            /\ DOMAIN shift[r] = 1..Len(shift[r]) /\ Len(shift[r]) \in Nat
            /\ \A k \in 1..Len(shift[r]) : shift'[r][k] = shift[r][k]
            /\ shift'[r][Len(shift[r]) + 1].report = {}
        BY <2>4, <3>2, OpensShift
      <4>. QED  BY <4>1
    <3>. QED  BY <3>1, <3>2
  <2>5. ASSUME NEW s \in Session, Closes(s)
        PROVE  \/ n \in DOMAIN shift[r] /\ shift'[r][n] = shift[r][n]
               \/ /\ tx[s].pc = "close" /\ r = tx[s].reg /\ n = tx[s].shift
                  /\ shift'[r][n].report = tx[s].report
    <3>1. CASE r # tx[s].reg
      BY <2>5, <3>1, ClosesShift
    <3>2. CASE r = tx[s].reg
      <4>1. tx[s].pc = "close" /\ shift'[r][tx[s].shift].report = tx[s].report
        <5>1. shift'[r][tx[s].shift] = [status |-> "CLOSED", report |-> tx[s].report]
          BY <2>5, <3>2, ClosesShift
        <5>. QED  BY <2>5, <5>1 DEF Closes
      <4>2. DOMAIN shift'[r] = DOMAIN shift[r]
        BY <2>5, <3>2, ClosesShift
      <4>3. n # tx[s].shift => shift'[r][n] = shift[r][n]
        BY <2>5, <3>2, <4>2, ClosesShift
      <4>. QED  BY <3>2, <4>1, <4>2, <4>3
    <3>. QED  BY <3>1, <3>2
  <2>. QED  BY <2>1, <2>2, <2>3, <2>4, <2>5, ShiftsChange
<1>4. ASSUME NEW s \in Session, tx'[s].pc = "close"
      PROVE  Prefix(tx[s].report, tx[s].reg, tx[s].shift)'
  <2>1. PICK R, r, n : /\ R = tx'[s].report /\ r = tx'[s].reg /\ n = tx'[s].shift
                       /\ Prefix(R, r, n)
    BY <1>2, <1>4
  <2>2. Prefix(R, r, n)'
    BY <1>1, <2>1
  <2>. QED  BY <2>1, <2>2 DEF Prefix
<1>5. ASSUME NEW r \in Register, NEW n \in DOMAIN shift'[r]
      PROVE  Prefix(shift[r][n].report, r, n)'
  <2>1. PICK R : R = shift'[r][n].report /\ Prefix(R, r, n)
    BY <1>3, <1>5
  <2>2. Prefix(R, r, n)'
    BY <1>1, <2>1
  <2>. QED  BY <2>1, <2>2 DEF Prefix
<1>. QED  BY <1>4, <1>5 DEF Reports

\* A Z report may lack receipts that commit while the shift is being closed, and
\* those are the last of the shift: it never has a gap.
THEOREM ReportsArePrefixes == Spec => []ReportIsPrefix
<1>1. Init => Reports
  BY DEF Init, Reports, NoTx
<1>2. Inv /\ Reports /\ [Next]_vars => Reports'
  BY StepReports
<1>3. Reports => ReportIsPrefix
  BY DEF Reports, Prefix, ReportIsPrefix
<1>. QED  BY <1>1, <1>2, <1>3, Invariance, PTL DEF Spec

-----------------------------------------------------------------------------
(* Marking codes.  A request that has accepted a code holds its row until  *)
(* it ends, so what LockCodes or SoldCodeInReceipt has read of it is still *)
(* so when the receipt commits; and whatever changes the status of a code  *)
(* queues the operation that tells of it in the same transaction.          *)

\* What a request in progress knows of the codes it has locked.
Holds(s) ==
  /\ ~InReceipt(s) => tx[s].ids = <<>>
  /\ \A c \in ToSet(tx[s].ids) :
       /\ codeOwner[c] = s
       /\ tx[s].kind = "RETURN" => pool[c] = "SOLD" /\ link[c] = tx[s].base
       /\ tx[s].kind \in Selling => pool[c] = "AVAILABLE"
       /\ tx[s].kind \in Selling /\ tx[s].pc = "inserted" => link[c] = None

\* The receipts that the operations in a queue return the code by.
ReturnsIn(q) == {q[j].receipt : j \in {j \in DOMAIN q : q[j].op = "RETURN"}}

Returned(c, k) == \E x \in receipts : x.key = k /\ x.type = "RETURN" /\ x.base = link[c]

Ledger(c) ==
  /\ pool[c] = "SOLD" <=> link[c] # None /\ ReturnsIn(gismt[c]) = {}
  /\ link[c] = None => ReturnsIn(gismt[c]) = {}
  /\ link[c] # None => \E x \in receipts : x.key = link[c] /\ x.type \in Selling
  /\ \A k \in ReturnsIn(gismt[c]) : Returned(c, k)
  /\ \A k, l \in ReturnsIn(gismt[c]) : k = l

CodeInv == (\A s \in Session : Holds(s)) /\ \A c \in Code : Ledger(c)

LEMMA LedgerMeansLedger ==
  ASSUME CodeInv
  PROVE  CodeLedger /\ ReturnedOnce
<1>1. \A c \in Code : Queue(c, "RETURN") = {} <=> ReturnsIn(gismt[c]) = {}
  BY DEF Queue, ReturnsIn
<1>2. \A c \in Code : \A j \in Queue(c, "RETURN") : gismt[c][j].receipt \in ReturnsIn(gismt[c])
  BY DEF Queue, ReturnsIn
<1>3. CodeLedger
  BY <1>1 DEF CodeInv, Ledger, CodeLedger
<1>4. ReturnedOnce
  BY <1>2 DEF CodeInv, Ledger, ReturnedOnce, Returned
<1>. QED  BY <1>3, <1>4

-----------------------------------------------------------------------------
(* Operations queued. *)

LEMMA ReturnsInConcat ==
  ASSUME NEW q \in Seq(Operation), NEW w \in Seq(Operation)
  PROVE  ReturnsIn(q \o w) = ReturnsIn(q) \cup ReturnsIn(w)
<1> DEFINE z == q \o w
<1>1. /\ DOMAIN z = 1..(Len(q) + Len(w)) /\ DOMAIN q = 1..Len(q) /\ DOMAIN w = 1..Len(w)
      /\ Len(q) \in Nat /\ Len(w) \in Nat
      /\ \A j \in DOMAIN q : z[j] = q[j]
      /\ \A j \in DOMAIN w : z[Len(q) + j] = w[j]
  OBVIOUS
<1>. HIDE DEF z
<1>2. ReturnsIn(q) \subseteq ReturnsIn(z)
  BY <1>1 DEF ReturnsIn
<1>3. ASSUME NEW k \in ReturnsIn(w) PROVE k \in ReturnsIn(z)
  <2>1. PICK j \in DOMAIN w : w[j].op = "RETURN" /\ k = w[j].receipt
    BY <1>3 DEF ReturnsIn
  <2>2. Len(q) + j \in DOMAIN z /\ z[Len(q) + j] = w[j]
    BY <1>1
  <2>. QED  BY <2>1, <2>2 DEF ReturnsIn
<1>4. ASSUME NEW k \in ReturnsIn(z) PROVE k \in ReturnsIn(q) \cup ReturnsIn(w)
  <2>1. PICK j \in DOMAIN z : z[j].op = "RETURN" /\ k = z[j].receipt
    BY <1>4 DEF ReturnsIn
  <2>2. CASE j \in DOMAIN q
    BY <1>1, <2>1, <2>2 DEF ReturnsIn
  <2>3. CASE j \notin DOMAIN q
    <3>1. j - Len(q) \in DOMAIN w /\ Len(q) + (j - Len(q)) = j
      BY <1>1, <2>3
    <3>2. w[j - Len(q)] = z[j]
      BY <1>1, <3>1
    <3>. QED  BY <2>1, <3>1, <3>2 DEF ReturnsIn
  <2>. QED  BY <2>2, <2>3
<1>. QED  BY <1>2, <1>3, <1>4 DEF z

LEMMA ReturnsInAppend ==
  ASSUME NEW q \in Seq(Operation), NEW o \in Operation, o.op # "RETURN"
  PROVE  ReturnsIn(Append(q, o)) = ReturnsIn(q)
<1>1. <<o>> \in Seq(Operation) /\ Append(q, o) = q \o <<o>>
  OBVIOUS
<1>2. ReturnsIn(<<o>>) = {}
  BY DEF ReturnsIn
<1>3. ReturnsIn(q \o <<o>>) = ReturnsIn(q) \cup ReturnsIn(<<o>>)
  BY <1>1, ReturnsInConcat
<1>4. ReturnsIn(q \o <<o>>) = ReturnsIn(q)
  BY <1>2, <1>3
<1>. QED  BY <1>1, <1>4, Zenon

LEMMA ReturnsInQueued ==
  ASSUME TypeInv, NEW s \in Session, NEW c \in Code
  PROVE  ReturnsIn(Queued(s, c)) =
           IF tx[s].kind = "RETURN" /\ c \in ToSet(tx[s].ids) THEN {KeyOf(s)} ELSE {}
<1> DEFINE J == {j \in DOMAIN tx[s].ids : tx[s].ids[j] = c}
           o == [op |-> IF tx[s].kind = "RETURN" THEN "RETURN" ELSE "WITHDRAW", receipt |-> KeyOf(s)]
<1>1. tx[s].ids \in Seq(Code)
  BY DEF TypeInv, TypeOK, Tx
<1>2. IsFiniteSet(J)
  BY <1>1, FS_Interval, FS_Subset
<1>3. Cardinality(J) \in Nat /\ (Cardinality(J) = 0 <=> J = {})
  BY <1>2, FS_CardinalityType, FS_EmptySet
<1>4. J = {} <=> c \notin ToSet(tx[s].ids)
  BY DEF ToSet
<1>5. Queued(s, c) = [k \in 1..Cardinality(J) |-> o]
  BY DEF Queued
<1>6. o.op = "RETURN" <=> tx[s].kind = "RETURN"
  OBVIOUS
<1>7. o.receipt = KeyOf(s)
  OBVIOUS
<1>. HIDE DEF J, o
<1>8. CASE J = {}
  BY <1>3, <1>4, <1>5, <1>8 DEF ReturnsIn
<1>9. CASE J # {}
  <2>1. 1 \in 1..Cardinality(J)
    BY <1>3, <1>9
  <2>. QED  BY <1>4, <1>5, <1>6, <1>7, <1>9, <2>1 DEF ReturnsIn
<1>. QED  BY <1>8, <1>9

-----------------------------------------------------------------------------
(* What the steps leave alone. *)

\* A session keeps what it holds when nothing happens to it and its codes.
LEMMA HoldsStays ==
  ASSUME NEW t \in Session, Holds(t), tx'[t] = tx[t],
         \A c \in ToSet(tx[t].ids) :
           codeOwner'[c] = codeOwner[c] /\ pool'[c] = pool[c] /\ link'[c] = link[c]
  PROVE  Holds(t)'
  BY DEF Holds, InReceipt

\* What a step of s does to the row locks of the codes of the others.
LEMMA OthersKeepCodes ==
  ASSUME TypeInv, CodeInv, NEW s \in Session, NEW t \in Session, t # s,
         \/ codeOwner' = codeOwner
         \/ codeOwner' = ReleaseAll(codeOwner, s)
         \/ \E c \in Code : Grantable(codeOwner, c, s) /\ codeOwner' = Acquire(codeOwner, c, s)
  PROVE  \A c \in ToSet(tx[t].ids) : c \in Code /\ codeOwner[c] = t /\ codeOwner'[c] = t
<1>1. \A c \in ToSet(tx[t].ids) : c \in Code /\ codeOwner[c] = t
  BY DEF TypeInv, TypeOK, Tx, CodeInv, Holds, ToSet
<1>2. t # NoSession /\ codeOwner \in [Code -> Session \cup {NoSession}]
  BY ConstantsAssumption DEF TypeInv, TypeOK
<1>. QED  BY <1>1, <1>2 DEF ReleaseAll, Acquire, Grantable

LEMMA LedgerStays ==
  ASSUME NEW c \in Code, Ledger(c), pool'[c] = pool[c], link'[c] = link[c],
         ReturnsIn(gismt'[c]) = ReturnsIn(gismt[c]), receipts \subseteq receipts'
  PROVE  Ledger(c)'
<1>1. \A k : Returned(c, k) => Returned(c, k)'
  BY DEF Returned
<1>2. ReturnsIn(gismt[c])' = ReturnsIn(gismt[c])
  BY DEF ReturnsIn
<1>. QED  BY <1>1, <1>2 DEF Ledger, Returned

LEMMA LedgersStay ==
  ASSUME \A c \in Code : Ledger(c), UNCHANGED <<pool, link, gismt, receipts>>
  PROVE  \A c \in Code : Ledger(c)'
  BY LedgerStays

\* A step that changes no table and no code of the request of s.
LEMMA SameCodes ==
  ASSUME TypeInv, CodeInv, NEW s \in Session, NEW rec, tx' = [tx EXCEPT ![s] = rec],
         UNCHANGED tables, codeOwner' = codeOwner,
         rec.ids = tx[s].ids, rec.kind = tx[s].kind, rec.base = tx[s].base,
         tx[s].pc = "resolve" \/ rec.pc = tx[s].pc, rec.pc \in {"resolve", "number"} \/ rec.pc = tx[s].pc
  PROVE  CodeInv'
<1>1. tx'[s] = rec /\ \A t \in Session \ {s} : tx'[t] = tx[t]
  BY DEF TypeInv, TypeOK
<1>2. UNCHANGED <<pool, link, gismt, receipts>>
  BY DEF tables
<1>3. Holds(s)'
  BY <1>1, <1>2 DEF CodeInv, Holds, InReceipt
<1>4. \A t \in Session \ {s} : Holds(t)'
  BY <1>1, <1>2, HoldsStays DEF CodeInv
<1>5. \A c \in Code : Ledger(c)'
  BY <1>2, LedgersStay DEF CodeInv
<1>. QED  BY <1>3, <1>4, <1>5 DEF CodeInv

\* A request that starts, and one that ends without a receipt, holds no code.
LEMMA NoCodes ==
  ASSUME TypeInv, CodeInv, NEW s \in Session, NEW rec, tx' = [tx EXCEPT ![s] = rec],
         rec.ids = <<>>, UNCHANGED <<pool, link, gismt, receipts>>,
         codeOwner' = codeOwner \/ codeOwner' = ReleaseAll(codeOwner, s)
  PROVE  CodeInv'
<1>1. tx'[s] = rec /\ \A t \in Session \ {s} : tx'[t] = tx[t]
  BY DEF TypeInv, TypeOK
<1>2. Holds(s)'
  BY <1>1 DEF Holds, ToSet
<1>3. ASSUME NEW t \in Session, t # s PROVE Holds(t)'
  <2>1. \A c \in ToSet(tx[t].ids) : codeOwner[c] = t /\ codeOwner'[c] = t
    BY <1>3, OthersKeepCodes
  <2>. QED  BY <1>1, <1>3, <2>1, HoldsStays DEF CodeInv
<1>4. \A c \in Code : Ledger(c)'
  BY LedgersStay DEF CodeInv
<1>. QED  BY <1>2, <1>3, <1>4 DEF CodeInv

-----------------------------------------------------------------------------
(* The steps on codes. *)

LEMMA LockCodeHolds ==
  ASSUME Inv, CodeInv, NEW s \in Session, LockCode(s)
  PROVE  CodeInv'
<1> DEFINE c == Head(tx[s].todo)
<1>1. c \in Code /\ Grantable(codeOwner, c, s) /\ CodeAccepted(s, c) /\ codeOwner' = Acquire(codeOwner, c, s)
  BY DEF LockCode
<1>2. tx[s] \in Tx /\ tx[s].ids \in Seq(Code) /\ tx[s].pc = "resolve" /\ tx[s].kind \in Selling \cup {"RETURN"}
  BY DEF Inv, TypeInv, TypeOK, Tx, LockCode, AtCode, Known, InReceipt
<1>3. \A t \in Session \ {s} : tx'[t] = tx[t]
  BY DEF LockCode, Inv, TypeInv, TypeOK
<1>4. /\ tx'[s].pc = tx[s].pc /\ tx'[s].kind = tx[s].kind /\ tx'[s].base = tx[s].base
      /\ tx'[s].ids = Append(tx[s].ids, c)
  BY <1>2 DEF LockCode, Inv, TypeInv, TypeOK, Tx
<1>5. UNCHANGED <<pool, link, gismt, receipts>>
  BY DEF LockCode, tables
<1>. HIDE DEF c
<1>6. ToSet(tx'[s].ids) = ToSet(tx[s].ids) \cup {c}
  BY <1>2, <1>4 DEF ToSet
<1>7. codeOwner' = [codeOwner EXCEPT ![c] = s] /\ codeOwner'[c] = s
  BY <1>1 DEF Acquire, Inv, TypeInv, TypeOK
<1>8. Holds(s)'
  <2>1. ASSUME NEW d \in ToSet(tx'[s].ids)
        PROVE  /\ codeOwner'[d] = s
               /\ tx'[s].kind = "RETURN" => pool'[d] = "SOLD" /\ link'[d] = tx'[s].base
               /\ tx'[s].kind \in Selling => pool'[d] = "AVAILABLE"
    <3>1. CASE d = c
      BY <1>1, <1>2, <1>4, <1>5, <1>7, <3>1 DEF CodeAccepted, Returnable, Sellable, Selling
    <3>2. CASE d # c
      <4>0. d \in ToSet(tx[s].ids)
        BY <1>6, <3>2
      <4>1. d \in ToSet(tx[s].ids) /\ d \in Code
        BY <1>2, <4>0 DEF ToSet
      <4>. QED  BY <1>4, <1>5, <1>7, <3>2, <4>1 DEF CodeInv, Holds, Inv, TypeInv, TypeOK
    <3>. QED  BY <3>1, <3>2
  <2>. QED  BY <1>2, <1>4, <2>1 DEF Holds, InReceipt
<1>9. ASSUME NEW t \in Session, t # s PROVE Holds(t)'
  <2>1. \A d \in ToSet(tx[t].ids) : codeOwner[d] = t /\ codeOwner'[d] = t
    BY <1>1, <1>9, OthersKeepCodes DEF Inv
  <2>. QED  BY <1>3, <1>5, <1>9, <2>1, HoldsStays DEF CodeInv
<1>10. \A d \in Code : Ledger(d)'
  BY <1>5, LedgersStay DEF CodeInv
<1>. QED  BY <1>8, <1>9, <1>10 DEF CodeInv

LEMMA InsertHolds ==
  ASSUME Inv, CodeInv, NEW s \in Session, InsertReceipt(s)
  PROVE  CodeInv'
<1>1. tx[s] \in Tx /\ tx[s].pc = "number" /\ LinksFree(s)
  BY DEF Inv, TypeInv, TypeOK, InsertReceipt
<1>2. \A t \in Session \ {s} : tx'[t] = tx[t]
  BY DEF InsertReceipt, Inv, TypeInv, TypeOK
<1>3. tx'[s].ids = tx[s].ids /\ tx'[s].kind = tx[s].kind /\ tx'[s].base = tx[s].base /\ tx'[s].pc = "inserted"
  BY <1>1 DEF InsertReceipt, Inv, TypeInv, TypeOK, Tx
<1>4. UNCHANGED <<pool, link, gismt, receipts, codeOwner>>
  BY DEF InsertReceipt, tables
<1>5. Holds(s)'
  BY <1>1, <1>3, <1>4 DEF CodeInv, Holds, InReceipt, LinksFree
<1>6. \A t \in Session \ {s} : Holds(t)'
  BY <1>2, <1>4, HoldsStays DEF CodeInv
<1>7. \A c \in Code : Ledger(c)'
  BY <1>4, LedgersStay DEF CodeInv
<1>. QED  BY <1>5, <1>6, <1>7 DEF CodeInv

LEMMA RegisterHolds ==
  ASSUME Inv, CodeInv, NEW cs \in SUBSET Code, RegisterCodes(cs)
  PROVE  CodeInv' /\ \A c \in Code : pool[c] # "ABSENT" => pool'[c] = pool[c]
<1>1. UNCHANGED <<receipts, link, codeOwner, tx>>
  BY DEF RegisterCodes
<1>2. \A c \in Code : /\ pool[c] # "ABSENT" => pool'[c] = pool[c]
                      /\ pool[c] = "ABSENT" => pool'[c] \in {"ABSENT", "AVAILABLE"}
  BY DEF RegisterCodes
<1>3. ASSUME NEW t \in Session PROVE Holds(t)'
  <2>1. \A c \in ToSet(tx[t].ids) : c \in Code /\ pool[c] # "ABSENT"
    <3>1. tx[t].ids \in Seq(Code) /\ (InReceipt(t) => tx[t].kind \in Selling \cup {"RETURN"})
      BY DEF Inv, TypeInv, TypeOK, Tx, Known
    <3>2. \A c \in ToSet(tx[t].ids) : c \in Code
      BY <3>1 DEF ToSet
    <3>3. ~InReceipt(t) => ToSet(tx[t].ids) = {}
      BY DEF CodeInv, Holds, ToSet
    <3>. QED  BY <3>1, <3>2, <3>3 DEF CodeInv, Holds
  <2>2. \A c \in ToSet(tx[t].ids) : pool'[c] = pool[c]
    BY <1>2, <2>1
  <2>3. tx'[t] = tx[t]
    BY <1>1
  <2>. QED  BY <1>1, <2>2, <2>3, HoldsStays DEF CodeInv
<1>4. ASSUME NEW c \in Code PROVE Ledger(c)'
  <2>1. gismt[c] \in Seq(Operation) /\ [op |-> "RECEIVE", receipt |-> None] \in Operation
    BY DEF Inv, TypeInv, TypeOK, Operation
  <2>2. ReturnsIn(Append(gismt[c], [op |-> "RECEIVE", receipt |-> None])) = ReturnsIn(gismt[c])
    BY <2>1, ReturnsInAppend
  <2>3. gismt'[c] = gismt[c] \/ gismt'[c] = Append(gismt[c], [op |-> "RECEIVE", receipt |-> None])
    BY DEF RegisterCodes
  <2>4. ReturnsIn(gismt'[c]) = ReturnsIn(gismt[c])
    BY <2>2, <2>3
  <2>5. ReturnsIn(gismt[c])' = ReturnsIn(gismt[c])
    BY <2>4 DEF ReturnsIn
  <2>6. pool'[c] = "SOLD" <=> pool[c] = "SOLD"
    BY <1>2
  <2>. QED  BY <1>1, <2>5, <2>6 DEF CodeInv, Ledger, Returned
<1>. QED  BY <1>2, <1>3, <1>4 DEF CodeInv

LEMMA WriteOffHolds ==
  ASSUME Inv, CodeInv, NEW d \in Code, WriteOff(d)
  PROVE  CodeInv' /\ \A c \in Code : pool[c] = "WRITTEN_OFF" => pool'[c] = pool[c]
<1>1. UNCHANGED <<receipts, link, codeOwner, tx>> /\ codeOwner[d] = NoSession
  BY DEF WriteOff
<1>2. /\ pool[d] = "AVAILABLE" /\ pool'[d] = "WRITTEN_OFF"
      /\ \A c \in Code \ {d} : pool'[c] = pool[c]
  BY DEF WriteOff, Inv, TypeInv, TypeOK
<1>3. ASSUME NEW t \in Session PROVE Holds(t)'
  <2>1. \A c \in ToSet(tx[t].ids) : c \in Code /\ c # d
    <3>1. tx[t].ids \in Seq(Code) /\ t # NoSession
      BY ConstantsAssumption DEF Inv, TypeInv, TypeOK, Tx
    <3>2. \A c \in ToSet(tx[t].ids) : c \in Code
      BY <3>1 DEF ToSet
    <3>. QED  BY <1>1, <3>1, <3>2 DEF CodeInv, Holds
  <2>2. \A c \in ToSet(tx[t].ids) : pool'[c] = pool[c]
    BY <1>2, <2>1
  <2>3. tx'[t] = tx[t]
    BY <1>1
  <2>. QED  BY <1>1, <2>2, <2>3, HoldsStays DEF CodeInv
<1>4. ASSUME NEW c \in Code PROVE Ledger(c)'
  <2>1. gismt[c] \in Seq(Operation) /\ [op |-> "WRITE_OFF", receipt |-> None] \in Operation
    BY DEF Inv, TypeInv, TypeOK, Operation
  <2>2. ReturnsIn(Append(gismt[c], [op |-> "WRITE_OFF", receipt |-> None])) = ReturnsIn(gismt[c])
    BY <2>1, ReturnsInAppend
  <2>3. gismt'[c] = gismt[c] \/ gismt'[c] = Append(gismt[c], [op |-> "WRITE_OFF", receipt |-> None])
    BY DEF WriteOff, Inv, TypeInv, TypeOK
  <2>4. ReturnsIn(gismt'[c]) = ReturnsIn(gismt[c])
    BY <2>2, <2>3
  <2>5. ReturnsIn(gismt[c])' = ReturnsIn(gismt[c])
    BY <2>4 DEF ReturnsIn
  <2>6. pool'[c] # "SOLD" <=> pool[c] # "SOLD"
    BY <1>2
  <2>. QED  BY <1>1, <2>5, <2>6 DEF CodeInv, Ledger, Returned
<1>. QED  BY <1>2, <1>3, <1>4 DEF CodeInv

\* What COMMIT makes of one code.
LEMMA CommitLedger ==
  ASSUME Inv, CodeInv, NEW s \in Session, Commit(s), NEW c \in Code
  PROVE  Ledger(c)' /\ (c \notin ToSet(tx[s].ids) => pool'[c] = pool[c] /\ link'[c] = link[c])
                    /\ (c \in ToSet(tx[s].ids) => pool[c] # "WRITTEN_OFF")
<1> DEFINE held == c \in ToSet(tx[s].ids)
           back == tx[s].kind = "RETURN"
<1>1. /\ tx[s].pc = "inserted" /\ (back \/ tx[s].kind \in Selling) /\ (back => tx[s].kind \notin Selling)
      /\ tx[s] \in Tx
  BY DEF Commit, Inv, TypeInv, TypeOK, Known, InReceipt, Selling
<1>2. KeyOf(s) \in Key /\ KeyOf(s) # None
  BY <1>1, ReceiptTyped, ConstantsAssumption DEF Inv
<1>3. /\ receipts' = receipts \cup {ReceiptOf(s)} /\ ReceiptOf(s).key = KeyOf(s)
      /\ ReceiptOf(s).type = tx[s].kind /\ ReceiptOf(s).base = tx[s].base
  BY DEF Commit, ReceiptOf
<1>4. /\ pool'[c] = IF held THEN (IF back THEN "AVAILABLE" ELSE "SOLD") ELSE pool[c]
      /\ link'[c] = IF held /\ ~back THEN KeyOf(s) ELSE link[c]
  BY <1>1 DEF Commit, StatusAfter, LinksOf
<1>5. ReturnsIn(gismt[c])' = ReturnsIn(gismt[c]) \cup (IF held /\ back THEN {KeyOf(s)} ELSE {})
  <2>1. gismt'[c] = gismt[c] \o Queued(s, c)
    BY DEF Commit
  <2>2. gismt[c] \in Seq(Operation) /\ Queued(s, c) \in Seq(Operation)
    BY <1>2, QueuedTyped DEF Inv, TypeInv, TypeOK
  <2>3. ReturnsIn(gismt[c] \o Queued(s, c)) = ReturnsIn(gismt[c]) \cup ReturnsIn(Queued(s, c))
    BY <2>2, ReturnsInConcat
  <2>4. ReturnsIn(Queued(s, c)) = IF back /\ held THEN {KeyOf(s)} ELSE {}
    BY ReturnsInQueued DEF Inv
  <2>5. ReturnsIn(gismt'[c]) = ReturnsIn(gismt[c]) \cup (IF held /\ back THEN {KeyOf(s)} ELSE {})
    BY <2>1, <2>3, <2>4
  <2>. QED  BY <2>5 DEF ReturnsIn
<1>6. held => /\ back => pool[c] = "SOLD" /\ link[c] = tx[s].base
              /\ ~back => pool[c] = "AVAILABLE" /\ link[c] = None
  BY <1>1 DEF CodeInv, Holds
<1>. HIDE DEF held, back
<1>7. Ledger(c)
  BY DEF CodeInv
<1>8. CASE ~held
  <2>1. pool'[c] = pool[c] /\ link'[c] = link[c] /\ ReturnsIn(gismt[c])' = ReturnsIn(gismt[c])
    BY <1>4, <1>5, <1>8
  <2>. QED  BY <1>3, <1>7, <1>8, <2>1 DEF Ledger, Returned, held
<1>9. CASE held /\ ~back
  <2>1. ReturnsIn(gismt[c])' = {} /\ pool'[c] = "SOLD" /\ link'[c] = KeyOf(s)
    BY <1>4, <1>5, <1>6, <1>7, <1>9 DEF Ledger
  <2>2. ReceiptOf(s).type \in Selling
    BY <1>1, <1>3, <1>9 DEF back
  <2>. QED  BY <1>2, <1>3, <1>6, <1>9, <2>1, <2>2 DEF Ledger, held
<1>10. CASE held /\ back
  <2>1. /\ ReturnsIn(gismt[c]) = {} /\ ReturnsIn(gismt'[c]) = {KeyOf(s)} /\ pool'[c] = "AVAILABLE"
        /\ link'[c] = link[c] /\ link[c] # None /\ link[c] = tx[s].base
    BY <1>4, <1>5, <1>6, <1>7, <1>10 DEF Ledger
  <2>2. PICK k0 : k0 = KeyOf(s)
    OBVIOUS
  <2>5. Returned(c, k0)'
    BY <1>3, <1>10, <2>1, <2>2 DEF Returned, back
  <2>3. \E x \in receipts : x.key = link[c] /\ x.type \in Selling
    BY <1>7, <2>1 DEF Ledger
  <2>4. \A k \in ReturnsIn(gismt[c])' : k = k0
    BY <2>1, <2>2
  <2>. QED  BY <1>3, <1>6, <1>10, <2>1, <2>3, <2>4, <2>5 DEF Ledger, Returned, held
<1>. QED  BY <1>8, <1>9, <1>10

LEMMA CommitHolds ==
  ASSUME Inv, CodeInv, NEW s \in Session, Commit(s)
  PROVE  CodeInv'
<1>1. tx' = [tx EXCEPT ![s] = NoTx] /\ codeOwner' = ReleaseAll(codeOwner, s)
  BY DEF Commit, Finish
<1>2. tx'[s] = NoTx /\ \A t \in Session \ {s} : tx'[t] = tx[t]
  BY <1>1 DEF Inv, TypeInv, TypeOK
<1>3. Holds(s)'
  BY <1>2 DEF Holds, NoTx, ToSet
<1>4. ASSUME NEW t \in Session, t # s PROVE Holds(t)'
  <2>1. \A c \in ToSet(tx[t].ids) : c \in Code /\ codeOwner[c] = t /\ codeOwner'[c] = t
    BY <1>1, <1>4, OthersKeepCodes DEF Inv
  <2>2. \A c \in ToSet(tx[t].ids) : c \notin ToSet(tx[s].ids)
    BY <1>4, <2>1 DEF CodeInv, Holds
  <2>3. \A c \in ToSet(tx[t].ids) : pool'[c] = pool[c] /\ link'[c] = link[c]
    BY <2>1, <2>2, CommitLedger
  <2>. QED  BY <1>2, <1>4, <2>1, <2>3, HoldsStays DEF CodeInv
<1>5. \A c \in Code : Ledger(c)'
  BY CommitLedger
<1>. QED  BY <1>3, <1>4, <1>5 DEF CodeInv

-----------------------------------------------------------------------------
(* Every step. *)

LEMMA BeginCodes ==
  ASSUME Inv, CodeInv, NEW s \in Session, Begin(s)
  PROVE  CodeInv' /\ pool' = pool
<1>0. tx \in [Session -> Tx]
  BY DEF Inv, TypeInv, TypeOK
<1>1. tx' = [tx EXCEPT ![s] = tx'[s]] /\ tx'[s].ids = <<>>
  <2>1. CASE \E r \in Register, kind \in Selling, lines \in SaleRequest : SellBegin(s, r, kind, lines)
    BY <1>0, <2>1 DEF SellBegin, NoTx
  <2>2. CASE \E x \in receipts, lines \in ReturnRequest : ReturnBegin(s, x, lines)
    BY <1>0, <2>2 DEF ReturnBegin, NoTx
  <2>3. CASE \E r \in Register : OpenRead(s, r) \/ \E n \in DOMAIN shift[r] : CloseRead(s, r, n)
    BY <1>0, <2>3 DEF OpenRead, CloseRead, NoTx
  <2>. QED  BY <2>1, <2>2, <2>3 DEF Begin
<1>2. UNCHANGED <<pool, link, gismt, receipts>> /\ codeOwner' = codeOwner
  BY DEF Begin, SellBegin, ReturnBegin, OpenRead, CloseRead, tables
<1>3. PICK rec : rec = tx'[s]
  OBVIOUS
<1>. QED  BY <1>1, <1>2, <1>3, NoCodes DEF Inv

\* The steps of a receipt that touch no code.
LEMMA QuietCodes ==
  ASSUME Inv, CodeInv, NEW s \in Session,
         \/ ResolveLine(s) \/ SkipCode(s) \/ ReadNumber(s)
         \/ \E p \in Product : DeductCheck(s, p) \/ DeductWrite(s, p) \/ AddWrite(s, p)
  PROVE  CodeInv' /\ pool' = pool
<1>1. tx[s] \in Tx /\ tx \in [Session -> Tx]
  BY DEF Inv, TypeInv, TypeOK
<1>2. UNCHANGED tables /\ codeOwner' = codeOwner
  BY DEF ResolveLine, SkipCode, ReadNumber, DeductCheck, DeductWrite, AddWrite
<1>3. /\ tx'[s].ids = tx[s].ids /\ tx'[s].kind = tx[s].kind /\ tx'[s].base = tx[s].base
      /\ tx[s].pc = "resolve" \/ tx'[s].pc = tx[s].pc
      /\ tx'[s].pc \in {"resolve", "number"} \/ tx'[s].pc = tx[s].pc
      /\ tx' = [tx EXCEPT ![s] = tx'[s]]
  <2>1. CASE ResolveLine(s)
    BY <1>1, <2>1 DEF ResolveLine, Tx
  <2>2. CASE SkipCode(s)
    BY <1>1, <2>2 DEF SkipCode, Tx
  <2>3. CASE ReadNumber(s)
    BY <1>1, <2>3 DEF ReadNumber, Resolved, Tx
  <2>4. CASE \E p \in Product : DeductCheck(s, p) \/ DeductWrite(s, p) \/ AddWrite(s, p)
    BY <1>1, <2>4 DEF DeductCheck, DeductWrite, AddWrite, Tx
  <2>. QED  BY <2>1, <2>2, <2>3, <2>4
<1>4. PICK rec : rec = tx'[s]
  OBVIOUS
<1>5. CodeInv'
  BY <1>2, <1>3, <1>4, SameCodes DEF Inv
<1>. QED  BY <1>2, <1>5 DEF tables

LEMMA StepCodes ==
  ASSUME Inv, CodeInv, [Next]_vars
  PROVE  CodeInv' /\ \A c \in Code : pool[c] = "WRITTEN_OFF" => pool'[c] = "WRITTEN_OFF"
<1>1. CASE \E s \in Session : Begin(s)
  BY <1>1, BeginCodes
<1>2. ASSUME NEW s \in Session, Step(s) \/ Fail(s)
      PROVE  CodeInv' /\ \A c \in Code : pool[c] = "WRITTEN_OFF" => pool'[c] = "WRITTEN_OFF"
  <2>1. CASE \E p \in Product : DeductCheck(s, p) \/ DeductWrite(s, p) \/ AddWrite(s, p)
    BY <2>1, QuietCodes
  <2>2. CASE ResolveLine(s) \/ SkipCode(s) \/ ReadNumber(s)
    BY <2>2, QuietCodes
  <2>3. CASE LockCode(s)
    BY <2>3, LockCodeHolds DEF LockCode, tables
  <2>4. CASE InsertReceipt(s)
    BY <2>4, InsertHolds DEF InsertReceipt, tables
  <2>5. CASE Commit(s)
    <3>1. \A c \in Code : pool[c] = "WRITTEN_OFF" => pool'[c] = pool[c]
      BY <2>5, CommitLedger
    <3>. QED  BY <2>5, <3>1, CommitHolds
  <2>6. CASE OpenInsert(s) \/ CloseWrite(s) \/ Refuse(s) \/ DetectDeadlock(s) \/ Fail(s)
    <3>1. Finish(s) /\ UNCHANGED <<pool, link, gismt, receipts>>
      BY <2>6 DEF OpenInsert, CloseWrite, Refuse, DetectDeadlock, Fail, Rollback, tables
    <3>2. NoTx.ids = <<>>
      BY DEF NoTx
    <3>. QED  BY <3>1, <3>2, NoCodes DEF Finish, Inv
  <2>. QED  BY <1>2, <2>1, <2>2, <2>3, <2>4, <2>5, <2>6 DEF Step
<1>3. CASE \E cs \in SUBSET Code : RegisterCodes(cs)
  BY <1>3, RegisterHolds
<1>4. CASE \E d \in Code : WriteOff(d)
  BY <1>4, WriteOffHolds
<1>5. CASE UNCHANGED vars
  <2>1. UNCHANGED <<shift, receipts, pool, link, gismt, stock, codeOwner, stockOwner, tx>>
    BY <1>5 DEF vars, tables
  <2>2. \A s \in Session : Holds(s)'
    BY <2>1 DEF CodeInv, Holds, InReceipt
  <2>. QED  BY <2>1, <2>2, LedgersStay DEF CodeInv
<1>. QED  BY <1>1, <1>2, <1>3, <1>4, <1>5 DEF Next

LEMMA InitCodes ==
  ASSUME Init
  PROVE  CodeInv
<1>1. \A s \in Session : Holds(s)
  BY DEF Init, Holds, NoTx, ToSet
<1>2. \A c \in Code : Ledger(c)
  BY DEF Init, Ledger, ReturnsIn
<1>. QED  BY <1>1, <1>2 DEF CodeInv

LEMMA CodeInvariance == Spec => []CodeInv
<1>1. Init => CodeInv
  BY InitCodes
<1>2. Inv /\ CodeInv /\ [Next]_vars => CodeInv'
  BY StepCodes
<1>. QED  BY <1>1, <1>2, Invariance, PTL DEF Spec

\* The pool, the links and the queue of GIS MT never part: a code is SOLD exactly
\* while a committed sale or correction has it and no return has given it back.
THEOREM LedgerHolds == Spec => []CodeLedger
<1>1. CodeInv => CodeLedger
  BY LedgerMeansLedger
<1>. QED  BY <1>1, CodeInvariance, PTL

\* No code is returned by two receipts, nor by one that is not a return of the
\* receipt that sold it.
THEOREM ReturnedByOneReceipt == Spec => []ReturnedOnce
<1>1. CodeInv => ReturnedOnce
  BY LedgerMeansLedger
<1>. QED  BY <1>1, CodeInvariance, PTL

\* A code written off is final: WriteOff waits for the sale or return that has
\* locked the code, and none locks it afterwards.
THEOREM WriteOffIsFinal == Spec => WrittenOffForever
<1>1. Inv /\ CodeInv /\ [Next]_vars =>
        [\A c \in Code : pool[c] = "WRITTEN_OFF" => pool'[c] = "WRITTEN_OFF"]_vars
  BY StepCodes
<1>. QED  BY <1>1, Invariance, CodeInvariance, PTL DEF Spec, WrittenOffForever

-----------------------------------------------------------------------------
(* The operation queued last. *)

\* What QueueTellsStatus reads from a queue.
Told(q) ==
  IF q = <<>> THEN "ABSENT"
  ELSE CASE Last(q).op \in {"RECEIVE", "RETURN"} -> "AVAILABLE"
         [] Last(q).op = "WITHDRAW" -> "SOLD"
         [] Last(q).op = "WRITE_OFF" -> "WRITTEN_OFF"

LEMMA ToldByConcat ==
  ASSUME NEW q \in Seq(Operation), NEW n \in Nat \ {0}, NEW o \in Operation
  PROVE  /\ o.op \in {"RECEIVE", "RETURN"} => Told(q \o [k \in 1..n |-> o]) = "AVAILABLE"
         /\ o.op = "WITHDRAW" => Told(q \o [k \in 1..n |-> o]) = "SOLD"
         /\ o.op = "WRITE_OFF" => Told(q \o [k \in 1..n |-> o]) = "WRITTEN_OFF"
<1> DEFINE w == [k \in 1..n |-> o]
           z == q \o w
<1>1. w \in Seq(Operation) /\ Len(w) = n /\ w[n] = o
  OBVIOUS
<1> HIDE DEF w
<1>2. z \in Seq(Operation) /\ Len(z) = Len(q) + n /\ Len(q) \in Nat /\ z[Len(q) + n] = o
  BY <1>1
<1> HIDE DEF z
<1>3. z # <<>> /\ Last(z) = o
  BY <1>2 DEF Last
<1>4. /\ o.op \in {"RECEIVE", "RETURN"} => Told(z) = "AVAILABLE"
      /\ o.op = "WITHDRAW" => Told(z) = "SOLD"
      /\ o.op = "WRITE_OFF" => Told(z) = "WRITTEN_OFF"
  BY <1>3 DEF Told
<1>. QED  BY <1>4 DEF z, w

LEMMA ToldByAppend ==
  ASSUME NEW q \in Seq(Operation), NEW o \in Operation
  PROVE  /\ o.op = "RECEIVE" => Told(Append(q, o)) = "AVAILABLE"
         /\ o.op = "WRITE_OFF" => Told(Append(q, o)) = "WRITTEN_OFF"
<1>1. Append(q, o) # <<>> /\ Last(Append(q, o)) = o
  BY DEF Last
<1>. QED  BY <1>1 DEF Told

LEMMA ToldByCommit ==
  ASSUME Inv, NEW s \in Session, Commit(s), NEW c \in Code, pool[c] = Told(gismt[c])
  PROVE  pool'[c] = Told(gismt'[c])
<1> DEFINE J == {j \in DOMAIN tx[s].ids : tx[s].ids[j] = c}
           o == [op |-> IF tx[s].kind = "RETURN" THEN "RETURN" ELSE "WITHDRAW", receipt |-> KeyOf(s)]
<1>1. tx[s] \in Tx /\ tx[s].ids \in Seq(Code) /\ gismt[c] \in Seq(Operation)
  BY DEF Inv, TypeInv, TypeOK, Tx
<1>2. IsFiniteSet(J)
  BY <1>1, FS_Interval, FS_Subset
<1>3. Cardinality(J) \in Nat /\ (Cardinality(J) = 0 <=> J = {})
  BY <1>2, FS_CardinalityType, FS_EmptySet
<1>4. J = {} <=> c \notin ToSet(tx[s].ids)
  BY DEF ToSet
<1>5. gismt'[c] = gismt[c] \o Queued(s, c) /\ Queued(s, c) = [k \in 1..Cardinality(J) |-> o]
  BY DEF Commit, Queued
<1>6. KeyOf(s) \in Key
  BY <1>1, ReceiptTyped DEF Inv, Commit
<1>7. /\ o \in Operation /\ (tx[s].kind = "RETURN" => o.op = "RETURN")
      /\ (tx[s].kind # "RETURN" => o.op = "WITHDRAW")
  BY <1>6 DEF Operation
<1>8. pool'[c] = IF c \in ToSet(tx[s].ids) THEN StatusAfter(tx[s].kind) ELSE pool[c]
  BY DEF Commit
<1> HIDE DEF J, o
<1>9. CASE J = {}
  <2>1. Queued(s, c) = <<>>
    BY <1>3, <1>5, <1>9
  <2>2. gismt[c] \o <<>> = gismt[c]
    BY <1>1, ConcatEmptySeq
  <2>3. gismt'[c] = gismt[c]
    BY <1>5, <2>1, <2>2
  <2>. QED  BY <1>4, <1>8, <1>9, <2>3
<1>10. CASE J # {}
  <2>1. PICK n \in Nat \ {0} : n = Cardinality(J)
    BY <1>3, <1>10
  <2>2. PICK q \in Seq(Operation) : q = gismt[c]
    BY <1>1
  <2>3. gismt'[c] = q \o [k \in 1..n |-> o]
    BY <1>5, <2>1, <2>2
  <2>4. /\ o.op = "RETURN" => Told(q \o [k \in 1..n |-> o]) = "AVAILABLE"
        /\ o.op = "WITHDRAW" => Told(q \o [k \in 1..n |-> o]) = "SOLD"
    BY <1>7, ToldByConcat
  <2>. QED  BY <1>4, <1>7, <1>8, <1>10, <2>3, <2>4 DEF StatusAfter
<1>. QED  BY <1>9, <1>10

LEMMA ToldByRegister ==
  ASSUME Inv, NEW cs \in SUBSET Code, RegisterCodes(cs), NEW c \in Code, pool[c] = Told(gismt[c])
  PROVE  pool'[c] = Told(gismt'[c])
<1> DEFINE o == [op |-> "RECEIVE", receipt |-> None]
<1>1. o \in Operation /\ o.op = "RECEIVE" /\ gismt[c] \in Seq(Operation)
  BY DEF Operation, Inv, TypeInv, TypeOK
<1>2. \/ pool'[c] = pool[c] /\ gismt'[c] = gismt[c]
      \/ pool'[c] = "AVAILABLE" /\ gismt'[c] = Append(gismt[c], o)
  BY DEF RegisterCodes
<1> HIDE DEF o
<1>. QED  BY <1>1, <1>2, ToldByAppend

LEMMA ToldByWriteOff ==
  ASSUME Inv, NEW d \in Code, WriteOff(d), NEW c \in Code, pool[c] = Told(gismt[c])
  PROVE  pool'[c] = Told(gismt'[c])
<1> DEFINE o == [op |-> "WRITE_OFF", receipt |-> None]
<1>1. o \in Operation /\ o.op = "WRITE_OFF" /\ gismt[c] \in Seq(Operation)
  BY DEF Operation, Inv, TypeInv, TypeOK
<1>2. \/ pool'[c] = pool[c] /\ gismt'[c] = gismt[c]
      \/ pool'[c] = "WRITTEN_OFF" /\ gismt'[c] = Append(gismt[c], o)
  BY DEF WriteOff, Inv, TypeInv, TypeOK
<1> HIDE DEF o
<1>. QED  BY <1>1, <1>2, ToldByAppend

\* Every other step leaves pool and queue alone.
LEMMA ToldByStep ==
  ASSUME Inv, [Next]_vars, NEW c \in Code, pool[c] = Told(gismt[c])
  PROVE  pool'[c] = Told(gismt'[c])
<1>1. CASE \E s \in Session : Commit(s)
  BY <1>1, ToldByCommit
<1>2. CASE \E cs \in SUBSET Code : RegisterCodes(cs)
  BY <1>2, ToldByRegister
<1>3. CASE \E d \in Code : WriteOff(d)
  BY <1>3, ToldByWriteOff
<1>4. CASE UNCHANGED <<pool, gismt>>
  BY <1>4
<1>5. CASE \E s \in Session : Begin(s)
  BY <1>4, <1>5 DEF Begin, SellBegin, ReturnBegin, OpenRead, CloseRead, tables
<1>6. CASE \E s \in Session : (Step(s) /\ ~Commit(s)) \/ Fail(s)
  <2>1. UNCHANGED <<pool, gismt>>
    BY <1>6 DEF Step, ResolveLine, LockCode, SkipCode, DeductCheck, DeductWrite, AddWrite,
                ReadNumber, InsertReceipt, OpenInsert, CloseWrite, Refuse, DetectDeadlock,
                Fail, Rollback, tables
  <2>. QED  BY <1>4, <2>1
<1>7. CASE UNCHANGED vars
  BY <1>4, <1>7 DEF vars, tables
<1>. QED  BY <1>1, <1>2, <1>3, <1>5, <1>6, <1>7 DEF Next

\* QueueTellsStatus: whatever changes the status of a code in the pool queues the
\* operation that tells of it, as its last one and in the same transaction
\* (Register, WriteOff, Withdraw, MarkingRepo.Return).
THEOREM QueueTells == Spec => []QueueTellsStatus
<1>1. QueueTellsStatus <=> \A c \in Code : pool[c] = Told(gismt[c])
  BY DEF QueueTellsStatus, Told
<1>2. Init => QueueTellsStatus
  BY <1>1 DEF Init, Told
<1>3. Inv /\ QueueTellsStatus /\ [Next]_vars => QueueTellsStatus'
  <2>. SUFFICES ASSUME Inv, QueueTellsStatus, [Next]_vars, NEW c \in Code
                PROVE  (pool[c] = Told(gismt[c]))'
    BY DEF QueueTellsStatus, Told
  <2>1. pool[c] = Told(gismt[c])
    BY <1>1
  <2>2. pool'[c] = Told(gismt'[c])
    BY <2>1, ToldByStep
  <2>. QED  BY <2>2 DEF Told
<1>. QED  BY <1>2, <1>3, Invariance, PTL DEF Spec

-----------------------------------------------------------------------------
(* The stock.  What a request takes from it or puts back adds up to the    *)
(* items of its receipt, and all of it is done before the receipt commits. *)

\* The quantity of product p in the first i lines.
QtyColumn(lines, p) == [k \in DOMAIN lines |-> IF lines[k].product = p THEN lines[k].qty ELSE 0]
QtyUpto(lines, i, p) == SumFunctionOnSet(QtyColumn(lines, p), 1..i)

\* How far a request is with its lines and with the stock.
Resolves(s) ==
  /\ InReceipt(s) => /\ tx[s].i <= Len(tx[s].lines)
                     /\ \A p \in Product : tx[s].qty[p] = QtyUpto(tx[s].lines, tx[s].i, p)
  /\ HasNumber(s) => tx[s].i = Len(tx[s].lines)
  /\ HasNumber(s) /\ tx[s].kind \in Selling => LeftOf(s) = {}
  /\ tx[s].done \cup tx[s].checked # {} => MovesStock(s)

StockInv == IsFiniteSet(receipts) /\ (\A s \in Session : Resolves(s)) /\ StockConservation

LEMMA QtyUptoGrows ==
  ASSUME NEW lines \in Seq(Line), NEW p
  PROVE  /\ QtyUpto(lines, 0, p) = 0
         /\ \A i \in 0..Len(lines) : QtyUpto(lines, i, p) \in Nat
         /\ \A i \in Nat : i < Len(lines) =>
              QtyUpto(lines, i + 1, p) =
                QtyUpto(lines, i, p) + (IF lines[i + 1].product = p THEN lines[i + 1].qty ELSE 0)
<1> DEFINE f == QtyColumn(lines, p)
<1>1. \A k \in 1..Len(lines) : /\ f[k] \in Nat
                               /\ f[k] = IF lines[k].product = p THEN lines[k].qty ELSE 0
  <2>1. \A k \in 1..Len(lines) : lines[k] \in Line
    OBVIOUS
  <2>. QED  BY <2>1 DEF QtyColumn, Line
<1> HIDE DEF f
<1>2. \A i \in 0..Len(lines) : IsFiniteSet(1..i) /\ \A k \in 1..i : f[k] \in Nat
  BY <1>1, FS_Interval
<1>3. ASSUME NEW i \in 0..Len(lines)
      PROVE  SumFunctionOnSet(f, 1..i) \in Nat /\ Summable(f, 1..i)
  <2>1. PICK S : S = 1..i
    OBVIOUS
  <2>2. IsFiniteSet(S) /\ \A k \in S : f[k] \in Nat
    BY <1>2, <2>1
  <2>3. SumFunctionOnSet(f, S) \in Nat
    BY <2>2, SumOfNaturals
  <2>. QED  BY <2>1, <2>2, <2>3 DEF Summable
<1>4. SumFunctionOnSet(f, 1..0) = 0
  <2>1. Summable(f, 1..0)
    BY <1>3
  <2>2. 1..0 = {}
    OBVIOUS
  <2>. QED  BY <2>1, <2>2, SumStep
<1>5. ASSUME NEW i \in Nat, i < Len(lines)
      PROVE  SumFunctionOnSet(f, 1..(i + 1)) = SumFunctionOnSet(f, 1..i) + f[i + 1]
  <2>1. PICK S : S = 1..(i + 1)
    OBVIOUS
  <2>2. i + 1 \in S /\ S \ {i + 1} = 1..i /\ i + 1 \in 0..Len(lines) /\ i \in 0..Len(lines)
    BY <1>5, <2>1
  <2>3. Summable(f, S)
    BY <1>3, <2>1, <2>2
  <2>4. SumFunctionOnSet(f, S) = f[i + 1] + SumFunctionOnSet(f, S \ {i + 1})
    BY <2>2, <2>3, SumStep
  <2>5. f[i + 1] \in Nat /\ SumFunctionOnSet(f, 1..i) \in Nat
    BY <1>1, <1>3, <1>5, <2>2
  <2>6. SumFunctionOnSet(f, S \ {i + 1}) = SumFunctionOnSet(f, 1..i)
    BY <2>2, Zenon
  <2>7. SumFunctionOnSet(f, S) = SumFunctionOnSet(f, 1..i) + f[i + 1]
    BY <2>4, <2>5, <2>6
  <2>. QED  BY <2>1, <2>7
<1>6. \A i \in Nat : i < Len(lines) =>
        f[i + 1] = IF lines[i + 1].product = p THEN lines[i + 1].qty ELSE 0
  BY <1>1
<1>. QED  BY <1>3, <1>4, <1>5, <1>6 DEF QtyUpto, f

\* The items of a receipt are all the lines of its request.
LEMMA ItemsAreLines ==
  ASSUME TypeInv, NEW s \in Session, NEW p
  PROVE  ItemQty(ReceiptOf(s), p) = QtyUpto(tx[s].lines, Len(tx[s].lines), p)
<1> DEFINE lines == tx[s].lines
           items == [k \in DOMAIN lines |-> [product |-> lines[k].product, qty |-> lines[k].qty]]
<1>1. lines \in Seq(Line)
  BY DEF TypeInv, TypeOK, Tx
<1>2. ReceiptOf(s).items = items
  BY DEF ReceiptOf
<1>3. DOMAIN items = DOMAIN lines /\ DOMAIN lines = 1..Len(lines)
  BY <1>1
<1>4. [k \in DOMAIN items |-> IF items[k].product = p THEN items[k].qty ELSE 0] = QtyColumn(lines, p)
  BY DEF QtyColumn
<1> HIDE DEF lines, items
<1>5. ItemQty(ReceiptOf(s), p) = SumFunction(QtyColumn(lines, p))
  BY <1>2, <1>4 DEF ItemQty
<1>6. DOMAIN QtyColumn(lines, p) = 1..Len(lines)
  BY <1>3 DEF QtyColumn
<1>. QED  BY <1>5, <1>6 DEF SumFunction, QtyUpto, lines

-----------------------------------------------------------------------------
(* The steps of a request. *)

\* Nothing but its own request matters.
LEMMA ResolvesStays ==
  ASSUME NEW t \in Session, Resolves(t), tx'[t] = tx[t]
  PROVE  Resolves(t)'
  BY DEF Resolves, InReceipt, HasNumber, LeftOf, MovesStock, Quantities

\* A request that has just begun, or is idle.
LEMMA ResolvesNothing ==
  ASSUME NEW s \in Session, TypeInv', tx'[s].i = 0, tx'[s].qty = [p \in Product |-> 0],
         tx'[s].done = {}, tx'[s].checked = {}, ~HasNumber(s)'
  PROVE  Resolves(s)'
<1>1. tx'[s].lines \in Seq(Line)
  BY DEF TypeInv, TypeOK, Tx
<1>2. PICK lines \in Seq(Line) : lines = tx'[s].lines
  BY <1>1
<1>3. Len(lines) \in Nat /\ \A p \in Product : QtyUpto(lines, 0, p) = 0
  BY QtyUptoGrows
<1>4. \A p \in Product : tx'[s].qty[p] = 0
  OBVIOUS
<1>5. tx'[s].i <= Len(tx'[s].lines)
  BY <1>2, <1>3
<1>6. \A p \in Product : tx'[s].qty[p] = QtyUpto(tx'[s].lines, tx'[s].i, p)
  BY <1>2, <1>3, <1>4
<1>. QED  BY <1>5, <1>6 DEF Resolves

LEMMA ResolveLineResolves ==
  ASSUME TypeInv, NEW s \in Session, Resolves(s), ResolveLine(s)
  PROVE  Resolves(s)'
<1>1. /\ tx[s] \in Tx /\ tx[s].lines \in Seq(Line) /\ tx[s].i \in Nat /\ tx[s].qty \in [Product -> Nat]
      /\ tx[s].pc = "resolve" /\ tx[s].i < Len(tx[s].lines)
  BY DEF TypeInv, TypeOK, Tx, ResolveLine, AtLine
<1>2. PICK line \in Line : line = tx[s].lines[tx[s].i + 1]
  BY <1>1
<1>3. /\ tx'[s].pc = "resolve" /\ tx'[s].lines = tx[s].lines /\ tx'[s].i = tx[s].i + 1
      /\ tx'[s].reg = tx[s].reg /\ tx'[s].done = tx[s].done /\ tx'[s].checked = tx[s].checked
  BY <1>1 DEF TypeInv, TypeOK, Tx, ResolveLine
<1>4. tx'[s].qty = Summed(tx[s].qty, line)
  BY <1>1, <1>2 DEF TypeInv, TypeOK, Tx, ResolveLine
<1>5. \A p \in Product : tx'[s].qty[p] = tx[s].qty[p] + (IF line.product = p THEN line.qty ELSE 0)
  <2>1. line.product \in Product /\ line.qty \in Nat
    BY DEF Line
  <2>. QED  BY <1>1, <1>4, <2>1 DEF Summed
<1>6. \A p \in Product : tx'[s].qty[p] = QtyUpto(tx'[s].lines, tx'[s].i, p)
  <2>1. \A p \in Product : tx[s].qty[p] = QtyUpto(tx[s].lines, tx[s].i, p)
    BY <1>1 DEF Resolves, InReceipt
  <2>2. \A p \in Product : QtyUpto(tx[s].lines, tx[s].i + 1, p) =
          QtyUpto(tx[s].lines, tx[s].i, p) + (IF line.product = p THEN line.qty ELSE 0)
    BY <1>1, <1>2, QtyUptoGrows
  <2>. QED  BY <1>3, <1>5, <2>1, <2>2
<1>7. tx'[s].i <= Len(tx'[s].lines)
  BY <1>1, <1>3
<1>8. tx'[s].done \cup tx'[s].checked # {} => MovesStock(s)'
  BY <1>3 DEF Resolves, MovesStock
<1>. QED  BY <1>3, <1>6, <1>7, <1>8 DEF Resolves, HasNumber

\* The steps that read no line: the quantities stay, and what is taken from the
\* stock or put back is left to do by a register with a warehouse.
SameQuantities(s) ==
  /\ tx'[s].lines = tx[s].lines /\ tx'[s].i = tx[s].i /\ tx'[s].qty = tx[s].qty
  /\ tx'[s].reg = tx[s].reg /\ tx'[s].kind = tx[s].kind

LEMMA QuietResolves ==
  ASSUME TypeInv, NEW s \in Session, Resolves(s), InReceipt(s), SameQuantities(s),
         HasNumber(s)' => HasNumber(s) \/ Resolved(s),
         HasNumber(s)' /\ tx[s].kind \in Selling => LeftOf(s) = {} /\ tx'[s].done = tx[s].done,
         tx'[s].done \cup tx'[s].checked # {} =>
           MovesStock(s) \/ tx[s].done \cup tx[s].checked # {}
  PROVE  Resolves(s)'
<1>1. /\ tx'[s].i <= Len(tx'[s].lines)
      /\ \A p \in Product : tx'[s].qty[p] = QtyUpto(tx'[s].lines, tx'[s].i, p)
  BY DEF Resolves, SameQuantities
<1>2. HasNumber(s)' => tx'[s].i = Len(tx'[s].lines)
  BY DEF Resolves, SameQuantities, Resolved
<1>3. HasNumber(s)' /\ tx'[s].kind \in Selling => LeftOf(s)' = {}
  BY DEF SameQuantities, LeftOf, MovesStock, Quantities
<1>4. tx'[s].done \cup tx'[s].checked # {} => MovesStock(s)'
  BY DEF Resolves, SameQuantities, MovesStock
<1>. QED  BY <1>1, <1>2, <1>3, <1>4 DEF Resolves

LEMMA StepResolves ==
  ASSUME Inv, NEW s \in Session, Resolves(s), Step(s) \/ Fail(s), ~Finish(s)
  PROVE  Resolves(s)'
<1>0. TypeInv /\ tx[s] \in Tx /\ tx \in [Session -> Tx]
  BY DEF Inv, TypeInv, TypeOK
<1>1. CASE ResolveLine(s)
  BY <1>0, <1>1, ResolveLineResolves
<1>2. CASE LockCode(s) \/ SkipCode(s)
  <2>1. /\ tx[s].pc = "resolve" /\ tx'[s].pc = "resolve" /\ SameQuantities(s)
        /\ tx'[s].done = tx[s].done /\ tx'[s].checked = tx[s].checked
    BY <1>0, <1>2 DEF LockCode, SkipCode, AtCode, SameQuantities, Tx
  <2>. QED  BY <1>0, <2>1, QuietResolves DEF InReceipt, HasNumber
<1>3. ASSUME NEW p \in Product, DeductCheck(s, p) PROVE Resolves(s)'
  <2>1. /\ tx[s].pc = "resolve" /\ tx'[s].pc = "resolve" /\ SameQuantities(s) /\ MovesStock(s)
    BY <1>0, <1>3 DEF DeductCheck, Resolved, SameQuantities, LeftOf, Tx
  <2>. QED  BY <1>0, <2>1, QuietResolves DEF InReceipt, HasNumber
<1>4. ASSUME NEW p \in Product, DeductWrite(s, p) PROVE Resolves(s)'
  <2>1. /\ tx[s].pc = "resolve" /\ tx'[s].pc = "resolve" /\ SameQuantities(s)
        /\ tx[s].done \cup tx[s].checked # {}
    BY <1>0, <1>4 DEF DeductWrite, Resolved, SameQuantities, Tx
  <2>. QED  BY <1>0, <2>1, QuietResolves DEF InReceipt, HasNumber
<1>5. ASSUME NEW p \in Product, AddWrite(s, p) PROVE Resolves(s)'
  <2>1. /\ tx[s].pc = "inserted" /\ tx[s].kind = "RETURN" /\ SameQuantities(s) /\ MovesStock(s)
    BY <1>0, <1>5 DEF AddWrite, SameQuantities, LeftOf, Tx
  <2>. QED  BY <1>0, <2>1, QuietResolves DEF InReceipt, HasNumber, Selling
<1>6. CASE ReadNumber(s)
  <2>1. /\ tx[s].pc = "resolve" /\ Resolved(s) /\ SameQuantities(s)
        /\ tx'[s].done = tx[s].done /\ tx'[s].checked = tx[s].checked
        /\ tx[s].kind \in Selling => LeftOf(s) = {}
    BY <1>0, <1>6 DEF ReadNumber, Resolved, SameQuantities, Tx
  <2>. QED  BY <1>0, <2>1, QuietResolves DEF InReceipt
<1>7. CASE InsertReceipt(s)
  <2>1. /\ tx[s].pc = "number" /\ SameQuantities(s)
        /\ tx'[s].done = tx[s].done /\ tx'[s].checked = tx[s].checked
    BY <1>0, <1>7 DEF InsertReceipt, SameQuantities, Tx
  <2>2. tx[s].kind \in Selling => LeftOf(s) = {}
    BY <2>1 DEF Resolves, HasNumber
  <2>. QED  BY <1>0, <2>1, <2>2, QuietResolves DEF InReceipt, HasNumber
<1>. QED  BY <1>1, <1>2, <1>3, <1>4, <1>5, <1>6, <1>7
          DEF Step, Fail, Commit, OpenInsert, CloseWrite, Refuse, DetectDeadlock, Rollback

-----------------------------------------------------------------------------
(* COMMIT. *)

\* What is moved changes by what the request has summed up.
LEMMA CommitMoves ==
  ASSUME Inv, StockInv, NEW s \in Session, Commit(s), NEW p \in Product, NEW types
  PROVE  /\ Moved(p, types) \in Int
         /\ Moved(p, types)' = Moved(p, types) +
              (IF MovesStock(s) /\ tx[s].kind \in types THEN tx[s].qty[p] ELSE 0)
<1> DEFINE x0 == ReceiptOf(s)
           q  == tx[s].qty[p]
           S  == MovedBy(types)
           T  == MovedBy(types)'
           f  == [x \in S |-> ItemQty(x, p)]
           g  == [x \in T |-> ItemQty(x, p)]
           moves == MovesStock(s) /\ tx[s].kind \in types
<1>1. /\ tx[s].pc = "inserted" /\ receipts' = receipts \cup {x0} /\ x0 \notin receipts
      /\ x0.key[1] = tx[s].reg /\ x0.type = tx[s].kind
  <2>1. tx[s].pc = "inserted" /\ receipts' = receipts \cup {x0} /\ x0.key = KeyOf(s) /\ x0.type = tx[s].kind
    BY DEF Commit, ReceiptOf
  <2>2. KeyOf(s) \notin Keys
    BY <2>1 DEF Inv, Numbered, Fresh
  <2>. QED  BY <2>1, <2>2 DEF Keys, KeyOf
<1>2. q \in Nat /\ ItemQty(x0, p) = q
  <2>1. q \in Nat
    BY DEF Inv, TypeInv, TypeOK, Tx
  <2>2. tx[s].i = Len(tx[s].lines) /\ q = QtyUpto(tx[s].lines, tx[s].i, p)
    BY <1>1 DEF StockInv, Resolves, HasNumber, InReceipt
  <2>. QED  BY <2>1, <2>2, ItemsAreLines DEF Inv
<1>3. T = IF moves THEN S \cup {x0} ELSE S
  BY <1>1 DEF MovedBy, MovesStock
<1>4. IsFiniteSet(S) /\ x0 \notin S /\ S \subseteq receipts
  BY <1>1, FS_Subset DEF MovedBy, StockInv
<1>5. \A x \in receipts : ItemQty(x, p) \in Int
  <2>. SUFFICES ASSUME NEW x \in receipts PROVE ItemQty(x, p) \in Int
    OBVIOUS
  <2>1. x.items \in Seq(Item)
    BY DEF Inv, TypeInv, TypeOK, Receipt
  <2> DEFINE h == [k \in DOMAIN x.items |-> IF x.items[k].product = p THEN x.items[k].qty ELSE 0]
  <2>2. IsFiniteSet(DOMAIN h) /\ \A k \in DOMAIN h : h[k] \in Int
    <3>1. /\ DOMAIN x.items = 1..Len(x.items) /\ Len(x.items) \in Nat
          /\ \A k \in DOMAIN x.items : x.items[k] \in Item
      BY <2>1
    <3>2. IsFiniteSet(DOMAIN x.items)
      BY <3>1, FS_Interval
    <3>3. \A k \in DOMAIN x.items : x.items[k].qty \in Int
      BY <3>1 DEF Item
    <3>. QED  BY <3>2, <3>3
  <2> HIDE DEF h
  <2>3. SumFunctionOnSet(h, DOMAIN h) \in Int
    BY <2>2, SumStep DEF Summable
  <2>. QED  BY <2>3 DEF ItemQty, SumFunction, h
<1>6. Summable(f, S) /\ Summable(g, T) /\ S \ {x0} = T \ {x0} /\ \A y \in S \ {x0} : f[y] = g[y]
  <2>1. IsFiniteSet(T)
    BY <1>3, <1>4, FS_AddElement
  <2>2. \A y \in T : ItemQty(y, p) \in Int
    BY <1>2, <1>3, <1>4, <1>5
  <2>3. \A y \in S : ItemQty(y, p) \in Int
    BY <1>4, <1>5
  <2> HIDE DEF S, T, x0
  <2>4. Summable(f, S) /\ Summable(g, T)
    BY <1>4, <2>1, <2>2, <2>3 DEF Summable
  <2>5. S \ {x0} = T \ {x0} /\ S \subseteq T
    BY <1>3
  <2>. QED  BY <2>4, <2>5
<1>7. Moved(p, types) = SumFunctionOnSet(f, S) /\ Moved(p, types)' = SumFunctionOnSet(g, T)
  BY DEF Moved, SumFunction
<1>8. PartOf(f, S, x0) = 0 /\ PartOf(g, T, x0) = IF moves THEN q ELSE 0
  BY <1>2, <1>3, <1>4 DEF PartOf
<1> HIDE DEF f, g, S, T, x0, moves, q
<1>9. /\ SumFunctionOnSet(f, S) - PartOf(f, S, x0) = SumFunctionOnSet(g, T) - PartOf(g, T, x0)
      /\ SumFunctionOnSet(f, S) \in Int /\ SumFunctionOnSet(g, T) \in Int
  <2>1. OneDiffers(f, S, g, T, x0)
    BY <1>6 DEF OneDiffers
  <2>. QED  BY <2>1, SumAtOne
<1>10. (IF moves THEN q ELSE 0) \in Int
  BY <1>2
<1>11. Moved(p, types) \in Int /\ Moved(p, types)' = Moved(p, types) + (IF moves THEN q ELSE 0)
  BY <1>7, <1>8, <1>9, <1>10
<1>. QED  BY <1>11 DEF moves, q

\* Two changes of one row.
LEMMA RowTwice ==
  ASSUME NEW row \in Row, NEW n \in Int, NEW q \in Int
  PROVE  /\ Added([row EXCEPT !.quantity = n], q) = [row EXCEPT !.quantity = n + q]
         /\ Deducted([row EXCEPT !.quantity = n], q) = [row EXCEPT !.quantity = n - q]
BY DEF Added, Deducted, Row

LEMMA CommitStock ==
  ASSUME Inv, StockInv, NEW s \in Session, Commit(s), NEW p \in Product
  PROVE  stock'[p] = [InitialStock[p] EXCEPT !.quantity =
                        @ - Moved(p, Selling)' + Moved(p, {"RETURN"})']
<1> DEFINE q == tx[s].qty[p]
<1>1. /\ tx[s].pc = "inserted" /\ tx[s].kind \in Selling \cup {"RETURN"} /\ q \in Nat
      /\ (tx[s].kind = "RETURN" <=> tx[s].kind \notin Selling)
  BY DEF Commit, Inv, TypeInv, TypeOK, Known, InReceipt, Tx, Selling
<1>2. LeftOf(s) = {}
  BY <1>1 DEF Commit, StockInv, Resolves, HasNumber
<1>3. MovesStock(s) /\ p \notin tx[s].done => q = 0
  BY <1>1, <1>2 DEF LeftOf, Quantities
<1>4. ~MovesStock(s) => p \notin tx[s].done
  BY DEF StockInv, Resolves
<1>5. stock'[p] = IF p \notin tx[s].done THEN stock[p]
                  ELSE IF tx[s].kind = "RETURN" THEN Added(stock[p], q) ELSE Deducted(stock[p], q)
  BY DEF Commit
<1>6. PICK a \in Int, b \in Int : a = Moved(p, Selling) /\ b = Moved(p, {"RETURN"})
  BY CommitMoves
<1>7. /\ Moved(p, Selling)' = a + (IF MovesStock(s) /\ tx[s].kind \in Selling THEN q ELSE 0)
      /\ Moved(p, {"RETURN"})' = b + (IF MovesStock(s) /\ tx[s].kind = "RETURN" THEN q ELSE 0)
  <2>1. Moved(p, Selling)' = Moved(p, Selling) + (IF MovesStock(s) /\ tx[s].kind \in Selling THEN q ELSE 0)
    BY CommitMoves
  <2>2. Moved(p, {"RETURN"})' = Moved(p, {"RETURN"}) +
          (IF MovesStock(s) /\ tx[s].kind \in {"RETURN"} THEN q ELSE 0)
    BY CommitMoves
  <2>. QED  BY <1>6, <2>1, <2>2
<1>8. PICK row \in Row : row = InitialStock[p]
  BY ConstantsAssumption
<1>9. stock[p] = [row EXCEPT !.quantity = row.quantity - a + b]
  BY <1>6, <1>8 DEF StockInv, StockConservation, Row
<1>10. PICK c \in Int, d \in Int : c = Moved(p, Selling)' /\ d = Moved(p, {"RETURN"})'
  BY <1>1, <1>7
<1>11. stock'[p] = [row EXCEPT !.quantity = row.quantity - c + d]
  <2> HIDE DEF q
  <2>0. PICK n \in Int : n = row.quantity - a + b
    BY DEF Row
  <2>4. stock[p] = [row EXCEPT !.quantity = n] /\ row.quantity \in Int
    BY <1>9, <2>0 DEF Row
  <2>5. /\ Added([row EXCEPT !.quantity = n], q) = [row EXCEPT !.quantity = n + q]
        /\ Deducted([row EXCEPT !.quantity = n], q) = [row EXCEPT !.quantity = n - q]
    <3>1. q \in Int
      BY <1>1
    <3>. QED  BY <3>1, RowTwice
  <2>1. CASE p \notin tx[s].done
    <3>1. c = a /\ d = b
      BY <1>3, <1>7, <1>10, <2>1
    <3>. QED  BY <1>5, <1>9, <2>1, <3>1
  <2>2. CASE p \in tx[s].done /\ tx[s].kind = "RETURN"
    <3>1. c = a /\ d = b + q
      BY <1>1, <1>4, <1>7, <1>10, <2>2
    <3>2. stock'[p] = [row EXCEPT !.quantity = n + q]
      BY <1>5, <2>2, <2>4, <2>5
    <3>3. n + q = row.quantity - c + d
      BY <1>1, <2>0, <2>4, <3>1
    <3>. QED  BY <3>2, <3>3
  <2>3. CASE p \in tx[s].done /\ tx[s].kind # "RETURN"
    <3>1. c = a + q /\ d = b
      BY <1>1, <1>4, <1>7, <1>10, <2>3
    <3>2. stock'[p] = [row EXCEPT !.quantity = n - q]
      BY <1>5, <2>3, <2>4, <2>5
    <3>3. n - q = row.quantity - c + d
      BY <1>1, <2>0, <2>4, <3>1
    <3>. QED  BY <3>2, <3>3
  <2>. QED  BY <2>1, <2>2, <2>3
<1>. QED  BY <1>8, <1>10, <1>11

-----------------------------------------------------------------------------
(* Every step. *)

\* The stock is right as long as it and the receipts do not change.
LEMMA StockStays ==
  ASSUME StockConservation, UNCHANGED <<receipts, stock>>
  PROVE  StockConservation'
<1>1. \A p, types : Moved(p, types)' = Moved(p, types)
  BY DEF Moved, MovedBy
<1>. QED  BY <1>1 DEF StockConservation

LEMMA RequestResolves ==
  ASSUME Inv, StockInv, Inv', NEW s \in Session, Begin(s) \/ Step(s) \/ Fail(s)
  PROVE  \A t \in Session : Resolves(t)'
<1>0. tx \in [Session -> Tx] /\ TypeInv'
  BY DEF Inv, TypeInv, TypeOK
<1>1. ASSUME NEW t \in Session, t # s PROVE tx'[t] = tx[t]
  <2>1. \A rec : tx' = [tx EXCEPT ![s] = rec] => tx'[t] = tx[t]
    BY <1>0, <1>1
  <2>2. CASE Begin(s)
    BY <2>1, <2>2 DEF Begin, SellBegin, ReturnBegin, OpenRead, CloseRead
  <2>3. CASE Step(s) \/ Fail(s)
    <3>1. Finish(s) \/ Progress(s) => tx'[t] = tx[t]
      BY <2>1 DEF Finish, Progress
    <3>2. ReadNumber(s) \/ InsertReceipt(s) => tx'[t] = tx[t]
      BY <1>0, <1>1 DEF ReadNumber, InsertReceipt
    <3>. QED  BY <2>3, <3>1, <3>2, ResolveLineProgresses, CodeProgresses, DeductProgresses, AddProgresses
              DEF Inv, Step, Fail, Commit, OpenInsert, CloseWrite, Refuse, DetectDeadlock, Rollback
  <2>. QED  BY <1>1, <2>2, <2>3
<1>2. ASSUME NEW t \in Session, t # s PROVE Resolves(t)'
  BY <1>1, <1>2, ResolvesStays DEF StockInv
<1>3. Resolves(s)'
  <2>1. CASE Finish(s)
    <3>1. tx'[s] = NoTx
      BY <1>0, <2>1 DEF Finish
    <3>. QED  BY <1>0, <3>1, ResolvesNothing DEF NoTx, HasNumber
  <2>2. CASE Begin(s)
    <3>1. /\ tx'[s].i = 0 /\ tx'[s].qty = [p \in Product |-> 0]
          /\ tx'[s].done = {} /\ tx'[s].checked = {} /\ tx'[s].pc \in {"resolve", "open", "close"}
      <4>1. CASE \E r \in Register, kind \in Selling, lines \in SaleRequest : SellBegin(s, r, kind, lines)
        <5>1. PICK r \in Register, kind \in Selling, lines \in SaleRequest : SellBegin(s, r, kind, lines)
          BY <4>1
        <5>2. PICK n : tx'[s] = [NoTx EXCEPT !.pc = "resolve", !.kind = kind,
                                             !.reg = r, !.shift = n, !.lines = lines]
          BY <1>0, <5>1 DEF SellBegin
        <5>. QED  BY <5>2 DEF NoTx
      <4>2. CASE \E x \in receipts, lines \in ReturnRequest : ReturnBegin(s, x, lines)
        BY <1>0, <4>2 DEF ReturnBegin, NoTx
      <4>3. CASE \E r \in Register : OpenRead(s, r) \/ \E n \in DOMAIN shift[r] : CloseRead(s, r, n)
        <5>1. PICK r \in Register : OpenRead(s, r) \/ \E n \in DOMAIN shift[r] : CloseRead(s, r, n)
          BY <4>3
        <5>2. CASE OpenRead(s, r)
          BY <1>0, <5>2 DEF OpenRead, NoTx
        <5>3. ASSUME NEW n \in DOMAIN shift[r], CloseRead(s, r, n)
              PROVE  tx'[s] = [NoTx EXCEPT !.pc = "close", !.reg = r, !.shift = n,
                                           !.report = ReportOf(r, n)]
          BY <1>0, <5>3 DEF CloseRead
        <5>. QED  BY <5>1, <5>2, <5>3 DEF NoTx
      <4>. QED  BY <2>2, <4>1, <4>2, <4>3 DEF Begin
    <3>. QED  BY <1>0, <3>1, ResolvesNothing DEF HasNumber
  <2>3. CASE (Step(s) \/ Fail(s)) /\ ~Finish(s)
    BY <2>3, StepResolves DEF StockInv
  <2>. QED  BY <2>1, <2>2, <2>3
<1>. QED  BY <1>2, <1>3

LEMMA StepStock ==
  ASSUME Inv, StockInv, [Next]_vars
  PROVE  StockInv'
<1>0. Inv'
  BY NextInv
<1>1. \A t \in Session : Resolves(t)'
  <2>1. CASE \E s \in Session : Begin(s) \/ Step(s) \/ Fail(s)
    BY <1>0, <2>1, RequestResolves
  <2>2. CASE UNCHANGED tx
    BY <2>2, ResolvesStays DEF StockInv
  <2>. QED  BY <2>1, <2>2 DEF Next, RegisterCodes, WriteOff, vars
<1>2. CASE \E s \in Session : Commit(s)
  <2>1. PICK s \in Session : Commit(s)
    BY <1>2
  <2>2. IsFiniteSet(receipts')
    BY <2>1, FS_AddElement DEF StockInv, Commit
  <2>3. StockConservation'
    BY <2>1, CommitStock DEF StockConservation
  <2>. QED  BY <1>1, <2>2, <2>3 DEF StockInv
<1>3. CASE ~\E s \in Session : Commit(s)
  <2>1. UNCHANGED <<receipts, stock>>
    BY <1>3 DEF Next, Begin, Step, Fail, SellBegin, ReturnBegin, OpenRead, CloseRead, ResolveLine,
           LockCode, SkipCode, DeductCheck, DeductWrite, AddWrite, ReadNumber, InsertReceipt,
           OpenInsert, CloseWrite, Refuse, DetectDeadlock, Rollback, RegisterCodes, WriteOff,
           vars, tables
  <2>. QED  BY <1>1, <2>1, StockStays DEF StockInv
<1>. QED  BY <1>2, <1>3

LEMMA InitStock ==
  ASSUME Init
  PROVE  StockInv
<1>1. ASSUME NEW p \in Product, NEW types PROVE Moved(p, types) = 0
  <2>1. MovedBy(types) = {}
    BY DEF Init, MovedBy
  <2>2. PICK f : f = [x \in MovedBy(types) |-> ItemQty(x, p)]
    OBVIOUS
  <2>3. SumFunctionOnSet(f, {}) = 0
    BY FS_EmptySet, SumStep DEF Summable
  <2>. QED  BY <2>1, <2>2, <2>3 DEF Moved, SumFunction
<1>2. StockConservation
  <2>1. \A p \in Product : InitialStock[p] \in Row /\ stock[p] = InitialStock[p]
    BY ConstantsAssumption DEF Init
  <2>. QED  BY <1>1, <2>1 DEF StockConservation, Row
<1>3. ASSUME NEW s \in Session PROVE Resolves(s)
  BY DEF Init, Resolves, InReceipt, HasNumber, NoTx
<1>. QED  BY <1>2, <1>3, FS_EmptySet DEF StockInv, Init

\* StockConservation: the stock is the first one less what the receipts of the
\* registers with a warehouse sold, plus what they took back.  A sale takes all
\* its quantities before its receipt has a number and a return puts them back
\* before it commits (Deduct, Add, LineQty); a product in two lines is moved once,
\* by the sum.
THEOREM StockIsConserved == Spec => []StockConservation
<1>1. Init => StockInv
  BY InitStock
<1>2. Inv /\ StockInv /\ [Next]_vars => StockInv'
  BY StepStock
<1>3. StockInv => StockConservation
  BY DEF StockInv
<1>. QED  BY <1>1, <1>2, <1>3, Invariance, PTL DEF Spec

=============================================================================
