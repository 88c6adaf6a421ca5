------------------------- MODULE CashDeskProperties -------------------------
(***************************************************************************)
(* What the cash desk promises, whatever the interleaving of its requests. *)
(***************************************************************************)
EXTENDS CashDesk

\* Every variable keeps its shape: the tables their rows, the row locks a
\* session or none, every request in progress its record (service/receipt.go).
TypeOK ==
  /\ shift \in [Register -> Seq(Shift)]
  /\ receipts \subseteq Receipt
  /\ pool \in [Code -> {"ABSENT", "AVAILABLE", "SOLD", "WRITTEN_OFF"}]
  /\ link \in [Code -> Key \cup {None}]
  /\ gismt \in [Code -> Seq(Operation)]
  /\ stock \in [Product -> Row]
  /\ codeOwner \in [Code -> Session \cup {NoSession}]
  /\ stockOwner \in [Product -> Session \cup {NoSession}]
  /\ tx \in [Session -> Tx]

Queue(c, op) == {k \in DOMAIN gismt[c] : gismt[c][k].op = op}

\* A code is SOLD exactly while its link names a committed sale or correction
\* that no return receipt has taken it back from: neither two requests with the
\* same code nor a sale and a write-off that overlap can part the pool from the
\* links and the queue (LockCodes, SoldCodeInReceipt, Withdraw, Return).
CodeLedger ==
  \A c \in Code :
    /\ pool[c] = "SOLD" <=> link[c] # None /\ Queue(c, "RETURN") = {}
    /\ link[c] # None => \E x \in receipts : x.key = link[c] /\ x.type \in Selling

\* A code is returned by one receipt at most, a return of the receipt that sold
\* it: of two overlapping returns one finds the code no longer SOLD.
ReturnedOnce ==
  \A c \in Code : \A j \in Queue(c, "RETURN") :
    /\ \E x \in receipts : /\ x.key = gismt[c][j].receipt
                           /\ x.type = "RETURN" /\ x.base = link[c]
    /\ \A k \in Queue(c, "RETURN") : gismt[c][k].receipt = gismt[c][j].receipt

\* The operation queued last for GIS MT tells the status of the code in the
\* pool: the state information system is never behind a later change.
QueueTellsStatus ==
  \A c \in Code :
    pool[c] = IF gismt[c] = <<>> THEN "ABSENT"
              ELSE CASE Last(gismt[c]).op \in {"RECEIVE", "RETURN"} -> "AVAILABLE"
                     [] Last(gismt[c]).op = "WITHDRAW" -> "SOLD"
                     [] Last(gismt[c]).op = "WRITE_OFF" -> "WRITTEN_OFF"

\* A code written off stays so, also when a sale or a return that has checked it
\* is still in progress.
WrittenOffForever ==
  [][\A c \in Code : pool[c] = "WRITTEN_OFF" => pool'[c] = "WRITTEN_OFF"]_vars

\* The receipts of a register are numbered 1, 2, 3, ... with no gap and no
\* number twice, although requests read the last number without a lock and may
\* roll back after it (Insert, UNIQUE (cash_register_id, receipt_number)).
NumbersDense ==
  /\ \A x, y \in receipts : x.key = y.key => x = y
  /\ \A r \in Register : \A n \in NumbersOf(r) : \A m \in 1..n : m \in NumbersOf(r)

\* Receipts are only added, at each register in the order of their numbers.
ReceiptsAppended ==
  [][/\ receipts \subseteq receipts'
     /\ \A x \in receipts' \ receipts : \A y \in receipts :
          x.key[1] = y.key[1] => y.key[2] < x.key[2]]_vars

\* At most one shift of a register is open, and it is the one opened last.
OneOpenShift ==
  \A r \in Register : \A n \in DOMAIN shift[r] : IsOpen(r, n) => n = Len(shift[r])

\* A closed shift never opens again and its Z report is never replaced, although
\* two requests may close the same shift at once (CloseShift).
ClosedForever ==
  [][\A r \in Register : \A n \in DOMAIN shift[r] :
       shift[r][n].status = "CLOSED" => n \in DOMAIN shift'[r] /\ shift'[r][n] = shift[r][n]]_vars

\* What a Z report leaves out of its shift came after all it counts: it may lack
\* the last receipts, never one in the middle (Report, corrections not counted).
ReportIsPrefix ==
  \A r \in Register : \A n \in DOMAIN shift[r] :
    \A k \in shift[r][n].report : \A x \in receipts :
      x.key[1] = r /\ x.shift = n /\ x.type # "CORRECTION" /\ x.key[2] <= k[2]
        => x.key \in shift[r][n].report

\* The stock is what was there, less what the receipts of the registers with a
\* warehouse sold, plus what they took back (Deduct, Add, LineQty).
MovedBy(types) == {x \in receipts : x.key[1] \in WithWarehouse /\ x.type \in types}

Moved(p, types) == SumFunction([x \in MovedBy(types) |-> ItemQty(x, p)])

StockConservation ==
  \A p \in Product :
    stock[p] = [InitialStock[p] EXCEPT !.quantity = @ - Moved(p, Selling) + Moved(p, {"RETURN"})]

\* Every request ends: with its receipt, with an error, or aborted by the
\* deadlock detector; no wait for a code, a balance or a number is forever.
RequestsFinish == \A s \in Session : tx[s].pc # "idle" ~> tx[s].pc = "idle"

-----------------------------------------------------------------------------
(* What the repository says and the code does not do. *)

\* A code that LockCodes finds AVAILABLE, one a return has put back into
\* circulation included, can be sold: the sale does not fail on it later.
LockedCodesSell ==
  \A s \in Session :
    tx[s].pc = "number" /\ tx[s].kind \in Selling /\ IsInjective(tx[s].ids) => LinksFree(s)

=============================================================================
