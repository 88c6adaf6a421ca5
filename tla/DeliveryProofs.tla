--------------------------- MODULE DeliveryProofs ---------------------------
(***************************************************************************)
(* Theorems about deliveries, for every number of requests, deliveries,    *)
(* couriers and assignments: the lock of the delivery, which Assign and    *)
(* SetStatus take first and an answer of a courier takes last, is enough   *)
(* to keep a delivery and its assignments together.                        *)
(***************************************************************************)
EXTENDS DeliveryProperties, RanksAndSums

\* What a request in progress has read or locked.  It is about a delivery that
\* exists; who has the lock of the delivery knows its status, and if it has
\* locked an assignment, that this one is active.
Known(s) ==
  LET o == tx[s].order IN
  /\ tx[s].kind # "none" => o \in Created
  /\ tx[s].kind = "assign" =>
       /\ orderOwner[o] = s /\ delivery[o].status = "NEW"
       /\ Len(assignment[o]) < MaxAssignments /\ tx[s].courier \in Courier /\ tx[s].at = 0
  /\ tx[s].kind = "status" =>
       /\ orderOwner[o] = s /\ tx[s].to \in deliveryTransitions[delivery[o].status]
       /\ IF tx[s].locked
          THEN EndsAssignment(tx[s].to) /\ tx[s].at \in DOMAIN assignment[o] /\ Active(assignment[o][tx[s].at])
          ELSE tx[s].at = 0
  /\ tx[s].kind \in {"accept", "reject"} => tx[s].at \in DOMAIN assignment[o]

\* The assignments of a delivery with this status agree with it.
Agrees(rows, status) ==
  /\ \A j, k \in DOMAIN rows : Active(rows[j]) /\ Active(rows[k]) => j = k
  /\ status \in {"NEW"} \cup Terminal => \A k \in DOMAIN rows : ~Active(rows[k])
  /\ \A k \in DOMAIN rows :
       /\ rows[k].status = "COMPLETED" => status = "DELIVERED"
       /\ rows[k].status = "CANCELED" => status \in {"CANCELED", "RETURNED"}

\* Assignments are numbered within the bound, and there are none before the delivery.
Numbered ==
  \A o \in Order : Len(assignment[o]) <= MaxAssignments /\ (o \notin Created => assignment[o] = <<>>)

Inv ==
  /\ TypeOK /\ (\A s \in Session : Known(s)) /\ Numbered
  /\ \A o \in Created \ overwritten : Agrees(assignment[o], delivery[o].status)

-----------------------------------------------------------------------------
LEMMA IndexesAreFinite ==
  ASSUME NEW n \in Nat
  PROVE  IsFiniteSet(1..n)
<1>1. 1 \in Int /\ n \in Int
  OBVIOUS
<1>. QED  BY <1>1, FS_Interval

\* SelectLastInSeq finds an active assignment if there is one.
LEMMA ActiveAssignmentIs ==
  ASSUME TypeOK, NEW o \in Order
  PROVE  \/ /\ ActiveAssignment(o) \in DOMAIN assignment[o]
            /\ Active(assignment[o][ActiveAssignment(o)])
         \/ ActiveAssignment(o) = 0 /\ \A k \in DOMAIN assignment[o] : ~Active(assignment[o][k])
<1> DEFINE I == {k \in 1..Len(assignment[o]) : Active(assignment[o][k])}
<1>1. ActiveAssignment(o) = IF I # {} THEN Max(I) ELSE 0
  BY DEF ActiveAssignment, SelectLastInSeq, Active
<1>2. assignment[o] \in Seq(AssignmentRow) /\ DOMAIN assignment[o] = 1..Len(assignment[o])
      /\ Len(assignment[o]) \in Nat
  BY DEF TypeOK
<1>3. CASE I # {}
  <2>1. IsFiniteSet(I) /\ I \in SUBSET Int
    <3>1. IsFiniteSet(1..Len(assignment[o]))
      BY <1>2, IndexesAreFinite
    <3>. QED  BY <3>1, FS_Subset
  <2> HIDE DEF I
  <2>2. Max(I) \in I
    BY <1>3, <2>1, MaximumExists DEF Max
  <2>. QED  BY <1>1, <1>2, <1>3, <2>2 DEF I
<1>4. CASE I = {}
  BY <1>1, <1>2, <1>4
<1>. QED  BY <1>3, <1>4

LEMMA TransitionsAre ==
  \A status \in Status : deliveryTransitions[status] \subseteq Status
                         /\ (status \in Terminal => deliveryTransitions[status] = {})
BY DEF deliveryTransitions, Status, Terminal

LEMMA NoTxTyped == NoTx \in Tx /\ NoTx.kind = "none"
BY DeliveryAssumption DEF NoTx, Tx, Status

\* A request that a step of another leaves alone: what it has locked stays, and
\* assignments do not go away.
LEMMA OtherKnown ==
  ASSUME TypeOK, NEW t \in Session, Known(t), tx'[t] = tx[t], Created \subseteq Created',
         \A o \in Created : orderOwner[o] = t => UNCHANGED <<delivery[o], assignment[o], orderOwner[o]>>,
         \A o \in Order : DOMAIN assignment[o] \subseteq DOMAIN assignment'[o]
  PROVE  Known(t)'
<1>1. CASE tx[t].kind = "none"
  BY <1>1 DEF Known
<1>2. CASE tx[t].kind # "none"
  <2>1. tx[t].order \in Created /\ tx[t].order \in Order
    BY <1>2 DEF Known, Created
  <2>2. tx[t].kind \in {"assign", "status"} => orderOwner[tx[t].order] = t
    BY DEF Known
  <2>3. tx[t].kind \in {"assign", "status"} =>
          UNCHANGED <<delivery[tx[t].order], assignment[tx[t].order], orderOwner[tx[t].order]>>
    <3>1. \A o \in Created : o = tx[t].order /\ orderOwner[o] = t =>
             /\ delivery'[tx[t].order] = delivery[tx[t].order]
             /\ assignment'[tx[t].order] = assignment[tx[t].order]
             /\ orderOwner'[tx[t].order] = orderOwner[tx[t].order]
      OBVIOUS
    <3>. QED  BY <2>1, <2>2, <3>1
  <2>. QED  BY <2>1, <2>2, <2>3 DEF Known, EndsAssignment, Active, deliveryTransitions, Status
<1>. QED  BY <1>1, <1>2

-----------------------------------------------------------------------------
(* Locks. *)

LEMMA AcquireKeeps ==
  ASSUME NEW Row, NEW owner \in [Row -> Session \cup {NoSession}], NEW s \in Session, NEW row \in Row,
         Grantable(owner, row, s)
  PROVE  /\ Acquire(owner, row, s) \in [Row -> Session \cup {NoSession}]
         /\ Acquire(owner, row, s)[row] = s
         /\ \A t \in Session \ {s}, r \in Row : owner[r] = t => Acquire(owner, row, s)[r] = t
BY DeliveryAssumption DEF Grantable, Acquire

LEMMA ReleaseKeeps ==
  ASSUME NEW Row, NEW owner \in [Row -> Session \cup {NoSession}], NEW s \in Session
  PROVE  /\ ReleaseAll(owner, s) \in [Row -> Session \cup {NoSession}]
         /\ \A t \in Session \ {s}, r \in Row : owner[r] = t => ReleaseAll(owner, s)[r] = t
BY DEF ReleaseAll

\* The owners keep their types, and s takes no lock of another.
OwnersKept(s) ==
  /\ orderOwner' \in [Order -> Session \cup {NoSession}]
  /\ assignmentOwner' \in [AssignmentId -> Session \cup {NoSession}]
  /\ \A t \in Session \ {s}, o \in Order : orderOwner[o] = t => orderOwner'[o] = t

LEMMA FinishKeeps ==
  ASSUME TypeOK, NEW s \in Session, Finish(s)
  PROVE  OwnersKept(s) /\ tx' = [tx EXCEPT ![s] = NoTx]
BY ReleaseKeeps DEF Finish, OwnersKept, TypeOK

-----------------------------------------------------------------------------
(* One lemma per kind of step. *)

\* A step of the request of s that leaves the tables alone.
LEMMA QuietInv ==
  ASSUME Inv, NEW s \in Session, NEW rec \in Tx, tx' = [tx EXCEPT ![s] = rec],
         UNCHANGED tables, OwnersKept(s), tx'[s] = rec => Known(s)'
  PROVE  Inv'
<1>1. tx'[s] = rec /\ \A t \in Session \ {s} : tx'[t] = tx[t]
  BY DEF Inv, TypeOK
<1>2. UNCHANGED <<delivery, assignment, overwritten>> /\ Created' = Created
  BY DEF tables, Created
<1>3. ASSUME NEW t \in Session, t # s PROVE Known(t)'
  <2>1. \A o \in Created : orderOwner[o] = t => UNCHANGED <<delivery[o], assignment[o], orderOwner[o]>>
    BY <1>2, <1>3 DEF OwnersKept, Created
  <2>. QED  BY <1>1, <1>2, <1>3, <2>1, OtherKnown DEF Inv
<1>4. TypeOK'
  BY <1>2 DEF OwnersKept, Inv, TypeOK
<1>5. Numbered' /\ \A o \in Created' \ overwritten' : Agrees(assignment'[o], delivery'[o].status)
  BY <1>2 DEF Inv, Numbered
<1>6. (\A o \in Created \ overwritten : Agrees(assignment[o], delivery[o].status))'
  BY <1>5 DEF Agrees, Active
<1>. QED  BY <1>1, <1>3, <1>4, <1>5, <1>6 DEF Inv

LEMMA CreateInv ==
  ASSUME Inv, NEW o \in Order, NEW zone \in Zone \cup {None}, Create(o, zone)
  PROVE  Inv'
<1> DEFINE row == [status |-> "NEW", zone |-> zone]
<1>1. row \in DeliveryRow /\ row # None /\ row.status = "NEW"
  BY DeliveryAssumption DEF DeliveryRow, Status
<1>2. delivery[o] = None /\ delivery' = [delivery EXCEPT ![o] = row]
      /\ UNCHANGED <<assignment, overwritten, orderOwner, assignmentOwner, tx>>
  BY DEF Create
<1>3. delivery'[o] = row /\ \A p \in Order \ {o} : delivery'[p] = delivery[p]
  BY <1>2 DEF Inv, TypeOK
<1> HIDE DEF row
<1>4. Created' = Created \cup {o} /\ o \notin Created
  BY <1>1, <1>2, <1>3 DEF Created
<1>5. TypeOK'
  BY <1>1, <1>2 DEF Inv, TypeOK
<1>6. ASSUME NEW t \in Session PROVE Known(t)'
  <2>1. \A p \in Created : orderOwner[p] = t => UNCHANGED <<delivery[p], assignment[p], orderOwner[p]>>
    BY <1>2, <1>3, <1>4 DEF Created
  <2>. QED  BY <1>2, <1>4, <2>1, OtherKnown DEF Inv
<1>7. Numbered'
  BY <1>2, <1>4 DEF Inv, Numbered
<1>8. ASSUME NEW p \in Created' \ overwritten' PROVE Agrees(assignment'[p], delivery'[p].status)
  <2>1. CASE p = o
    <3>1. assignment'[o] = <<>>
      BY <1>2, <1>4 DEF Inv, Numbered
    <3>. QED  BY <2>1, <3>1 DEF Agrees
  <2>2. CASE p # o
    BY <2>2, <1>2, <1>3, <1>4 DEF Inv, Created
  <2>. QED  BY <2>1, <2>2
<1>9. (\A p \in Created \ overwritten : Agrees(assignment[p], delivery[p].status))'
  BY <1>8 DEF Agrees, Active
<1>. QED  BY <1>5, <1>6, <1>7, <1>9 DEF Inv

LEMMA LockOrderInv ==
  ASSUME Inv, NEW s \in Session, NEW o \in Order, NEW rec \in Tx, LockOrder(s, o, rec),
         rec.order = o, rec.at = 0, rec.locked = FALSE,
         \/ /\ rec.kind = "assign" /\ delivery[o].status = "NEW"
            /\ Len(assignment[o]) < MaxAssignments /\ rec.courier \in Courier
         \/ rec.kind = "status" /\ rec.to \in deliveryTransitions[delivery[o].status]
  PROVE  Inv'
<1>1. /\ o \in Created /\ orderOwner' = Acquire(orderOwner, o, s)
      /\ tx' = [tx EXCEPT ![s] = rec] /\ UNCHANGED <<tables, assignmentOwner>>
  BY DEF LockOrder
<1>2. OwnersKept(s) /\ orderOwner'[o] = s
  BY <1>1, AcquireKeeps DEF LockOrder, OwnersKept, Inv, TypeOK
<1>3. tx'[s] = rec => Known(s)'
  BY <1>1, <1>2 DEF Known, tables, Created, deliveryTransitions, Status
<1>. QED  BY <1>1, <1>2, <1>3, QuietInv

LEMMA AssignInv ==
  ASSUME Inv, NEW s \in Session, NEW o \in Order, NEW c \in Courier, Assign(s, o, c)
  PROVE  Inv'
<1> DEFINE rec == [NoTx EXCEPT !.kind = "assign", !.order = o, !.courier = c]
<1>1. rec \in Tx /\ rec.kind = "assign" /\ rec.order = o /\ rec.courier = c /\ rec.at = 0 /\ rec.locked = FALSE
  BY NoTxTyped DEF NoTx, Tx
<1>2. LockOrder(s, o, rec)
  BY DEF Assign
<1> HIDE DEF rec
<1>. QED  BY <1>1, <1>2, LockOrderInv DEF Assign

LEMMA SetStatusInv ==
  ASSUME Inv, NEW s \in Session, NEW o \in Order, NEW to \in Status, SetStatus(s, o, to)
  PROVE  Inv'
<1> DEFINE rec == [NoTx EXCEPT !.kind = "status", !.order = o, !.to = to]
<1>1. rec \in Tx /\ rec.kind = "status" /\ rec.order = o /\ rec.to = to /\ rec.at = 0 /\ rec.locked = FALSE
  BY NoTxTyped DEF NoTx, Tx
<1>2. LockOrder(s, o, rec)
  BY DEF SetStatus
<1> HIDE DEF rec
<1>. QED  BY <1>1, <1>2, LockOrderInv DEF SetStatus

LEMMA AcceptInv ==
  ASSUME Inv, NEW s \in Session, NEW o \in Order, NEW answer \in {"accept", "reject"}, Accept(s, o, answer)
  PROVE  Inv'
<1> DEFINE rec == [NoTx EXCEPT !.kind = answer, !.order = o, !.at = ActiveAssignment(o)]
<1>1. /\ tx' = [tx EXCEPT ![s] = rec] /\ UNCHANGED <<tables, orderOwner, assignmentOwner>>
      /\ ActiveAssignment(o) # 0
  BY DEF Accept, Pending
<1>2. ActiveAssignment(o) \in DOMAIN assignment[o] /\ ActiveAssignment(o) \in 0..MaxAssignments
  <2>1. ActiveAssignment(o) \in DOMAIN assignment[o]
    BY <1>1, ActiveAssignmentIs DEF Inv
  <2>. QED  BY <2>1, DeliveryAssumption DEF Inv, Numbered, TypeOK
<1>3. o \in Created
  BY <1>2 DEF Inv, Numbered
<1>4. rec \in Tx /\ rec.kind = answer /\ rec.order = o /\ rec.at = ActiveAssignment(o)
  BY <1>2, NoTxTyped DEF NoTx, Tx
<1> HIDE DEF rec
<1>5. OwnersKept(s)
  BY <1>1 DEF OwnersKept, Inv, TypeOK
<1>6. UNCHANGED <<delivery, assignment>> /\ Created' = Created
  BY <1>1 DEF tables, Created
<1>7. tx'[s] = rec => Known(s)'
  BY <1>2, <1>3, <1>4, <1>6 DEF Known
<1>. QED  BY <1>1, <1>4, <1>5, <1>7, QuietInv

LEMMA FinishInv ==
  ASSUME Inv, NEW s \in Session, Rollback(s)
  PROVE  Inv'
<1>1. OwnersKept(s) /\ tx' = [tx EXCEPT ![s] = NoTx] /\ UNCHANGED tables
  BY FinishKeeps DEF Rollback, Inv
<1>2. tx'[s] = NoTx => Known(s)'
  BY NoTxTyped DEF Known
<1>. QED  BY <1>1, <1>2, NoTxTyped, QuietInv

LEMMA LockAssignmentInv ==
  ASSUME Inv, NEW s \in Session, LockAssignment(s)
  PROVE  Inv'
<1> DEFINE o == tx[s].order
           rec == [tx[s] EXCEPT !.at = Writes(s), !.locked = TRUE]
<1>1. /\ tx[s].kind # "none" /\ Writes(s) # 0 /\ ~tx[s].locked
      /\ Grantable(assignmentOwner, <<o, Writes(s)>>, s)
      /\ assignmentOwner' = Acquire(assignmentOwner, <<o, Writes(s)>>, s)
      /\ tx' = [tx EXCEPT ![s].at = Writes(s), ![s].locked = TRUE]
      /\ UNCHANGED <<tables, orderOwner>>
  BY DEF LockAssignment, NeedsAssignment, Idle
<1>2. o \in Created /\ o \in Order /\ Known(s) /\ tx[s] \in Tx
  BY <1>1 DEF Inv, Known, Created, TypeOK
<1>3. /\ Writes(s) \in DOMAIN assignment[o]
      /\ tx[s].kind = "status" => EndsAssignment(tx[s].to) /\ Active(assignment[o][Writes(s)])
      /\ tx[s].kind # "status" => Writes(s) = tx[s].at
      /\ tx[s].kind # "assign"
  <2>1. CASE tx[s].kind = "status" /\ EndsAssignment(tx[s].to)
    BY <2>1, <1>1, <1>2, ActiveAssignmentIs DEF Writes, Inv
  <2>2. CASE ~(tx[s].kind = "status" /\ EndsAssignment(tx[s].to))
    <3>1. Writes(s) = tx[s].at
      BY <2>2 DEF Writes
    <3>. QED  BY <2>2, <3>1, <1>1, <1>2 DEF Known, Tx
  <2>. QED  BY <2>1, <2>2
<1>4. Writes(s) \in 1..MaxAssignments /\ <<o, Writes(s)>> \in AssignmentId
  BY <1>2, <1>3, DeliveryAssumption DEF Inv, Numbered, TypeOK, AssignmentId
<1>5. OwnersKept(s)
  <2> DEFINE row == <<o, Writes(s)>>
  <2>1. assignmentOwner \in [AssignmentId -> Session \cup {NoSession}]
    BY DEF Inv, TypeOK
  <2>2. /\ row \in AssignmentId /\ Grantable(assignmentOwner, row, s)
        /\ assignmentOwner' = Acquire(assignmentOwner, row, s)
    BY <1>1, <1>4
  <2> HIDE DEF row
  <2>3. Acquire(assignmentOwner, row, s) \in [AssignmentId -> Session \cup {NoSession}]
    BY <2>1, <2>2, AcquireKeeps
  <2>. QED  BY <1>1, <2>2, <2>3 DEF OwnersKept, Inv, TypeOK
<1>6. tx' = [tx EXCEPT ![s] = rec]
  BY <1>1 DEF Inv, TypeOK
<1>7. /\ rec \in Tx /\ rec.kind = tx[s].kind /\ rec.order = o /\ rec.to = tx[s].to
      /\ rec.at = Writes(s) /\ rec.locked = TRUE
  <2> DEFINE at == Writes(s)
  <2>1. at \in 0..MaxAssignments
    BY <1>4, DeliveryAssumption
  <2> HIDE DEF at
  <2>2. LET r == [tx[s] EXCEPT !.at = at, !.locked = TRUE] IN
        /\ r \in Tx /\ r.kind = tx[s].kind /\ r.order = tx[s].order /\ r.to = tx[s].to
        /\ r.at = at /\ r.locked = TRUE
    BY <1>2, <2>1 DEF Tx
  <2>. QED  BY <2>2 DEF at
<1>8. UNCHANGED <<delivery, assignment, orderOwner>> /\ Created' = Created /\ UNCHANGED tables
  BY <1>1 DEF tables, Created
<1> HIDE DEF rec, o
<1>9. tx'[s] = rec => Known(s)'
  <2> SUFFICES ASSUME tx'[s] = rec PROVE Known(s)'
    OBVIOUS
  <2>1. CASE rec.kind = "status"
    <3>1. orderOwner[o] = s /\ rec.to \in deliveryTransitions[delivery[o].status]
      BY <2>1, <1>2, <1>7 DEF Known, o
    <3>. QED  BY <2>1, <3>1, <1>2, <1>3, <1>7, <1>8 DEF Known, EndsAssignment, Active, deliveryTransitions, Status
  <2>2. CASE rec.kind # "status"
    BY <2>2, <1>1, <1>2, <1>3, <1>7, <1>8 DEF Known, Tx
  <2>. QED  BY <2>1, <2>2
<1>. QED  BY <1>5, <1>6, <1>7, <1>8, <1>9, QuietInv

\* Commit writes the delivery and at most one of its assignments.
LEMMA CommitWrites ==
  ASSUME Inv, NEW s \in Session, Commit(s)
  PROVE  LET o == tx[s].order IN
         /\ tx[s].kind # "none" /\ o \in Created /\ o \in Order /\ tx[s] \in Tx /\ Known(s)
         /\ (orderOwner[o] = NoSession \/ orderOwner[o] = s)
         /\ delivery[o] \in DeliveryRow /\ StatusAfter(s) \in Status
         /\ delivery' = [delivery EXCEPT ![o].status = StatusAfter(s)]
         /\ delivery'[o].status = StatusAfter(s) /\ delivery'[o] \in DeliveryRow
         /\ assignment' = [assignment EXCEPT ![o] = AssignmentsAfter(s, assignment[o])]
         /\ assignment'[o] = AssignmentsAfter(s, assignment[o])
         /\ \A p \in Order \ {o} : delivery'[p] = delivery[p] /\ assignment'[p] = assignment[p]
         /\ Created' = Created
<1> DEFINE o == tx[s].order
<1>1. tx[s].kind # "none" /\ o \in Created /\ o \in Order /\ tx[s] \in Tx /\ Known(s)
  BY DEF Commit, Idle, Inv, Known, Created, TypeOK
<1>2. delivery[o] \in DeliveryRow
  BY <1>1 DEF Created, Inv, TypeOK
<1>3. StatusAfter(s) \in Status
  BY <1>1, <1>2 DEF StatusAfter, Tx, DeliveryRow, Status
<1>4. /\ delivery' = [delivery EXCEPT ![o].status = StatusAfter(s)]
      /\ assignment' = [assignment EXCEPT ![o] = AssignmentsAfter(s, assignment[o])]
      /\ (orderOwner[o] = NoSession \/ orderOwner[o] = s)
  BY DEF Commit, Grantable
<1> DEFINE row == [delivery[o] EXCEPT !.status = StatusAfter(s)]
           rows == AssignmentsAfter(s, assignment[o])
<1>5. row \in DeliveryRow /\ row.status = StatusAfter(s)
  BY <1>2, <1>3 DEF DeliveryRow
<1>6. delivery'[o] = row /\ assignment'[o] = rows
  BY <1>1, <1>4 DEF Inv, TypeOK
<1>7. \A p \in Order \ {o} : delivery'[p] = delivery[p] /\ assignment'[p] = assignment[p]
  BY <1>1, <1>4 DEF Inv, TypeOK
<1>8. Created' = Created
  <2>1. row # None /\ delivery[o] # None
    BY <1>2, <1>5, DeliveryAssumption
  <2> HIDE DEF row
  <2>. QED  BY <2>1, <1>6, <1>7 DEF Created
<1>. QED  BY <1>1, <1>2, <1>3, <1>4, <1>5, <1>6, <1>7, <1>8

LEMMA CommitRows ==
  ASSUME Inv, NEW s \in Session, Commit(s)
  PROVE  LET rows == assignment[tx[s].order]
             after == AssignmentsAfter(s, rows)
         IN
         /\ after \in Seq(AssignmentRow) /\ Len(after) <= MaxAssignments
         /\ DOMAIN rows \subseteq DOMAIN after
         /\ tx[s].kind = "assign" =>
              /\ DOMAIN after = DOMAIN rows \cup {Len(rows) + 1}
              /\ \A k \in DOMAIN rows : after[k] = rows[k]
              /\ after[Len(rows) + 1].status = "ASSIGNED"
         /\ tx[s].kind # "assign" /\ tx[s].at = 0 => after = rows
         /\ tx[s].kind # "assign" /\ tx[s].at # 0 =>
              /\ tx[s].at \in DOMAIN rows /\ DOMAIN after = DOMAIN rows
              /\ after[tx[s].at].status = AssignmentStatusAfter(s)
              /\ \A k \in DOMAIN rows \ {tx[s].at} : after[k] = rows[k]
<1> DEFINE rows == assignment[tx[s].order]
           after == AssignmentsAfter(s, rows)
<1>1. tx[s].kind # "none" /\ tx[s].order \in Order /\ tx[s] \in Tx /\ Known(s)
  BY CommitWrites
<1>2. rows \in Seq(AssignmentRow) /\ Len(rows) <= MaxAssignments
  BY <1>1 DEF Inv, TypeOK, Numbered
<1>3. CASE tx[s].kind = "assign"
  <2> DEFINE row == [courier |-> tx[s].courier, status |-> "ASSIGNED"]
  <2>1. row \in AssignmentRow /\ row.status = "ASSIGNED"
    BY <1>1, <1>3 DEF Known, AssignmentRow
  <2> HIDE DEF row
  <2>2. after = Append(rows, row) /\ Len(rows) < MaxAssignments
    BY <1>1, <1>3 DEF AssignmentsAfter, Known, row
  <2> HIDE DEF after, rows
  <2>3. /\ after \in Seq(AssignmentRow) /\ Len(after) <= MaxAssignments
        /\ DOMAIN after = DOMAIN rows \cup {Len(rows) + 1}
        /\ \A k \in DOMAIN rows : after[k] = rows[k]
        /\ after[Len(rows) + 1] = row
    BY <1>2, <2>1, <2>2, DeliveryAssumption
  <2>. QED  BY <1>3, <2>1, <2>3 DEF after, rows
<1>4. CASE tx[s].kind # "assign" /\ tx[s].at = 0
  BY <1>2, <1>4 DEF AssignmentsAfter
<1>5. CASE tx[s].kind # "assign" /\ tx[s].at # 0
  <2>1. tx[s].at \in DOMAIN rows
    BY <1>1, <1>5 DEF Known, Tx
  <2>2. AssignmentStatusAfter(s) \in {"ASSIGNED", "ACCEPTED", "REJECTED", "COMPLETED", "CANCELED"}
    BY <1>1, <1>5 DEF AssignmentStatusAfter, Tx
  <2> DEFINE at == tx[s].at
             row == [rows[at] EXCEPT !.status = AssignmentStatusAfter(s)]
  <2>3. rows[at] \in AssignmentRow
    BY <1>2, <2>1
  <2>4. row \in AssignmentRow /\ row.status = AssignmentStatusAfter(s)
    BY <2>2, <2>3 DEF AssignmentRow
  <2>5. after = [rows EXCEPT ![at] = row]
    BY <1>5 DEF AssignmentsAfter
  <2> HIDE DEF after, rows, row
  <2>6. /\ after \in Seq(AssignmentRow) /\ Len(after) = Len(rows) /\ DOMAIN after = DOMAIN rows
        /\ after[at] = row /\ \A k \in DOMAIN rows \ {at} : after[k] = rows[k]
    BY <1>2, <2>1, <2>4, <2>5
  <2>. QED  BY <1>2, <1>5, <2>1, <2>4, <2>6 DEF after, rows
<1>. QED  BY <1>3, <1>4, <1>5

\* The rows that Commit leaves agree with the status it writes.
LEMMA CommitAgrees ==
  ASSUME Inv, NEW s \in Session, Commit(s), tx[s].order \notin overwritten'
  PROVE  Agrees(AssignmentsAfter(s, assignment[tx[s].order]), StatusAfter(s))
<1> DEFINE o == tx[s].order
           rows == assignment[o]
           after == AssignmentsAfter(s, rows)
           at == tx[s].at
           status == delivery[o].status
<1>1. /\ tx[s].kind # "none" /\ o \in Created /\ o \in Order /\ tx[s] \in Tx /\ Known(s)
      /\ delivery[o] \in DeliveryRow
  BY CommitWrites
<1>2. o \notin overwritten /\ ~Overwrites(s)
  BY <1>1 DEF Commit
<1>3. Agrees(rows, status) /\ status \in Status
  BY <1>1, <1>2 DEF Inv, DeliveryRow
<1>4. rows \in Seq(AssignmentRow) /\ Len(rows) \in Nat /\ DOMAIN rows = 1..Len(rows)
  BY <1>1 DEF Inv, TypeOK
<1>5. CASE tx[s].kind = "assign"
  <2>1. status = "NEW" /\ StatusAfter(s) = "ASSIGNED"
    BY <1>1, <1>5 DEF Known, StatusAfter
  <2>2. \A k \in DOMAIN rows : ~Active(rows[k]) /\ rows[k].status \notin {"COMPLETED", "CANCELED"}
    BY <1>3, <2>1 DEF Agrees
  <2>3. /\ DOMAIN after = DOMAIN rows \cup {Len(rows) + 1}
        /\ \A k \in DOMAIN rows : after[k] = rows[k]
        /\ after[Len(rows) + 1].status = "ASSIGNED"
    BY <1>5, CommitRows
  <2> HIDE DEF after, rows, status
  <2>4. Agrees(after, "ASSIGNED")
    BY <2>2, <2>3 DEF Agrees, Active, Terminal
  <2>. QED  BY <2>1, <2>4 DEF after, rows
<1>6. CASE tx[s].kind \in {"accept", "reject"}
  <2>1. at \in DOMAIN rows /\ at # 0
    BY <1>1, <1>4, <1>6 DEF Known
  <2>2. rows[at].status = "ASSIGNED"
    BY <1>2, <1>6 DEF Overwrites
  <2>3. /\ DOMAIN after = DOMAIN rows /\ after[at].status = AssignmentStatusAfter(s)
        /\ \A k \in DOMAIN rows \ {at} : after[k] = rows[k]
    BY <1>6, <2>1, CommitRows
  <2>4. \/ StatusAfter(s) = status /\ AssignmentStatusAfter(s) = "ACCEPTED"
        \/ StatusAfter(s) = "NEW" /\ AssignmentStatusAfter(s) = "REJECTED"
    BY <1>6 DEF StatusAfter, AssignmentStatusAfter
  <2> HIDE DEF after, rows, status, at
  <2>5. Agrees(after, StatusAfter(s))
    <3>1. status \notin {"NEW"} \cup Terminal
      BY <1>3, <2>1, <2>2 DEF Agrees, Active
    <3>2. \A k \in DOMAIN rows \ {at} : ~Active(rows[k])
      BY <1>3, <2>1, <2>2 DEF Agrees, Active
    <3>3. \A k \in DOMAIN rows \ {at} : rows[k].status \notin {"COMPLETED", "CANCELED"}
      BY <1>3, <3>1 DEF Agrees, Terminal
    <3>. QED  BY <2>1, <2>3, <2>4, <3>1, <3>2, <3>3 DEF Agrees, Active, Terminal
  <2>. QED  BY <2>5 DEF after, rows
<1>7. CASE tx[s].kind = "status"
  <2>1. tx[s].to \in deliveryTransitions[status] /\ StatusAfter(s) = tx[s].to
    BY <1>1, <1>7 DEF Known, StatusAfter
  <2>2. status \notin Terminal
    BY <1>3, <2>1, TransitionsAre
  <2>3. \A k \in DOMAIN rows : rows[k].status \notin {"COMPLETED", "CANCELED"}
    BY <1>3, <2>2 DEF Agrees, Terminal
  <2>4. tx[s].to # "NEW"
    BY <1>3, <2>1 DEF deliveryTransitions, Status
  <2>5. CASE at # 0
    <3>1. EndsAssignment(tx[s].to) /\ at \in DOMAIN rows /\ Active(rows[at])
      BY <1>1, <1>7, <2>5 DEF Known
    <3>2. /\ DOMAIN after = DOMAIN rows /\ after[at].status = AssignmentStatusAfter(s)
          /\ \A k \in DOMAIN rows \ {at} : after[k] = rows[k]
      BY <1>7, <2>5, CommitRows
    <3>3. AssignmentStatusAfter(s) = IF tx[s].to = "DELIVERED" THEN "COMPLETED" ELSE "CANCELED"
      BY <1>7 DEF AssignmentStatusAfter
    <3>4. \A k \in DOMAIN rows \ {at} : ~Active(rows[k])
      BY <1>3, <3>1 DEF Agrees
    <3> DEFINE to == tx[s].to
    <3> HIDE DEF after, rows, status, at, to
    <3>5. to \in Terminal
      BY <3>1 DEF EndsAssignment, to
    <3>6. Agrees(after, to)
      BY <2>3, <3>1, <3>2, <3>3, <3>4, <3>5 DEF Agrees, Active, Terminal, to
    <3>. QED  BY <2>1, <3>6 DEF after, rows, to
  <2>6. CASE at = 0
    <3>1. after = rows
      BY <1>7, <2>6, CommitRows
    <3>2. EndsAssignment(tx[s].to) => \A k \in DOMAIN rows : ~Active(rows[k])
      <4>1. ASSUME EndsAssignment(tx[s].to) PROVE Writes(s) = 0
        <5>1. ~tx[s].locked
          BY <1>1, <1>4, <1>7, <2>6 DEF Known
        <5>. QED  BY <1>1, <5>1 DEF Commit, NeedsAssignment, Idle
      <4>. QED  BY <1>1, <1>4, <1>7, <4>1, ActiveAssignmentIs DEF Writes, Inv
    <3>. QED  BY <1>3, <2>1, <2>3, <2>4, <3>1, <3>2 DEF Agrees, EndsAssignment
  <2>. QED  BY <2>5, <2>6
<1>. QED  BY <1>1, <1>5, <1>6, <1>7 DEF Tx

LEMMA CommitInv ==
  ASSUME Inv, NEW s \in Session, Commit(s)
  PROVE  Inv'
<1> DEFINE o == tx[s].order
           after == AssignmentsAfter(s, assignment[o])
<1>1. /\ tx[s].kind # "none" /\ o \in Created /\ o \in Order
      /\ (orderOwner[o] = NoSession \/ orderOwner[o] = s)
      /\ delivery' = [delivery EXCEPT ![o].status = StatusAfter(s)]
      /\ delivery'[o].status = StatusAfter(s) /\ delivery'[o] \in DeliveryRow
      /\ assignment' = [assignment EXCEPT ![o] = after] /\ assignment'[o] = after
      /\ \A p \in Order \ {o} : delivery'[p] = delivery[p] /\ assignment'[p] = assignment[p]
      /\ Created' = Created
  BY CommitWrites
<1>2. /\ after \in Seq(AssignmentRow) /\ Len(after) <= MaxAssignments
      /\ DOMAIN assignment[o] \subseteq DOMAIN after
  BY CommitRows
<1>3. OwnersKept(s) /\ tx' = [tx EXCEPT ![s] = NoTx] /\ overwritten \subseteq overwritten'
      /\ overwritten' \subseteq overwritten \cup {o}
  BY FinishKeeps DEF Commit, Inv
<1> HIDE DEF after
<1>4. tx'[s] = NoTx /\ \A t \in Session \ {s} : tx'[t] = tx[t]
  BY <1>3 DEF Inv, TypeOK
<1>5. TypeOK'
  <2>1. \A p \in Order : delivery'[p] \in DeliveryRow \cup {None}
    BY <1>1 DEF Inv, TypeOK
  <2>2. delivery' \in [Order -> DeliveryRow \cup {None}]
    BY <1>1, <2>1 DEF Inv, TypeOK
  <2>3. assignment' \in [Order -> Seq(AssignmentRow)]
    BY <1>1, <1>2 DEF Inv, TypeOK
  <2>4. tx' \in [Session -> Tx] /\ overwritten' \subseteq Order
    BY <1>1, <1>3, NoTxTyped DEF Inv, TypeOK
  <2>. QED  BY <1>3, <2>2, <2>3, <2>4 DEF TypeOK, OwnersKept
<1>6. ASSUME NEW t \in Session PROVE Known(t)'
  <2>1. CASE t = s
    BY <1>4, <2>1, NoTxTyped DEF Known
  <2>2. CASE t # s
    <3>1. \A p \in Created : orderOwner[p] = t => p # o /\ p \in Order
      BY <1>1, <2>2, DeliveryAssumption DEF Created
    <3>2. \A p \in Created : orderOwner[p] = t => UNCHANGED <<delivery[p], assignment[p], orderOwner[p]>>
      BY <1>1, <1>3, <2>2, <3>1 DEF OwnersKept
    <3>3. \A p \in Order : DOMAIN assignment[p] \subseteq DOMAIN assignment'[p]
      BY <1>1, <1>2
    <3>. QED  BY <1>1, <1>4, <2>2, <3>2, <3>3, OtherKnown DEF Inv
  <2>. QED  BY <2>1, <2>2
<1>7. Numbered'
  BY <1>1, <1>2 DEF Inv, Numbered
<1>8. ASSUME NEW p \in Created' \ overwritten' PROVE Agrees(assignment'[p], delivery'[p].status)
  <2>1. CASE p = o
    BY <1>1, <1>8, <2>1, CommitAgrees DEF after
  <2>2. CASE p # o
    BY <1>1, <1>3, <2>2 DEF Inv, Created
  <2>. QED  BY <2>1, <2>2
<1>9. (\A p \in Created \ overwritten : Agrees(assignment[p], delivery[p].status))'
  BY <1>8 DEF Agrees, Active
<1>. QED  BY <1>5, <1>6, <1>7, <1>9 DEF Inv

-----------------------------------------------------------------------------
LEMMA InitInv ==
  ASSUME Init
  PROVE  Inv
<1>1. TypeOK
  BY NoTxTyped DEF Init, TypeOK
<1>2. Created = {} /\ \A s \in Session : tx[s].kind = "none"
  BY NoTxTyped DEF Init, Created
<1>3. Numbered
  BY DeliveryAssumption DEF Init, Numbered
<1>. QED  BY <1>1, <1>2, <1>3 DEF Inv, Known

LEMMA NextInv ==
  ASSUME Inv, [Next]_vars
  PROVE  Inv'
<1>1. CASE \E o \in Order, zone \in Zone \cup {None} : Create(o, zone)
  BY <1>1, CreateInv
<1>2. ASSUME NEW s \in Session, NEW o \in Order, NEW c \in Courier, Assign(s, o, c) PROVE Inv'
  BY <1>2, AssignInv
<1>3. ASSUME NEW s \in Session, NEW o \in Order, NEW to \in Status, SetStatus(s, o, to) PROVE Inv'
  BY <1>3, SetStatusInv
<1>4. ASSUME NEW s \in Session, NEW o \in Order, NEW answer \in {"accept", "reject"}, Accept(s, o, answer)
      PROVE  Inv'
  BY <1>4, AcceptInv
<1>5. ASSUME NEW s \in Session, Step(s) \/ Fail(s) PROVE Inv'
  BY <1>5, LockAssignmentInv, CommitInv, FinishInv DEF Step, DetectDeadlock, Fail
<1>6. CASE UNCHANGED vars
  <2>1. UNCHANGED <<delivery, assignment, overwritten, orderOwner, assignmentOwner, tx>>
    BY <1>6 DEF vars, tables
  <2>2. TypeOK'
    BY <2>1 DEF Inv, TypeOK
  <2>3. Created' = Created
    BY <2>1 DEF Created
  <2>4. ASSUME NEW t \in Session PROVE Known(t)'
    BY <2>1, <2>3, OtherKnown DEF Inv
  <2>5. Numbered'
    BY <2>1, <2>3 DEF Inv, Numbered
  <2>6. (\A o \in Created \ overwritten : Agrees(assignment[o], delivery[o].status))'
    BY <2>1, <2>3 DEF Inv, Agrees, Active
  <2>. QED  BY <2>2, <2>4, <2>5, <2>6 DEF Inv
<1>. QED  BY <1>1, <1>2, <1>3, <1>4, <1>5, <1>6 DEF Next

LEMMA InvHolds == Spec => []Inv
<1>1. Init => Inv
  BY InitInv
<1>2. Inv /\ [Next]_vars => Inv'
  BY NextInv
<1>. QED  BY <1>1, <1>2, PTL DEF Spec

\* Unless an answer of a courier was written over an assignment that another
\* request had answered or ended, at most one courier has the delivery, nobody
\* before it is assigned and after it has ended, and an assignment ends the way
\* the delivery does (service/delivery.go).
THEOREM AssignmentsAgreeHolds == Spec => []AssignmentsAgree
<1>1. Inv => AssignmentsAgree
  BY DEF Inv, Agrees, AssignmentsAgree
<1>. QED  BY <1>1, InvHolds, PTL

\* What a commit does to the status.
LEMMA CommitMovesOn ==
  ASSUME Inv, NEW s \in Session, Commit(s), NEW o \in Created
  PROVE  \/ delivery'[o].status \in {delivery[o].status} \cup deliveryTransitions[delivery[o].status]
         \/ tx[s].kind = "reject" /\ tx[s].order = o /\ delivery'[o].status = "NEW"
<1>1. /\ tx[s].kind # "none" /\ tx[s] \in Tx /\ Known(s) /\ tx[s].order \in Order
      /\ delivery'[tx[s].order].status = StatusAfter(s)
      /\ \A p \in Order \ {tx[s].order} : delivery'[p] = delivery[p]
  BY CommitWrites
<1>2. CASE o # tx[s].order
  BY <1>1, <1>2 DEF Created
<1>3. CASE o = tx[s].order
  <2>1. CASE tx[s].kind = "assign"
    BY <1>1, <1>3, <2>1 DEF Known, StatusAfter, deliveryTransitions, Status
  <2>2. CASE tx[s].kind = "status"
    BY <1>1, <1>3, <2>2 DEF Known, StatusAfter
  <2>3. CASE tx[s].kind \in {"accept", "reject"}
    BY <1>1, <1>3, <2>3 DEF StatusAfter
  <2>. QED  BY <1>1, <2>1, <2>2, <2>3 DEF Tx
<1>. QED  BY <1>2, <1>3

\* A delivery moves along the map of transitions, or back to NEW when a courier
\* refuses it, however its requests overlap (service/delivery.go).
THEOREM DeliveriesMoveOn == Spec => StatusMovesOn
<1> DEFINE Moves(o) ==
             \/ delivery'[o].status \in {delivery[o].status} \cup deliveryTransitions[delivery[o].status]
             \/ \E s \in Session : tx[s].kind = "reject" /\ tx[s].order = o /\ delivery'[o].status = "NEW"
<1>1. Inv /\ [Next]_vars => [\A o \in Created : Moves(o)]_vars
  <2> SUFFICES ASSUME Inv, Next, NEW o \in Created PROVE Moves(o)
    OBVIOUS
  <2>1. CASE \E p \in Order, zone \in Zone \cup {None} : Create(p, zone)
    <3>1. PICK p \in Order, zone \in Zone \cup {None} : Create(p, zone)
      BY <2>1
    <3>2. p # o /\ delivery'[o] = delivery[o]
      BY <3>1 DEF Create, Created, Inv, TypeOK
    <3>. QED  BY <3>2
  <2>2. CASE \E s \in Session : Commit(s)
    BY <2>2, CommitMovesOn
  <2>3. CASE UNCHANGED delivery
    BY <2>3
  <2>. QED  BY <2>1, <2>2, <2>3
            DEF Next, Assign, SetStatus, Accept, LockOrder, Step, Fail, LockAssignment, DetectDeadlock, Rollback, tables
<1>. QED  BY <1>1, InvHolds, PTL DEF Spec, StatusMovesOn

=============================================================================
