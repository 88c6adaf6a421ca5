------------------------------ MODULE Delivery ------------------------------
(***************************************************************************)
(* Deliveries and their assignments to couriers.                           *)
(*                                                                         *)
(* Assign and SetStatus lock the delivery FOR UPDATE before they read it.  *)
(* Accept, the answer of the courier, reads the active assignment without  *)
(* a lock and meets the row locks only where it writes, first the          *)
(* assignment and then the delivery.  Zones and couriers are inserted and  *)
(* never changed: they are constants.  Prices, addresses, tracking         *)
(* numbers, notifications and the log of the statuses, which only the user *)
(* reads, are left out.                                                    *)
(***************************************************************************)
EXTENDS Integers, Sequences, FiniteSets, SequencesExt, RowLocks

CONSTANTS Session, Order, Courier, Zone,
          ZonesOf,         \* assigned_zone_ids of each courier
          MaxAssignments,  \* bound: assignments of one delivery
          None

Status == {"NEW", "ASSIGNED", "PICKED_UP", "IN_TRANSIT", "ARRIVED",
           "DELIVERED", "CANCELED", "RETURNED"}
Terminal == {"DELIVERED", "CANCELED", "RETURNED"}

DeliveryRow == [status : Status, zone : Zone \cup {None}]

ASSUME DeliveryAssumption ==
  /\ NoSession \notin Session /\ None \notin Zone \cup Order /\ None \notin DeliveryRow
  /\ ZonesOf \in [Courier -> SUBSET Zone]
  /\ MaxAssignments \in Nat \ {0}

VARIABLES
  delivery,    \* delivery_order
  assignment,  \* delivery_order_assignment, per delivery in the order of id
  overwritten, \* deliveries with an answer written over an assignment already answered or ended
  orderOwner, assignmentOwner,
  tx

tables == <<delivery, assignment, overwritten>>
vars == <<tables, orderOwner, assignmentOwner, tx>>

AssignmentRow == [courier : Courier,
                  status : {"ASSIGNED", "ACCEPTED", "REJECTED", "COMPLETED", "CANCELED"}]
AssignmentId == Order \X (1..MaxAssignments)

Tx == [kind : {"none", "assign", "accept", "reject", "status"},
       order : Order \cup {None}, courier : Courier \cup {None},
       to : Status,
       at : 0..MaxAssignments,   \* the assignment it writes, 0 for none
       locked : BOOLEAN]         \* the row of that assignment is locked

NoTx == [kind |-> "none", order |-> None, courier |-> None, to |-> "NEW",
         at |-> 0, locked |-> FALSE]

Init ==
  /\ delivery = [o \in Order |-> None]
  /\ assignment = [o \in Order |-> <<>>]
  /\ overwritten = {}
  /\ orderOwner = [o \in Order |-> NoSession]
  /\ assignmentOwner = [a \in AssignmentId |-> NoSession]
  /\ tx = [s \in Session |-> NoTx]

-----------------------------------------------------------------------------
Created == {o \in Order : delivery[o] # None}

deliveryTransitions ==
  [status \in Status |->
     CASE status = "NEW" -> {"ASSIGNED", "CANCELED"}
       [] status = "ASSIGNED" -> {"PICKED_UP", "CANCELED"}
       [] status = "PICKED_UP" -> {"IN_TRANSIT", "CANCELED"}
       [] status = "IN_TRANSIT" -> {"ARRIVED", "DELIVERED", "RETURNED"}
       [] status = "ARRIVED" -> {"DELIVERED", "RETURNED"}
       [] OTHER -> {}]

\* The last assignment that is ASSIGNED or ACCEPTED, 0 when there is none.
ActiveAssignment(o) ==
  SelectLastInSeq(assignment[o], LAMBDA a : a.status \in {"ASSIGNED", "ACCEPTED"})

\* A courier without zones goes everywhere, a delivery without a zone to anyone.
ServesZone(c, zone) == zone = None \/ ZonesOf[c] = {} \/ zone \in ZonesOf[c]

\* Mutant of EndsAssignment: a returned delivery keeps its courier.
EndsUnlessReturned(status) == status \in {"DELIVERED", "CANCELED"}

\* The statuses with which SetStatus ends the active assignment.
EndsAssignment(status) == status \in Terminal

-----------------------------------------------------------------------------
Idle(s) == tx[s].kind = "none"

Create(o, zone) ==
  /\ delivery[o] = None
  /\ delivery' = [delivery EXCEPT ![o] = [status |-> "NEW", zone |-> zone]]
  /\ UNCHANGED <<assignment, overwritten, orderOwner, assignmentOwner, tx>>

\* SELECT ... FOR UPDATE of the delivery, then the request goes on as given.
LockOrder(s, o, request) ==
  /\ Idle(s) /\ o \in Created /\ Grantable(orderOwner, o, s)
  /\ orderOwner' = Acquire(orderOwner, o, s)
  /\ tx' = [tx EXCEPT ![s] = request]
  /\ UNCHANGED <<tables, assignmentOwner>>

Assign(s, o, c) ==
  /\ o \in Created /\ delivery[o].status = "NEW" /\ ServesZone(c, delivery[o].zone)
  /\ Len(assignment[o]) < MaxAssignments
  /\ LockOrder(s, o, [NoTx EXCEPT !.kind = "assign", !.order = o, !.courier = c])

SetStatus(s, o, to) ==
  /\ o \in Created /\ to \in deliveryTransitions[delivery[o].status]
  /\ LockOrder(s, o, [NoTx EXCEPT !.kind = "status", !.order = o, !.to = to])

\* "assignment not pending" is refused.
Pending(o) == ActiveAssignment(o) # 0 /\ assignment[o][ActiveAssignment(o)].status = "ASSIGNED"

Accept(s, o, answer) ==
  /\ Idle(s) /\ Pending(o)
  /\ tx' = [tx EXCEPT ![s] = [NoTx EXCEPT !.kind = answer, !.order = o,
                                          !.at = ActiveAssignment(o)]]
  /\ UNCHANGED <<tables, orderOwner, assignmentOwner>>

-----------------------------------------------------------------------------
\* The assignment that s is about to write: the one it has read, or the one
\* SetStatus finds active by then.
Writes(s) ==
  LET o == tx[s].order IN
  IF tx[s].kind = "status" /\ EndsAssignment(tx[s].to) THEN ActiveAssignment(o) ELSE tx[s].at

NeedsAssignment(s) == ~Idle(s) /\ Writes(s) # 0 /\ ~tx[s].locked

\* SetAssignment: UPDATE ... WHERE id, whatever the row says by now.
LockAssignment(s) ==
  LET row == <<tx[s].order, Writes(s)>> IN
  /\ NeedsAssignment(s) /\ Grantable(assignmentOwner, row, s)
  /\ assignmentOwner' = Acquire(assignmentOwner, row, s)
  /\ tx' = [tx EXCEPT ![s].at = Writes(s), ![s].locked = TRUE]
  /\ UNCHANGED <<tables, orderOwner>>

\* Mutant of Finish: the transaction is not ended on the way out.
FinishKeepingLocks(s) == tx' = [tx EXCEPT ![s] = NoTx] /\ UNCHANGED <<orderOwner, assignmentOwner>>

Finish(s) ==
  /\ tx' = [tx EXCEPT ![s] = NoTx]
  /\ orderOwner' = ReleaseAll(orderOwner, s)
  /\ assignmentOwner' = ReleaseAll(assignmentOwner, s)

StatusAfter(s) ==
  CASE tx[s].kind = "assign" -> "ASSIGNED"
    [] tx[s].kind = "status" -> tx[s].to
    [] tx[s].kind = "reject" -> "NEW"
    [] tx[s].kind = "accept" -> delivery[tx[s].order].status

AssignmentStatusAfter(s) ==
  CASE tx[s].kind = "accept" -> "ACCEPTED"
    [] tx[s].kind = "reject" -> "REJECTED"
    [] tx[s].kind = "status" -> IF tx[s].to = "DELIVERED" THEN "COMPLETED" ELSE "CANCELED"

AssignmentsAfter(s, rows) ==
  IF tx[s].kind = "assign" THEN Append(rows, [courier |-> tx[s].courier, status |-> "ASSIGNED"])
  ELSE IF tx[s].at = 0 THEN rows
  ELSE [rows EXCEPT ![tx[s].at].status = AssignmentStatusAfter(s)]

Overwrites(s) ==
  /\ tx[s].kind \in {"accept", "reject"}
  /\ assignment[tx[s].order][tx[s].at].status # "ASSIGNED"

\* The update of the delivery, or of an acceptance the new row of its log, which
\* refers to it, waits for the lock of the delivery.
Commit(s) ==
  LET o == tx[s].order IN
  /\ ~Idle(s) /\ ~NeedsAssignment(s) /\ Grantable(orderOwner, o, s)
  /\ delivery' = [delivery EXCEPT ![o].status = StatusAfter(s)]
  /\ assignment' = [assignment EXCEPT ![o] = AssignmentsAfter(s, @)]
  /\ overwritten' = IF Overwrites(s) THEN overwritten \cup {o} ELSE overwritten
  /\ Finish(s)

Rollback(s) == Finish(s) /\ UNCHANGED tables

\* An error, a lost connection, a crash of the server.
Fail(s) == ~Idle(s) /\ Rollback(s)

\* The session that s waits for: one has the delivery and wants the assignment,
\* the other the other way round.
WaitsFor(s) ==
  CASE NeedsAssignment(s) -> assignmentOwner[<<tx[s].order, Writes(s)>>]
    [] ~Idle(s) /\ ~NeedsAssignment(s) -> orderOwner[tx[s].order]
    [] OTHER -> NoSession

DetectDeadlock(s) ==
  /\ \E other \in Session \ {s} : WaitsFor(s) = other /\ WaitsFor(other) = s
  /\ Rollback(s)

Step(s) == LockAssignment(s) \/ Commit(s) \/ DetectDeadlock(s)

Next ==
  \/ \E o \in Order, zone \in Zone \cup {None} : Create(o, zone)
  \/ \E s \in Session, o \in Order :
       \/ \E c \in Courier : Assign(s, o, c)
       \/ \E to \in Status : SetStatus(s, o, to)
       \/ \E answer \in {"accept", "reject"} : Accept(s, o, answer)
  \/ \E s \in Session : Step(s) \/ Fail(s)

Spec == Init /\ [][Next]_vars

\* Handlers run to their end; locks are granted in the order of the requests.
FairSpec == Spec /\ \A s \in Session : SF_vars(Step(s))

=============================================================================
