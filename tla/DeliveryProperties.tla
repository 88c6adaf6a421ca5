------------------------- MODULE DeliveryProperties -------------------------
(***************************************************************************)
(* What a delivery and its assignments keep between them.                  *)
(***************************************************************************)
EXTENDS Delivery

\* Every variable keeps its shape (service/delivery.go and its tables).
TypeOK ==
  /\ delivery \in [Order -> DeliveryRow \cup {None}]
  /\ assignment \in [Order -> Seq(AssignmentRow)]
  /\ overwritten \subseteq Order
  /\ orderOwner \in [Order -> Session \cup {NoSession}]
  /\ assignmentOwner \in [AssignmentId -> Session \cup {NoSession}]
  /\ tx \in [Session -> Tx]

\* A delivery moves along the map of transitions, or back to NEW when a courier
\* refuses it: no two requests leave one status for two others.
StatusMovesOn ==
  [][\A o \in Created :
       \/ delivery'[o].status \in {delivery[o].status} \cup deliveryTransitions[delivery[o].status]
       \/ \E s \in Session : tx[s].kind = "reject" /\ tx[s].order = o
                              /\ delivery'[o].status = "NEW"]_vars

Active(a) == a.status \in {"ASSIGNED", "ACCEPTED"}

\* Unless the answer of a courier was written over an assignment that another
\* request had answered or ended in the meantime, at most one courier has the
\* delivery, none has it before it is assigned or after it has ended, and an
\* assignment ended with the delivery ended the way the delivery did.
AssignmentsAgree ==
  TypeOK /\ \A o \in Created \ overwritten :
    LET rows == assignment[o]
        status == delivery[o].status
    IN
    /\ \A j, k \in DOMAIN rows : Active(rows[j]) /\ Active(rows[k]) => j = k
    /\ status \in {"NEW"} \cup Terminal => \A k \in DOMAIN rows : ~Active(rows[k])
    /\ \A k \in DOMAIN rows :
         /\ rows[k].status = "COMPLETED" => status = "DELIVERED"
         /\ rows[k].status = "CANCELED" => status \in {"CANCELED", "RETURNED"}

\* A request that has started ends, also when the answer of a courier and a
\* change of status lock the assignment and the delivery in opposite orders.
RequestsFinish == \A s \in Session : ~Idle(s) ~> Idle(s)

-----------------------------------------------------------------------------
(* What the repository says and the code does not do. *)

\* DELIVERED, CANCELED and RETURNED are terminal: is_terminal of
\* delivery_order_status.  A delivery that has ended is not delivered again.
TerminalStays ==
  [][\A o \in Created : delivery[o].status \in Terminal => delivery'[o] = delivery[o]]_vars

=============================================================================
