----------------------- MODULE MarketOrdersProperties -----------------------
(***************************************************************************)
(* What the import of a marketplace's orders should keep.                  *)
(***************************************************************************)
EXTENDS MarketOrders

\* Every variable keeps its shape, and a sales order that is not committed
\* belongs to a transaction about to store the order of the marketplace.
TypeOK ==
  /\ posted \in SUBSET Order /\ linked \in SUBSET Offer
  /\ buyer \in Session \cup {"absent", "stored"}
  /\ inserting \in [Order -> Session \cup {None}]
  /\ orders \in [Order -> Nat] /\ mpOrder \in [Order -> MpOrder \cup {None}]
  /\ failed \in SUBSET Order /\ raced \in SUBSET Order /\ tx \in [Session -> Tx] /\ crashes \in 0..MaxCrashes
  /\ \A o \in Order : inserting[o] # None => At(inserting[o], "store") /\ current(inserting[o]) = o

\* An order of the marketplace becomes one sales order, whoever pulls it at the
\* same time and whatever fails: one if it is MATCHED, none otherwise (importOrder).
ImportedOnce ==
  \A o \in Order : orders[o] = IF Exists(o) /\ mpOrder[o].status = "MATCHED" THEN 1 ELSE 0

\* SKIPPED is final, so an order skipped as "create failed" is lost.  It takes a
\* failure of the database, or another pull that creates the marketplace's buyer
\* at that moment: pulls that meet on the order itself lose nothing
\* (importOrder, storeSkipped).
SkippedForCause ==
  \A o \in Order : Exists(o) /\ mpOrder[o] = [status |-> "SKIPPED", note |-> "create failed"]
                     => o \in failed \cup raced

\* What an import leaves behind is complete and has its cause.
ImportAccounted == TypeOK /\ ImportedOnce /\ SkippedForCause

=============================================================================
