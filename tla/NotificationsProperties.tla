----------------------- MODULE NotificationsProperties -----------------------
(***************************************************************************)
(* What the queue of notifications should guarantee.                       *)
(***************************************************************************)
EXTENDS Notifications

\* The variables keep their types, and no row is tried more often than allowed.
TypeOK ==
  /\ queue \in [Job -> JobRow \cup {None}]
  /\ history \in [Job -> [rows : Nat, status : {None, "SENT", "DELIVERED", "VIEWED"}]]
  /\ preference \in [User -> SUBSET Channel]
  /\ settings \in [Org -> [enabled : BOOLEAN, failFirst : Nat]]
  /\ pc \in {"idle", "batch", "drain"}
  /\ batch \in Seq(Polled) /\ (pc = "drain" => batch # <<>>)
  /\ sends \in [Job -> Nat] /\ lost \in [Job -> Nat]
  /\ \A j \in Job : Queued(j) => /\ queue[j].attempt <= MaxAttempts
                                 /\ queue[j].status = "FAILED" <=> queue[j].attempt = MaxAttempts

\* A notification once queued is in the queue or in the history, never in both,
\* never twice, whatever fails or stops on the way (processBatch, DrainToHistory).
KeptOrMoved ==
  \A j \in Job : history[j].rows + (IF Queued(j) THEN 1 ELSE 0) = (IF j \in Ids THEN 1 ELSE 0)

\* The queue accounts for every message a provider took: it is in the history, is
\* being moved there, or its outcome was lost; a row given up may have been sent.
SendsAccounted ==
  \A j \in Job :
    LET moving == pc = "drain" /\ job = j
        moved == history[j].status = "SENT" IN
    /\ sends[j] <= lost[j] + (IF moving \/ moved THEN 1 ELSE 0)
    /\ moving \/ moved => sends[j] > 0

\* Queue, history and provider agree.
QueueAgrees == TypeOK /\ KeptOrMoved /\ SendsAccounted

\* Rows of organizations that have switched notifications off take places in every poll.
Blocked == {j \in DueJobs : ~settings[queue[j].org].enabled}
Ended(j) == ~Due(j)

\* Every notification is delivered or given up, if its organization leaves
\* notifications on and the rows of others that do not leave a place in the batch.
NotificationsEnd ==
  \A j \in Job :
    (<>[](Cardinality(Blocked) < Batch /\ (Queued(j) => settings[queue[j].org].enabled)))
      => (Due(j) ~> Ended(j))

=============================================================================
