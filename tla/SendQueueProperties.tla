------------------------ MODULE SendQueueProperties ------------------------
(***************************************************************************)
(* What the workers of the send queues keep, restarts included.            *)
(***************************************************************************)
EXTENDS SendQueue

\* Every variable keeps its shape (ofd_send_status, ofd/worker.go).
TypeOK ==
  /\ row \in [Job -> [status : Status, attempt : Nat]]
  /\ settings \in [Org -> [auto : BOOLEAN, failFirst : Nat]]
  /\ provider \in [Org -> BOOLEAN]
  /\ pc \in {"idle", "batch", "answered", "failed"}
  /\ batch \in Seq(Polled)
  /\ calls \in [Job -> Nat] /\ accepted \subseteq Job /\ lost \in [Job -> Nat]

\* Status and number of attempts agree: a job is given up at max_retries and not
\* before, and none is tried more often (the attempt written is one more than the
\* attempt polled, which may be stale by then).
AttemptsAgree ==
  TypeOK /\ \A j \in Job :
    /\ row[j].attempt <= MaxRetries
    /\ row[j].status \in {"ABSENT", "PENDING"} <=> row[j].attempt = 0
    /\ row[j].status = "RETRY" => row[j].attempt < MaxRetries
    /\ row[j].status = "FAILED" => row[j].attempt = MaxRetries

\* A job that is done or given up stays so: no outcome of an earlier batch is
\* written over it.
EndedForever ==
  [][\A j \in Job : row[j].status \in {"COMPLETED", "FAILED"} => row'[j] = row[j]]_vars

\* The provider is called once per attempt recorded, and once more only for an
\* outcome that a restart or a failed UPDATE has lost.
AtOutcome(j) == pc \in {"answered", "failed"} /\ job = j

CallsBounded ==
  \A j \in Job : calls[j] <= row[j].attempt + lost[j] + (IF AtOutcome(j) THEN 1 ELSE 0)

\* The queue implements AtLeastOnce: what is COMPLETED was accepted, and while
\* auto_send is on every job ends COMPLETED or FAILED.
StateOf(status) ==
  CASE status = "ABSENT" -> "absent"
    [] status \in {"PENDING", "RETRY"} -> "waiting"
    [] status = "COMPLETED" -> "done"
    [] status = "FAILED" -> "failed"

Abstract == INSTANCE AtLeastOnce WITH state <- [j \in Job |-> StateOf(row[j].status)]

ImplementsAtLeastOnce == Abstract!Spec

=============================================================================
