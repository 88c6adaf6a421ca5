----------------------------- MODULE SendQueue -----------------------------
(***************************************************************************)
(* The queue of the fiscal data operator, ofd_send_status, and its worker. *)
(* The queue of GIS MT, gismt_queue, and its worker are the same code on   *)
(* another table: a job is a receipt or an operation on a marking code.    *)
(*                                                                         *)
(* The worker is one goroutine of the API process.  On every tick it polls *)
(* a batch of jobs with their settings and handles them one by one: the    *)
(* call of the provider and the UPDATE that records its outcome are two    *)
(* steps, and the process may stop between them.                           *)
(***************************************************************************)
EXTENDS Integers, Sequences, FiniteSets, SequencesExt, FiniteSetsExt

CONSTANTS Job,         \* ids of the rows, numbers
          Org, OrgOf,  \* organizations, and the one of each job
          MaxRetries,  \* max_retries
          Batch,       \* LIMIT of the poll
          FailFirst,   \* values of fail_first_attempts a user may set
          AutoSend,    \* values of auto_send_enabled a user may set
          MaxLost      \* bound: outcomes lost in a row of one job

ASSUME SendQueueAssumption ==
  /\ Job \subseteq Nat /\ OrgOf \in [Job -> Org]
  /\ MaxRetries \in Nat \ {0} /\ Batch \in Nat \ {0} /\ MaxLost \in Nat
  /\ FailFirst \subseteq Nat /\ AutoSend \subseteq BOOLEAN

VARIABLES
  row,        \* the table: status and send_attempt of each job
  settings,   \* per organization: auto_send_enabled, fail_first_attempts
  provider,   \* whether resolve finds an active provider, per organization
  pc,         \* the worker: between ticks, at a job, or with an outcome to record
  batch,      \* the jobs polled and not yet handled, as they were when polled
  calls,      \* calls of the provider per job
  accepted,   \* the jobs the provider has accepted
  lost        \* outcomes of calls that were never recorded, per job

queue == <<row, settings, provider>>
outside == <<calls, accepted, lost>>
vars == <<queue, pc, batch, outside>>

Status == {"ABSENT", "PENDING", "RETRY", "COMPLETED", "FAILED"}
Polled == [id : Job, attempt : Nat, failFirst : Nat, auto : BOOLEAN]

Init ==
  /\ row = [j \in Job |-> [status |-> "ABSENT", attempt |-> 0]]
  /\ settings \in [Org -> [auto : AutoSend, failFirst : FailFirst]]
  /\ provider \in [Org -> BOOLEAN]
  /\ pc = "idle" /\ batch = <<>>
  /\ calls = [j \in Job |-> 0] /\ accepted = {} /\ lost = [j \in Job |-> 0]

\* The transaction of a receipt commits; ids need not become visible in order.
Enqueue(j) ==
  /\ row[j].status = "ABSENT"
  /\ row' = [row EXCEPT ![j].status = "PENDING"]
  /\ UNCHANGED <<settings, provider, pc, batch, outside>>

\* The settings of an organization and its providers are changed at any time.
PatchSettings(o, auto, failFirst) ==
  /\ settings' = [settings EXCEPT ![o] = [auto |-> auto, failFirst |-> failFirst]]
  /\ UNCHANGED <<row, provider, pc, batch, outside>>

SwitchProvider(o) ==
  /\ provider' = [provider EXCEPT ![o] = ~@]
  /\ UNCHANGED <<row, settings, pc, batch, outside>>

-----------------------------------------------------------------------------
\* Mutant of Due: jobs given up are polled again.
DueOrFailed(j) == row[j].status \in {"PENDING", "RETRY", "FAILED"}

Due(j) == row[j].status \in {"PENDING", "RETRY"}

\* ORDER BY id LIMIT Batch.
DueFirst == {j \in Job : Due(j) /\ Cardinality({k \in Job : Due(k) /\ k < j}) < Batch}

Snapshot(j) == [id |-> j, attempt |-> row[j].attempt,
                failFirst |-> settings[OrgOf[j]].failFirst, auto |-> settings[OrgOf[j]].auto]

Poll ==
  /\ pc = "idle"
  /\ batch' = [k \in 1..Cardinality(DueFirst) |->
                 Snapshot(CHOOSE j \in DueFirst : Cardinality({i \in DueFirst : i < j}) = k - 1)]
  /\ pc' = "batch"
  /\ UNCHANGED <<queue, outside>>

EndOfBatch == pc = "batch" /\ batch = <<>> /\ pc' = "idle" /\ UNCHANGED <<queue, batch, outside>>

AtJob == pc = "batch" /\ batch # <<>>

attempt == Head(batch).attempt + 1
job == Head(batch).id

NextJob == batch' = Tail(batch) /\ pc' = "batch"

Skip ==
  /\ AtJob /\ ~Head(batch).auto
  /\ NextJob /\ UNCHANGED <<queue, outside>>

\* Mutant of StatusAfterFailure: one attempt too many.
StatusAfterFailureLate(n) == IF n > MaxRetries THEN "FAILED" ELSE "RETRY"

StatusAfterFailure(n) == IF n >= MaxRetries THEN "FAILED" ELSE "RETRY"

\* Mutant of MarkAttempt: the attempt polled is written back.
MarkAttemptPolled ==
  row' = [row EXCEPT ![job] = [status |-> StatusAfterFailure(attempt), attempt |-> Head(batch).attempt]]

\* FailMark and MarkAttempt.
MarkAttempt == row' = [row EXCEPT ![job] = [status |-> StatusAfterFailure(attempt), attempt |-> attempt]]

\* fail_first_attempts: the first attempts are not sent.
TestHook == attempt <= Head(batch).failFirst

\* resolve: the provider that is configured, or the emulator unless it is disabled.
Resolved == provider[OrgOf[job]]

\* The test hook, a receipt that cannot be read, or no provider: nothing leaves
\* the process.  The payload of GIS MT comes with the poll and is always there.
NothingToCall(payload) == TestHook \/ ~payload \/ ~Resolved

RecordNoCall(payload) ==
  /\ AtJob /\ Head(batch).auto /\ NothingToCall(payload)
  /\ MarkAttempt /\ NextJob
  /\ UNCHANGED <<settings, provider, outside>>

\* Only a reply of 2xx that has no error and names the document is an answer, and
\* it comes from a provider that has accepted; every other outcome, a timeout, a
\* broken connection or a reply not understood, says nothing about that.
SendOp(answered, accepts) == answered => accepts

\* The provider accepts and the answer arrives, or accepts and the answer is lost
\* or late, or refuses, or is not reached.
Call(answered, accepts) ==
  /\ AtJob /\ Head(batch).auto /\ ~NothingToCall(TRUE)
  /\ SendOp(answered, accepts)
  /\ pc' = IF answered THEN "answered" ELSE "failed"
  /\ calls' = [calls EXCEPT ![job] = @ + 1]
  /\ accepted' = IF accepts THEN accepted \cup {job} ELSE accepted
  /\ UNCHANGED <<queue, batch, lost>>

\* Mutant of RecordSuccess: the error of the call is not looked at.
RecordSuccessAlways ==
  /\ pc \in {"answered", "failed"}
  /\ row' = [row EXCEPT ![job] = [status |-> "COMPLETED", attempt |-> attempt]]
  /\ NextJob
  /\ UNCHANGED <<settings, provider, outside>>

RecordSuccess ==
  /\ pc = "answered"
  /\ row' = [row EXCEPT ![job] = [status |-> "COMPLETED", attempt |-> attempt]]
  /\ NextJob
  /\ UNCHANGED <<settings, provider, outside>>

RecordFailure ==
  /\ pc = "failed"
  /\ MarkAttempt /\ NextJob
  /\ UNCHANGED <<settings, provider, outside>>

\* The UPDATE fails: the worker logs or ignores it and goes on.
RecordLost ==
  /\ pc \in {"answered", "failed"} /\ lost[job] < MaxLost
  /\ lost' = [lost EXCEPT ![job] = @ + 1]
  /\ NextJob
  /\ UNCHANGED <<queue, calls, accepted>>

\* The process stops and starts again: the batch is forgotten, and with it the
\* outcome of a call not yet recorded.
Restart ==
  /\ pc # "idle" /\ pc' = "idle" /\ batch' = <<>>
  /\ IF pc \in {"answered", "failed"}
       THEN lost[job] < MaxLost /\ lost' = [lost EXCEPT ![job] = @ + 1]
       ELSE UNCHANGED lost
  /\ UNCHANGED <<queue, calls, accepted>>

\* One turn of the loop over the batch.
HandleJob ==
  \/ Skip
  \/ \E payload \in BOOLEAN : RecordNoCall(payload)
  \/ \E answered, accepts \in BOOLEAN : Call(answered, accepts)

RecordOutcome == RecordSuccess \/ RecordFailure

Next ==
  \/ \E j \in Job : Enqueue(j)
  \/ \E o \in Org, auto \in AutoSend, failFirst \in FailFirst : PatchSettings(o, auto, failFirst)
  \/ \E o \in Org : SwitchProvider(o)
  \/ Poll \/ EndOfBatch \/ HandleJob \/ RecordOutcome
  \/ RecordLost \/ Restart

Spec == Init /\ [][Next]_vars

\* The ticker fires and the goroutine runs; a process that restarts again and
\* again still handles a job between two of the restarts.
FairSpec ==
  Spec /\ WF_vars(Poll) /\ WF_vars(EndOfBatch) /\ SF_vars(HandleJob) /\ SF_vars(RecordOutcome)

=============================================================================
