--------------------------- MODULE SendQueueProofs ---------------------------
(***************************************************************************)
(* Theorems about the send queues, for every number of jobs, retries and   *)
(* lost outcomes, and any size of a batch: what is in the batch is what is *)
(* in the table, and so attempts agree, a job that has ended stays so, and *)
(* the queue is a queue of messages sent at least once.                    *)
(***************************************************************************)
EXTENDS SendQueueProperties, RanksAndSums

\* The rows of the table; only they may be polled.
Present == {j \in Job : row[j].status # "ABSENT"}

\* What AttemptsAgree says of one row.
RowAgrees(r) ==
  /\ r.attempt <= MaxRetries
  /\ r.status \in {"ABSENT", "PENDING"} <=> r.attempt = 0
  /\ r.status = "RETRY" => r.attempt < MaxRetries
  /\ r.status = "FAILED" => r.attempt = MaxRetries

\* A job in the batch is there once, and the row is still as it was polled.
Fresh ==
  /\ \A k \in DOMAIN batch : Due(batch[k].id) /\ row[batch[k].id].attempt = batch[k].attempt
  /\ \A i, k \in DOMAIN batch : batch[i].id = batch[k].id => i = k

\* A call that was made waits for its outcome to be recorded.
Waiting ==
  /\ pc \in {"answered", "failed"} => batch # <<>>
  /\ pc = "answered" => job \in accepted

Inv ==
  /\ TypeOK /\ (\A j \in Job : RowAgrees(row[j])) /\ IsFiniteSet(Present)
  /\ Fresh /\ Waiting /\ CallsBounded

-----------------------------------------------------------------------------
(* The poll: the rows that are due, each once. *)

Less == {p \in Nat \X Nat : p[1] < p[2]}

At(k) == CHOOSE j \in DueFirst : Cardinality({i \in DueFirst : i < j}) = k - 1

LEMMA PollIsDense ==
  ASSUME Inv
  PROVE  /\ Cardinality(DueFirst) \in Nat
         /\ \A k \in 1..Cardinality(DueFirst) :
              At(k) \in DueFirst /\ Cardinality({i \in DueFirst : i < At(k)}) = k - 1
<1>1. DueFirst \subseteq Present /\ DueFirst \subseteq Nat
  BY SendQueueAssumption DEF DueFirst, Due, Present
<1>2. IsFiniteSet(DueFirst)
  BY <1>1, FS_Subset DEF Inv
<1>3. OrdersStrictly(Less, DueFirst)
  BY <1>1 DEF OrdersStrictly, Less
<1>4. ASSUME NEW j \in DueFirst PROVE Ahead(Less, DueFirst, j) = {i \in DueFirst : i < j}
  BY <1>1 DEF Ahead, Less
<1>5. Cardinality(DueFirst) \in Nat
  BY <1>2, <1>3, RanksAreDense
<1>6. ASSUME NEW k \in 1..Cardinality(DueFirst)
      PROVE  \E j \in DueFirst : Cardinality({i \in DueFirst : i < j}) = k - 1
  <2>1. k - 1 \in 0..Cardinality(DueFirst)-1
    BY <1>5
  <2>2. PICK j \in DueFirst : Cardinality(Ahead(Less, DueFirst, j)) = k - 1
    BY <2>1, <1>2, <1>3, RanksAreDense
  <2>. QED  BY <2>2, <1>4
<1>. QED  BY <1>5, <1>6 DEF At

LEMMA PollFresh ==
  ASSUME Inv, Poll
  PROVE  batch' \in Seq(Polled) /\ Fresh'
<1> DEFINE n == Cardinality(DueFirst)
<1>1. batch' = [k \in 1..n |-> Snapshot(At(k))] /\ row' = row
  BY DEF Poll, At, queue
<1>2. n \in Nat /\ \A k \in 1..n : At(k) \in DueFirst
  BY PollIsDense
<1>3. ASSUME NEW k \in 1..n
      PROVE  /\ Snapshot(At(k)) \in Polled /\ Snapshot(At(k)).id = At(k) /\ Due(At(k))
             /\ Snapshot(At(k)).attempt = row[At(k)].attempt
  <2>1. At(k) \in Job /\ Due(At(k)) /\ OrgOf[At(k)] \in Org
    BY <1>2, SendQueueAssumption DEF DueFirst
  <2>. QED  BY <2>1 DEF Snapshot, Polled, Inv, TypeOK
<1>4. ASSUME NEW i \in 1..n, NEW k \in 1..n, At(i) = At(k) PROVE i = k
  <2>1. i - 1 = k - 1
    BY <1>4, PollIsDense
  <2>. QED  BY <2>1, <1>2
<1> HIDE DEF n
<1>5. batch' \in Seq(Polled) /\ DOMAIN batch' = 1..n
  BY <1>1, <1>2, <1>3
<1>6. \A k \in 1..n : batch'[k].id = At(k) /\ batch'[k].attempt = row[At(k)].attempt
  BY <1>1, <1>3
<1>7. \A j \in Job : Due(j)' <=> Due(j)
  BY <1>1 DEF Due
<1>. QED  BY <1>1, <1>3, <1>4, <1>5, <1>6, <1>7 DEF Fresh, Due

-----------------------------------------------------------------------------
(* The job at the head of the batch. *)

LEMMA HeadFresh ==
  ASSUME Inv, batch # <<>>
  PROVE  /\ job \in Job /\ Due(job) /\ Head(batch) \in Polled
         /\ attempt = row[job].attempt + 1 /\ attempt \in 1..MaxRetries
<1>1. Head(batch) = batch[1] /\ 1 \in DOMAIN batch /\ Head(batch) \in Polled
  BY DEF Inv, TypeOK
<1>2. job \in Job /\ Due(job) /\ row[job].attempt = Head(batch).attempt
  BY <1>1 DEF Inv, Fresh, job, Polled
<1>3. RowAgrees(row[job]) /\ row[job].attempt \in Nat
  BY <1>2 DEF Inv, TypeOK
<1>. QED  BY <1>1, <1>2, <1>3, SendQueueAssumption DEF attempt, RowAgrees, Due

\* A step that ends a turn of the loop writes no row but that of its job.
LEMMA TailFresh ==
  ASSUME Inv, batch # <<>>, batch' = Tail(batch), \A j \in Job \ {job} : row'[j] = row[j]
  PROVE  batch' \in Seq(Polled) /\ Fresh'
<1>1. batch' \in Seq(Polled) /\ Len(batch') = Len(batch) - 1 /\ Head(batch) = batch[1]
  BY DEF Inv, TypeOK
<1>2. \A k \in DOMAIN batch' : batch'[k] = batch[k + 1] /\ k + 1 \in DOMAIN batch /\ k + 1 # 1
  BY <1>1 DEF Inv, TypeOK
<1>3. ASSUME NEW k \in DOMAIN batch'
      PROVE  batch'[k].id \in Job \ {job}
  <2>1. k + 1 \in DOMAIN batch /\ 1 \in DOMAIN batch /\ k + 1 # 1 /\ batch[k + 1] \in Polled
    BY <1>2 DEF Inv, TypeOK
  <2>. QED  BY <2>1, <1>1, <1>2 DEF Inv, Fresh, job, Polled
<1>4. ASSUME NEW k \in DOMAIN batch'
      PROVE  Due(batch[k + 1].id) /\ row[batch[k + 1].id].attempt = batch[k + 1].attempt
  BY <1>2 DEF Inv, Fresh
<1>5. ASSUME NEW k \in DOMAIN batch'
      PROVE  (Due(batch[k].id) /\ row[batch[k].id].attempt = batch[k].attempt)'
  BY <1>2, <1>3, <1>4 DEF Due
<1>6. ASSUME NEW i \in DOMAIN batch', NEW k \in DOMAIN batch', batch'[i].id = batch'[k].id
      PROVE  i = k
  <2>1. i + 1 = k + 1 /\ i \in Int /\ k \in Int
    BY <1>1, <1>2, <1>6 DEF Inv, Fresh
  <2>. QED  BY <2>1
<1>. QED  BY <1>1, <1>5, <1>6 DEF Fresh

-----------------------------------------------------------------------------
(* One lemma per kind of step. *)

\* The turn of a job ends: row is written as r, or not at all.
EndsTurn(r) ==
  /\ batch # <<>> /\ NextJob
  /\ row' = [row EXCEPT ![job] = r]
  /\ UNCHANGED <<settings, provider, calls, accepted>>

LEMMA EndsTurnInv ==
  ASSUME Inv, NEW r, EndsTurn(r), r \in [status : Status, attempt : Nat], RowAgrees(r),
         lost' \in [Job -> Nat], \A j \in Job \ {job} : lost'[j] = lost[j],
         calls[job] <= r.attempt + lost'[job]
  PROVE  Inv'
<1>1. /\ job \in Job /\ row' \in [Job -> [status : Status, attempt : Nat]]
      /\ row'[job] = r /\ \A j \in Job \ {job} : row'[j] = row[j]
  BY HeadFresh DEF EndsTurn, Inv, TypeOK
<1>2. batch' \in Seq(Polled) /\ Fresh' /\ pc' = "batch"
  BY <1>1, TailFresh DEF EndsTurn, NextJob
<1>3. TypeOK'
  BY <1>1, <1>2 DEF EndsTurn, Inv, TypeOK
<1>4. \A j \in Job : RowAgrees(row'[j])
  BY <1>1 DEF Inv
<1>5. IsFiniteSet(Present')
  <2>1. Present' \subseteq Present \cup {job}
    BY <1>1 DEF Present
  <2>. QED  BY <2>1, FS_AddElement, FS_Subset DEF Inv
<1>6. CallsBounded'
  <2> SUFFICES ASSUME NEW j \in Job PROVE calls[j] <= row'[j].attempt + lost'[j]
    BY <1>2, <1>3 DEF CallsBounded, AtOutcome, EndsTurn, TypeOK
  <2>1. CASE j = job
    BY <2>1, <1>1
  <2>2. CASE j # job
    BY <2>2, <1>1 DEF Inv, CallsBounded, AtOutcome
  <2>. QED  BY <2>1, <2>2
<1>7. Waiting'
  BY <1>2 DEF Waiting
<1>8. \A j \in Job : RowAgrees(row[j])'
  BY <1>4 DEF RowAgrees
<1>. QED  BY <1>2, <1>3, <1>5, <1>6, <1>7, <1>8 DEF Inv

\* The outcome of the attempt, success or failure, is written.
LEMMA AttemptAgrees ==
  ASSUME Inv, batch # <<>>, NEW status \in {"COMPLETED", StatusAfterFailure(attempt)}
  PROVE  LET r == [status |-> status, attempt |-> attempt] IN
         r \in [status : Status, attempt : Nat] /\ RowAgrees(r)
BY HeadFresh, SendQueueAssumption DEF StatusAfterFailure, RowAgrees, Status

LEMMA CallsOfJob ==
  ASSUME Inv, batch # <<>>
  PROVE  /\ calls[job] \in Nat /\ lost[job] \in Nat /\ calls[job] <= attempt + lost[job]
         /\ pc = "batch" => calls[job] <= row[job].attempt + lost[job]
<1>1. calls[job] <= row[job].attempt + lost[job] + (IF AtOutcome(job) THEN 1 ELSE 0)
  BY HeadFresh DEF Inv, CallsBounded
<1>. QED  BY <1>1, HeadFresh DEF Inv, TypeOK, AtOutcome

LEMMA RecordInv ==
  ASSUME Inv, batch # <<>>, NEW status \in {"COMPLETED", StatusAfterFailure(attempt)},
         EndsTurn([status |-> status, attempt |-> attempt]), UNCHANGED lost
  PROVE  Inv'
<1> DEFINE r == [status |-> status, attempt |-> attempt]
<1>1. r \in [status : Status, attempt : Nat] /\ RowAgrees(r)
  BY AttemptAgrees
<1>2. r.attempt = attempt
  OBVIOUS
<1> HIDE DEF r
<1>3. EndsTurn(r)
  BY DEF r
<1>. QED  BY <1>1, <1>2, <1>3, CallsOfJob, EndsTurnInv DEF Inv, TypeOK

LEMMA SkipInv ==
  ASSUME Inv, Skip
  PROVE  Inv'
<1>1. batch # <<>> /\ pc = "batch" /\ EndsTurn(row[job])
  BY HeadFresh DEF Skip, AtJob, EndsTurn, queue, outside, Inv, TypeOK
<1>2. job \in Job /\ row[job] \in [status : Status, attempt : Nat] /\ RowAgrees(row[job])
  BY <1>1, HeadFresh DEF Inv, TypeOK
<1>3. lost' = lost
  BY DEF Skip, outside
<1>. QED  BY <1>1, <1>2, <1>3, CallsOfJob, EndsTurnInv DEF Inv, TypeOK

LEMMA RecordNoCallInv ==
  ASSUME Inv, NEW payload \in BOOLEAN, RecordNoCall(payload)
  PROVE  Inv'
BY RecordInv DEF RecordNoCall, AtJob, MarkAttempt, EndsTurn, outside

LEMMA CallInv ==
  ASSUME Inv, NEW answered \in BOOLEAN, NEW accepts \in BOOLEAN, Call(answered, accepts)
  PROVE  Inv'
<1>1. batch # <<>> /\ pc = "batch" /\ job \in Job /\ job' = job
  BY HeadFresh DEF Call, AtJob, job
<1>2. /\ UNCHANGED <<row, settings, provider, batch, lost>> /\ calls' = [calls EXCEPT ![job] = @ + 1]
      /\ pc' = IF answered THEN "answered" ELSE "failed"
      /\ accepted' = IF accepts THEN accepted \cup {job} ELSE accepted
      /\ answered => accepts
  BY DEF Call, queue, SendOp
<1>3. TypeOK'
  BY <1>1, <1>2 DEF Inv, TypeOK
<1>4. Fresh' /\ Waiting' /\ Present' = Present
  BY <1>1, <1>2 DEF Inv, Fresh, Due, Waiting, Present, job
<1>5. CallsBounded'
  <2> SUFFICES ASSUME NEW j \in Job
               PROVE  calls'[j] <= row[j].attempt + lost[j] + (IF job = j THEN 1 ELSE 0)
    BY <1>1, <1>2 DEF CallsBounded, AtOutcome
  <2>1. calls[j] <= row[j].attempt + lost[j]
    BY <1>1 DEF Inv, TypeOK, CallsBounded, AtOutcome
  <2>2. calls'[j] = IF j = job THEN calls[j] + 1 ELSE calls[j]
    BY <1>1, <1>2 DEF Inv, TypeOK
  <2>. QED  BY <2>1, <2>2 DEF Inv, TypeOK
<1>. QED  BY <1>2, <1>3, <1>4, <1>5 DEF Inv, RowAgrees

LEMMA RecordSuccessInv ==
  ASSUME Inv, RecordSuccess
  PROVE  Inv'
BY RecordInv DEF RecordSuccess, EndsTurn, outside, Inv, Waiting

LEMMA RecordFailureInv ==
  ASSUME Inv, RecordFailure
  PROVE  Inv'
BY RecordInv DEF RecordFailure, EndsTurn, MarkAttempt, outside, Inv, Waiting

\* An outcome that is lost accounts for its call.
LEMMA LostBounded ==
  ASSUME Inv, pc \in {"answered", "failed"}, lost' = [lost EXCEPT ![job] = @ + 1]
  PROVE  /\ lost' \in [Job -> Nat] /\ \A j \in Job \ {job} : lost'[j] = lost[j]
         /\ calls[job] <= row[job].attempt + lost'[job]
<1>1. batch # <<>> /\ job \in Job
  BY HeadFresh DEF Inv, Waiting
<1>2. lost'[job] = lost[job] + 1
  BY <1>1 DEF Inv, TypeOK
<1>. QED  BY <1>1, <1>2, HeadFresh, CallsOfJob DEF Inv, TypeOK

LEMMA RecordLostInv ==
  ASSUME Inv, RecordLost
  PROVE  Inv'
<1>1. batch # <<>>
  BY DEF RecordLost, Inv, Waiting
<1>2. EndsTurn(row[job]) /\ pc \in {"answered", "failed"} /\ lost' = [lost EXCEPT ![job] = @ + 1]
  BY <1>1, HeadFresh DEF RecordLost, EndsTurn, queue, Inv, TypeOK
<1>3. job \in Job /\ row[job] \in [status : Status, attempt : Nat] /\ RowAgrees(row[job])
  BY <1>1, HeadFresh DEF Inv, TypeOK
<1>. QED  BY <1>2, <1>3, LostBounded, EndsTurnInv

LEMMA RestartInv ==
  ASSUME Inv, Restart
  PROVE  Inv'
<1>1. UNCHANGED <<row, settings, provider, calls, accepted>> /\ pc' = "idle" /\ batch' = <<>>
  BY DEF Restart, queue
<1>2. /\ lost' \in [Job -> Nat]
      /\ \A j \in Job : calls[j] <= row[j].attempt + lost'[j]
  <2>1. CASE pc \in {"answered", "failed"}
    <3>1. lost' = [lost EXCEPT ![job] = @ + 1]
      BY <2>1 DEF Restart
    <3>2. \A j \in Job \ {job} : calls[j] <= row[j].attempt + lost[j]
      BY DEF Inv, CallsBounded, AtOutcome, TypeOK
    <3>. QED  BY <2>1, <3>1, <3>2, LostBounded
  <2>2. CASE pc \notin {"answered", "failed"}
    BY <2>2 DEF Restart, Inv, TypeOK, CallsBounded, AtOutcome
  <2>. QED  BY <2>1, <2>2
<1>3. TypeOK' /\ CallsBounded'
  BY <1>1, <1>2 DEF Inv, TypeOK, CallsBounded, AtOutcome
<1>4. Fresh' /\ Waiting' /\ Present' = Present
  BY <1>1 DEF Fresh, Waiting, Present
<1>. QED  BY <1>1, <1>3, <1>4 DEF Inv, RowAgrees

LEMMA EnqueueInv ==
  ASSUME Inv, NEW j \in Job, Enqueue(j)
  PROVE  Inv'
<1>1. /\ row' = [row EXCEPT ![j].status = "PENDING"] /\ row[j].status = "ABSENT"
      /\ UNCHANGED <<settings, provider, pc, batch, calls, accepted, lost>>
  BY DEF Enqueue, outside
<1>2. /\ row'[j] = [status |-> "PENDING", attempt |-> row[j].attempt] /\ row[j].attempt \in Nat
      /\ \A i \in Job \ {j} : row'[i] = row[i]
  BY <1>1 DEF Inv, TypeOK
<1>3. TypeOK'
  BY <1>1, <1>2 DEF Inv, TypeOK, Status
<1>4. \A i \in Job : RowAgrees(row[i])'
  BY <1>1, <1>2, SendQueueAssumption DEF Inv, RowAgrees
<1>5. IsFiniteSet(Present')
  <2>1. Present' \subseteq Present \cup {j}
    BY <1>2 DEF Present
  <2>. QED  BY <2>1, FS_AddElement, FS_Subset DEF Inv
<1>6. Fresh'
  <2>1. ASSUME NEW k \in DOMAIN batch PROVE batch[k].id \in Job \ {j}
    <3>1. batch[k] \in Polled /\ Due(batch[k].id)
      BY DEF Inv, TypeOK, Fresh
    <3>. QED  BY <1>1, <3>1 DEF Due, Polled
  <2>. QED  BY <1>1, <1>2, <2>1 DEF Inv, Fresh, Due
<1>7. Waiting' /\ CallsBounded'
  BY <1>1, <1>2 DEF Inv, Waiting, CallsBounded, AtOutcome, job
<1>. QED  BY <1>3, <1>4, <1>5, <1>6, <1>7 DEF Inv

\* Steps that leave rows, batch and calls alone.
LEMMA QuietInv ==
  ASSUME Inv, UNCHANGED <<row, batch, calls, accepted, lost>>, TypeOK',
         pc' = pc \/ (pc = "batch" /\ pc' = "idle")
  PROVE  Inv'
<1>1. Fresh' /\ Waiting' /\ Present' = Present
  BY DEF Inv, Fresh, Due, Waiting, Present, job
<1>2. CallsBounded'
  BY DEF Inv, CallsBounded, AtOutcome, job
<1>. QED  BY <1>1, <1>2 DEF Inv, RowAgrees

LEMMA SettingsInv ==
  ASSUME Inv, \/ \E o \in Org, auto \in AutoSend, failFirst \in FailFirst : PatchSettings(o, auto, failFirst)
              \/ \E o \in Org : SwitchProvider(o)
              \/ EndOfBatch
              \/ UNCHANGED vars
  PROVE  Inv'
<1>1. CASE \E o \in Org, auto \in AutoSend, failFirst \in FailFirst : PatchSettings(o, auto, failFirst)
  <2>1. TypeOK'
    BY <1>1, SendQueueAssumption DEF PatchSettings, outside, Inv, TypeOK
  <2>2. UNCHANGED <<row, batch, calls, accepted, lost>> /\ pc' = pc
    BY <1>1 DEF PatchSettings, outside
  <2>. QED  BY <2>1, <2>2, QuietInv
<1>2. CASE \E o \in Org : SwitchProvider(o)
  <2>1. TypeOK'
    BY <1>2 DEF SwitchProvider, outside, Inv, TypeOK
  <2>2. UNCHANGED <<row, batch, calls, accepted, lost>> /\ pc' = pc
    BY <1>2 DEF SwitchProvider, outside
  <2>. QED  BY <2>1, <2>2, QuietInv
<1>3. CASE EndOfBatch \/ UNCHANGED vars
  <2>1. TypeOK'
    BY <1>3 DEF EndOfBatch, vars, queue, outside, Inv, TypeOK
  <2>2. UNCHANGED <<row, batch, calls, accepted, lost>> /\ (pc' = pc \/ (pc = "batch" /\ pc' = "idle"))
    BY <1>3 DEF EndOfBatch, vars, queue, outside
  <2>. QED  BY <2>1, <2>2, QuietInv
<1>. QED  BY <1>1, <1>2, <1>3

LEMMA PollInv ==
  ASSUME Inv, Poll
  PROVE  Inv'
<1>1. UNCHANGED <<row, settings, provider, calls, accepted, lost>> /\ pc = "idle" /\ pc' = "batch"
  BY DEF Poll, queue, outside
<1>2. TypeOK'
  BY <1>1, PollFresh DEF Inv, TypeOK
<1>3. Waiting' /\ Present' = Present /\ CallsBounded'
  BY <1>1 DEF Inv, Waiting, Present, CallsBounded, AtOutcome
<1>. QED  BY <1>1, <1>2, <1>3, PollFresh DEF Inv, RowAgrees

LEMMA InitInv == Init => Inv
<1> SUFFICES ASSUME Init PROVE Inv
  OBVIOUS
<1>1. TypeOK
  <2>1. settings \in [Org -> [auto : BOOLEAN, failFirst : Nat]]
    BY SendQueueAssumption DEF Init
  <2>2. batch \in Seq(Polled) /\ row \in [Job -> [status : Status, attempt : Nat]]
    BY DEF Init, Status
  <2>. QED  BY <2>1, <2>2 DEF Init, TypeOK
<1>2. Present = {}
  BY DEF Init, Present
<1>3. Fresh /\ Waiting /\ CallsBounded
  BY DEF Init, Fresh, Waiting, CallsBounded, AtOutcome
<1>. QED  BY <1>1, <1>2, <1>3, FS_EmptySet, SendQueueAssumption DEF Inv, Init, RowAgrees

LEMMA NextInv == Inv /\ [Next]_vars => Inv'
BY PollInv, SkipInv, RecordNoCallInv, CallInv, RecordSuccessInv, RecordFailureInv,
   RecordLostInv, RestartInv, EnqueueInv, SettingsInv
   DEF Next, HandleJob, RecordOutcome

LEMMA InvHolds == Spec => []Inv
BY InitInv, NextInv, PTL DEF Spec

-----------------------------------------------------------------------------
\* Status and number of attempts of every job agree, and none is tried more often
\* than max_retries, whatever restarts, lost outcomes and settings changed between
\* the poll and the UPDATE (ofd/worker.go, MarkAttempt).
THEOREM AttemptsAgreeHolds == Spec => []AttemptsAgree
<1>1. Inv => AttemptsAgree
  BY DEF Inv, RowAgrees, AttemptsAgree
<1>. QED  BY InvHolds, <1>1, PTL

\* Every call of the provider is an attempt recorded, the one being made, or one
\* whose outcome was lost: the worker never calls twice for one attempt.
THEOREM CallsAreBounded == Spec => []CallsBounded
<1>1. Inv => CallsBounded
  BY DEF Inv
<1>. QED  BY InvHolds, <1>1, PTL

\* A row changes when its receipt commits, or at the end of its turn, when it is due.
LEMMA RowChanges ==
  ASSUME Inv, [Next]_vars
  PROVE  \/ UNCHANGED row
         \/ \E j \in Job : Enqueue(j)
         \/ RecordSuccess
         \/ /\ MarkAttempt /\ batch # <<>>
            /\ UNCHANGED accepted
<1>1. pc \in {"answered", "failed"} => batch # <<>>
  BY DEF Inv, Waiting
<1>. QED  BY <1>1 DEF Next, vars, queue, outside, PatchSettings, SwitchProvider, Poll, EndOfBatch,
             HandleJob, Skip, AtJob, RecordNoCall, Call, RecordOutcome, RecordFailure, RecordLost, Restart

\* A job COMPLETED or FAILED stays so: nothing an earlier poll has read is written
\* over it.
THEOREM EndedStaysEnded == Spec => EndedForever
<1> DEFINE Kept == \A j \in Job : row[j].status \in {"COMPLETED", "FAILED"} => row'[j] = row[j]
<1>1. ASSUME Inv, [Next]_vars PROVE [Kept]_vars
  <2>1. ASSUME NEW j \in Job, Enqueue(j) PROVE Kept
    BY <2>1, <1>1 DEF Enqueue, Inv, TypeOK
  <2>2. ASSUME batch # <<>>, NEW r, row' = [row EXCEPT ![job] = r] PROVE Kept
    <3>1. job \in Job /\ Due(job)
      BY <1>1, <2>2, HeadFresh
    <3>. QED  BY <1>1, <2>2, <3>1 DEF Due, Inv, TypeOK
  <2>3. CASE UNCHANGED row
    BY <2>3
  <2>4. RecordSuccess => batch # <<>>
    BY <1>1 DEF RecordSuccess, Inv, Waiting
  <2>. QED  BY <1>1, <2>1, <2>2, <2>3, <2>4, RowChanges DEF MarkAttempt, RecordSuccess
<1>. QED  BY InvHolds, <1>1, PTL DEF Spec, EndedForever

-----------------------------------------------------------------------------
(* The refinement. *)

state == [j \in Job |-> StateOf(row[j].status)]

LEMMA StateChanges ==
  ASSUME Inv, NEW j \in Job, NEW r, row' = [row EXCEPT ![j] = r]
  PROVE  state' = [state EXCEPT ![j] = StateOf(r.status)]
BY DEF state, Inv, TypeOK

LEMMA InitRefines == Init => Abstract!Init
BY DEF Init, Abstract!Init, StateOf

LEMMA StepRefines ==
  ASSUME Inv, [Next]_vars
  PROVE  [Abstract!Next]_<<state, accepted>>
<1>1. ASSUME NEW j \in Job, Enqueue(j) PROVE Abstract!Enqueue(j)
  <2>1. row' = [row EXCEPT ![j] = [row[j] EXCEPT !.status = "PENDING"]] /\ row[j].status = "ABSENT"
        /\ accepted' = accepted
    BY <1>1 DEF Enqueue, outside, Inv, TypeOK
  <2>2. state' = [state EXCEPT ![j] = StateOf([row[j] EXCEPT !.status = "PENDING"].status)]
    BY <2>1, StateChanges
  <2>3. [row[j] EXCEPT !.status = "PENDING"].status = "PENDING"
    BY DEF Inv, TypeOK
  <2>. QED  BY <2>1, <2>2, <2>3 DEF Abstract!Enqueue, state, StateOf
<1>2. CASE RecordSuccess
  <2>1. batch # <<>> /\ job \in accepted
    BY <1>2 DEF RecordSuccess, Inv, Waiting
  <2>2. job \in Job /\ state[job] = "waiting"
    BY <2>1, HeadFresh DEF Due, state, StateOf
  <2>3. state' = [state EXCEPT ![job] = "done"] /\ accepted' = accepted
    <3> DEFINE r == [status |-> "COMPLETED", attempt |-> attempt]
    <3>1. row' = [row EXCEPT ![job] = r] /\ r.status = "COMPLETED" /\ accepted' = accepted
      BY <1>2 DEF RecordSuccess, outside
    <3> HIDE DEF r
    <3>. QED  BY <2>2, <3>1, StateChanges DEF StateOf
  <2>4. Abstract!Finish(job)
    BY <2>1, <2>2, <2>3 DEF Abstract!Finish, state
  <2>. QED  BY <2>2, <2>4 DEF Abstract!Next
<1>3. CASE MarkAttempt /\ batch # <<>> /\ UNCHANGED accepted
  <2>1. job \in Job /\ state[job] = "waiting"
    BY <1>3, HeadFresh DEF Due, state, StateOf
  <2>2. state' = [state EXCEPT ![job] = StateOf(StatusAfterFailure(attempt))]
    <3> DEFINE r == [status |-> StatusAfterFailure(attempt), attempt |-> attempt]
    <3>1. row' = [row EXCEPT ![job] = r] /\ r.status = StatusAfterFailure(attempt)
      BY <1>3 DEF MarkAttempt
    <3> HIDE DEF r
    <3>. QED  BY <2>1, <3>1, StateChanges
  <2>3. CASE StatusAfterFailure(attempt) = "FAILED"
    <3>1. Abstract!GiveUp(job)
      BY <1>3, <2>1, <2>2, <2>3 DEF Abstract!GiveUp, state, StateOf
    <3>. QED  BY <2>1, <3>1 DEF Abstract!Next
  <2>4. CASE StatusAfterFailure(attempt) = "RETRY"
    <3>1. state' = state
      BY <2>1, <2>2, <2>4 DEF state, StateOf
    <3>. QED  BY <1>3, <3>1
  <2>. QED  BY <2>3, <2>4 DEF StatusAfterFailure
<1>4. ASSUME NEW answered \in BOOLEAN, NEW accepts \in BOOLEAN, Call(answered, accepts)
      PROVE  [Abstract!Next]_<<state, accepted>>
  <2>1. job \in Job /\ state[job] = "waiting" /\ state' = state
    BY <1>4, HeadFresh DEF Call, AtJob, queue, Due, state, StateOf
  <2>2. CASE accepts
    <3>1. Abstract!Accept(job)
      BY <1>4, <2>1, <2>2 DEF Call, Abstract!Accept, state
    <3>. QED  BY <2>1, <3>1 DEF Abstract!Next
  <2>3. CASE ~accepts
    BY <1>4, <2>1, <2>3 DEF Call
  <2>. QED  BY <2>2, <2>3
<1>5. CASE UNCHANGED <<row, accepted>>
  BY <1>5 DEF state
<1>6. \/ UNCHANGED <<row, accepted>>
      \/ \E answered, accepts \in BOOLEAN : Call(answered, accepts)
      \/ \E j \in Job : Enqueue(j)
      \/ RecordSuccess
      \/ MarkAttempt /\ batch # <<>> /\ UNCHANGED accepted
  <2>1. pc \in {"answered", "failed"} => batch # <<>>
    BY DEF Inv, Waiting
  <2>. QED  BY <2>1 DEF Next, vars, queue, outside, PatchSettings, SwitchProvider, Poll, EndOfBatch,
             HandleJob, Skip, AtJob, RecordNoCall, RecordOutcome, RecordFailure, RecordLost, Restart
<1>. QED  BY <1>1, <1>2, <1>3, <1>4, <1>5, <1>6 DEF Abstract!Next

\* The queue implements the safety part of AtLeastOnce: whatever is COMPLETED was
\* accepted by the provider, and a job that waits is done or given up once.
THEOREM ImplementsSafety == Spec => Abstract!Safety
<1>1. Inv /\ [Next]_vars => [Abstract!Next]_(Abstract!vars)
  BY StepRefines DEF Abstract!vars, state
<1>. QED  BY InvHolds, InitRefines, <1>1, PTL DEF Spec, Abstract!Safety

=============================================================================
