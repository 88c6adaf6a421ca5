------------------------- MODULE NotificationsProofs -------------------------
(***************************************************************************)
(* Theorems about notifications, for every number of rows, messages, users *)
(* and interruptions, and any size of a batch: a notification is in the    *)
(* queue or in the history, once, and the queue accounts for what          *)
(* providers have taken.                                                   *)
(***************************************************************************)
EXTENDS NotificationsProperties, RanksAndSums

HistoryRow == [rows : Nat, status : {None, "SENT", "DELIVERED", "VIEWED"}]

\* What the attempts of a row say of its status.
RowAgrees(r) == r.attempt <= MaxAttempts /\ (r.status = "FAILED" <=> r.attempt = MaxAttempts)

\* Ids are handed out one after the other.
IdsDense == Ids = 1..Cardinality(Ids)

\* A row in the batch is there once, and is still as it was polled.
Fresh ==
  /\ \A k \in DOMAIN batch : Due(batch[k].id) /\ queue[batch[k].id].attempt = batch[k].attempt
  /\ \A i, k \in DOMAIN batch : batch[i].id = batch[k].id => i = k

\* A status of the history is that of a row.
StatusOfRow == \A j \in Job : history[j].rows = 0 => history[j].status = None

Inv == QueueAgrees /\ IdsDense /\ Fresh /\ StatusOfRow

-----------------------------------------------------------------------------
(* The poll: the rows that are due, each once. *)

Sooner == {p \in Job \X Job : Before(p[1], p[2])}

At(k) == CHOOSE j \in DueFirst : Cardinality({i \in DueFirst : Before(i, j)}) = k - 1

LEMMA SoonerOrders ==
  ASSUME TypeOK
  PROVE  OrdersStrictly(Sooner, DueFirst)
<1>1. \A j \in DueFirst : queue[j].priority \in Int /\ j \in Int /\ j \in Job
  BY DEF DueFirst, DueJobs, Due, Queued, TypeOK, JobRow, Job
<1>. QED  BY <1>1 DEF OrdersStrictly, Sooner, Before

LEMMA PollIsDense ==
  ASSUME TypeOK
  PROVE  /\ Cardinality(DueFirst) \in Nat
         /\ \A k \in 1..Cardinality(DueFirst) :
              At(k) \in DueFirst /\ Cardinality({i \in DueFirst : Before(i, At(k))}) = k - 1
<1>1. DueFirst \subseteq Job /\ IsFiniteSet(Job)
  BY FS_Interval, NotificationsAssumption DEF DueFirst, DueJobs, Job
<1>2. IsFiniteSet(DueFirst)
  BY <1>1, FS_Subset
<1>3. OrdersStrictly(Sooner, DueFirst)
  BY SoonerOrders
<1>4. ASSUME NEW j \in DueFirst PROVE Ahead(Sooner, DueFirst, j) = {i \in DueFirst : Before(i, j)}
  BY <1>1 DEF Ahead, Sooner
<1>5. Cardinality(DueFirst) \in Nat
  BY <1>2, <1>3, RanksAreDense
<1>6. ASSUME NEW k \in 1..Cardinality(DueFirst)
      PROVE  \E j \in DueFirst : Cardinality({i \in DueFirst : Before(i, j)}) = k - 1
  <2>1. k - 1 \in 0..Cardinality(DueFirst)-1
    BY <1>5
  <2>2. PICK j \in DueFirst : Cardinality(Ahead(Sooner, DueFirst, j)) = k - 1
    BY <2>1, <1>2, <1>3, RanksAreDense
  <2>. QED  BY <2>2, <1>4
<1>. QED  BY <1>5, <1>6 DEF At

LEMMA PollFresh ==
  ASSUME Inv, PollDue
  PROVE  batch' \in Seq(Polled) /\ Fresh'
<1> DEFINE n == Cardinality(DueFirst)
<1>1. batch' = [k \in 1..n |-> Snapshot(At(k))] /\ queue' = queue
  BY DEF PollDue, At
<1>2. n \in Nat /\ \A k \in 1..n : At(k) \in DueFirst
  BY PollIsDense DEF Inv, QueueAgrees
<1>3. ASSUME NEW k \in 1..n
      PROVE  /\ Snapshot(At(k)) \in Polled /\ Snapshot(At(k)).id = At(k) /\ Due(At(k))
             /\ Snapshot(At(k)).attempt = queue[At(k)].attempt
  <2>1. At(k) \in Job /\ Due(At(k)) /\ queue[At(k)] \in JobRow
    BY <1>2 DEF DueFirst, DueJobs, Due, Queued, Inv, QueueAgrees, TypeOK
  <2>2. settings[queue[At(k)].org] \in [enabled : BOOLEAN, failFirst : Nat]
    BY <2>1 DEF Inv, QueueAgrees, TypeOK, JobRow
  <2>. QED  BY <2>1, <2>2 DEF Snapshot, Polled, JobRow
<1>4. ASSUME NEW i \in 1..n, NEW k \in 1..n, At(i) = At(k) PROVE i = k
  <2>1. i - 1 = k - 1
    BY <1>4, PollIsDense DEF Inv, QueueAgrees
  <2>. QED  BY <2>1, <1>2
<1> HIDE DEF n
<1>5. batch' \in Seq(Polled) /\ DOMAIN batch' = 1..n
  BY <1>1, <1>2, <1>3
<1>6. \A k \in 1..n : batch'[k].id = At(k) /\ batch'[k].attempt = queue[At(k)].attempt
  BY <1>1, <1>3
<1>. QED  BY <1>1, <1>3, <1>4, <1>5, <1>6 DEF Fresh, Due, Queued

-----------------------------------------------------------------------------
(* The row at the head of the batch. *)

LEMMA HeadFresh ==
  ASSUME Inv, batch # <<>>
  PROVE  /\ job \in Job /\ Due(job) /\ Queued(job) /\ queue[job] \in JobRow
         /\ attempt = queue[job].attempt + 1 /\ attempt \in 1..MaxAttempts
         /\ history[job].rows = 0 /\ history[job].status = None /\ job \in Ids
<1>1. Head(batch) = batch[1] /\ 1 \in DOMAIN batch /\ Head(batch) \in Polled
  BY DEF Inv, QueueAgrees, TypeOK
<1>2. job \in Job /\ Due(job) /\ queue[job].attempt = Head(batch).attempt
  BY <1>1 DEF Inv, Fresh, job, Polled
<1>3. Queued(job) /\ queue[job] \in JobRow /\ job \in Ids
  BY <1>2 DEF Due, Queued, Ids, Inv, QueueAgrees, TypeOK
<1>4. attempt = queue[job].attempt + 1 /\ attempt \in 1..MaxAttempts
  <2>1. queue[job].attempt \in Nat /\ queue[job].attempt <= MaxAttempts
        /\ (queue[job].status = "FAILED" <=> queue[job].attempt = MaxAttempts)
    BY <1>2, <1>3 DEF Inv, QueueAgrees, TypeOK, JobRow
  <2>. QED  BY <2>1, <1>2, NotificationsAssumption DEF attempt, Due
<1>5. history[job].rows = 0
  BY <1>2, <1>3 DEF Inv, QueueAgrees, KeptOrMoved, TypeOK
<1>. QED  BY <1>2, <1>3, <1>4, <1>5 DEF Inv, StatusOfRow

\* A step that ends a turn of the loop writes no row but that of its job.
LEMMA TailFresh ==
  ASSUME Inv, batch # <<>>, batch' = Tail(batch), \A j \in Job \ {job} : queue'[j] = queue[j]
  PROVE  batch' \in Seq(Polled) /\ Fresh'
<1>1. batch' \in Seq(Polled) /\ Len(batch') = Len(batch) - 1 /\ Head(batch) = batch[1]
  BY DEF Inv, QueueAgrees, TypeOK
<1>2. \A k \in DOMAIN batch' : batch'[k] = batch[k + 1] /\ k + 1 \in DOMAIN batch /\ k + 1 # 1
  BY <1>1 DEF Inv, QueueAgrees, TypeOK
<1>3. ASSUME NEW k \in DOMAIN batch'
      PROVE  batch'[k].id \in Job \ {job}
  <2>1. k + 1 \in DOMAIN batch /\ 1 \in DOMAIN batch /\ k + 1 # 1 /\ batch[k + 1] \in Polled
    BY <1>2 DEF Inv, QueueAgrees, TypeOK
  <2>. QED  BY <2>1, <1>1, <1>2 DEF Inv, Fresh, job, Polled
<1>4. ASSUME NEW k \in DOMAIN batch'
      PROVE  Due(batch[k + 1].id) /\ queue[batch[k + 1].id].attempt = batch[k + 1].attempt
  BY <1>2 DEF Inv, Fresh
<1>5. ASSUME NEW k \in DOMAIN batch'
      PROVE  (Due(batch[k].id) /\ queue[batch[k].id].attempt = batch[k].attempt)'
  BY <1>2, <1>3, <1>4 DEF Due, Queued
<1>6. ASSUME NEW i \in DOMAIN batch', NEW k \in DOMAIN batch', batch'[i].id = batch'[k].id
      PROVE  i = k
  <2>1. i + 1 = k + 1 /\ i \in Int /\ k \in Int
    BY <1>1, <1>2, <1>6 DEF Inv, Fresh
  <2>. QED  BY <2>1
<1>. QED  BY <1>1, <1>5, <1>6 DEF Fresh

\* What the queue accounts for of the job of this turn.
LEMMA SendsOfJob ==
  ASSUME Inv, batch # <<>>
  PROVE  /\ sends[job] \in Nat /\ lost[job] \in Nat
         /\ pc # "drain" => sends[job] <= lost[job]
         /\ pc = "drain" => sends[job] <= lost[job] + 1 /\ sends[job] > 0
<1>1. job \in Job /\ history[job].status # "SENT"
  BY HeadFresh, NotificationsAssumption
<1>. QED  BY <1>1 DEF Inv, QueueAgrees, TypeOK, SendsAccounted

-----------------------------------------------------------------------------
(* A turn of the loop ends: the row becomes r, None when it is moved, and    *)
(* its history h.                                                            *)
EndsTurn(r, h) ==
  /\ batch # <<>> /\ NextJob /\ UNCHANGED people
  /\ queue' = [queue EXCEPT ![job] = r]
  /\ history' = [history EXCEPT ![job] = h]
  /\ sends' \in [Job -> Nat] /\ lost' \in [Job -> Nat]
  /\ \A j \in Job \ {job} : sends'[j] = sends[j] /\ lost'[j] = lost[j]

\* Row, history and what was sent agree at the end of the turn.
TurnAgrees(r, h) ==
  /\ r \in JobRow \cup {None} /\ (r # None => RowAgrees(r))
  /\ h \in HistoryRow
  /\ IF r = None THEN h.rows = 1 ELSE h.rows = 0 /\ h.status = None
  /\ sends'[job] <= lost'[job] + (IF h.status = "SENT" THEN 1 ELSE 0)
  /\ h.status = "SENT" => sends'[job] > 0

LEMMA EndsTurnInv ==
  ASSUME Inv, NEW r, NEW h, EndsTurn(r, h), TurnAgrees(r, h)
  PROVE  Inv'
<1>1. /\ job \in Job /\ job \in Ids
      /\ queue' \in [Job -> JobRow \cup {None}] /\ queue'[job] = r
      /\ history' \in [Job -> HistoryRow] /\ history'[job] = h
      /\ \A j \in Job \ {job} : queue'[j] = queue[j] /\ history'[j] = history[j]
  BY HeadFresh DEF EndsTurn, TurnAgrees, Inv, QueueAgrees, TypeOK, HistoryRow
<1>2. batch' \in Seq(Polled) /\ Fresh' /\ pc' = "batch"
  BY <1>1, TailFresh DEF EndsTurn, NextJob
<1>3. \A j \in Job : queue'[j] # None =>
        /\ queue'[j].attempt <= MaxAttempts
        /\ queue'[j].status = "FAILED" <=> queue'[j].attempt = MaxAttempts
  BY <1>1 DEF TurnAgrees, RowAgrees, Inv, QueueAgrees, TypeOK, Queued
<1>4. TypeOK'
  BY <1>1, <1>2, <1>3 DEF EndsTurn, Inv, QueueAgrees, TypeOK, Queued, people, HistoryRow
<1>5. Ids' = Ids
  <2>1. \A j \in Job : (queue'[j] # None \/ history'[j].rows > 0) <=> (queue[j] # None \/ history[j].rows > 0)
    BY <1>1 DEF TurnAgrees, Ids, Queued
  <2>. QED  BY <2>1 DEF Ids, Queued
<1>6. KeptOrMoved'
  <2> SUFFICES ASSUME NEW j \in Job
               PROVE  history'[j].rows + (IF queue'[j] # None THEN 1 ELSE 0) = (IF j \in Ids THEN 1 ELSE 0)
    BY <1>5 DEF KeptOrMoved, Queued
  <2>1. CASE j = job
    BY <2>1, <1>1 DEF TurnAgrees
  <2>2. CASE j # job
    BY <2>2, <1>1 DEF Inv, QueueAgrees, KeptOrMoved, Queued
  <2>. QED  BY <2>1, <2>2
<1>7. SendsAccounted'
  <2> SUFFICES ASSUME NEW j \in Job
               PROVE  /\ sends'[j] <= lost'[j] + (IF history'[j].status = "SENT" THEN 1 ELSE 0)
                      /\ history'[j].status = "SENT" => sends'[j] > 0
    BY <1>2 DEF SendsAccounted
  <2>1. CASE j = job
    BY <2>1, <1>1 DEF TurnAgrees
  <2>2. CASE j # job
    BY <2>2, <1>1 DEF EndsTurn, Inv, QueueAgrees, SendsAccounted
  <2>. QED  BY <2>1, <2>2
<1>8. StatusOfRow' /\ IdsDense'
  BY <1>1, <1>5 DEF TurnAgrees, Inv, StatusOfRow, IdsDense
<1>. QED  BY <1>2, <1>4, <1>6, <1>7, <1>8 DEF Inv, QueueAgrees

\* The attempt is counted: the row stays in the queue, tried once more.
LEMMA MarkedAgrees ==
  ASSUME Inv, batch # <<>>, MarkAttempt
  PROVE  \E r : /\ queue' = [queue EXCEPT ![job] = r] /\ r \in JobRow /\ r # None /\ RowAgrees(r)
<1> DEFINE r == [queue[job] EXCEPT !.status = StatusAfter(attempt), !.attempt = attempt]
<1>1. queue' = [queue EXCEPT ![job] = r]
  BY DEF MarkAttempt
<1>2. r \in JobRow /\ r.status = StatusAfter(attempt) /\ r.attempt = attempt
  <2>1. queue[job] \in JobRow /\ StatusAfter(attempt) \in {"RETRY", "FAILED"} /\ attempt \in Nat
    BY HeadFresh, NotificationsAssumption DEF StatusAfter
  <2>. QED  BY <2>1 DEF JobRow
<1>3. r # None /\ RowAgrees(r)
  BY <1>2, HeadFresh, NotificationsAssumption DEF RowAgrees, StatusAfter
<1>. QED  BY <1>1, <1>2, <1>3

LEMMA SkipInv ==
  ASSUME Inv, Skip
  PROVE  Inv'
<1> DEFINE r == queue[job]
           h == history[job]
<1>1. batch # <<>> /\ pc = "batch" /\ UNCHANGED <<queue, history, sends, lost>>
  BY DEF Skip, AtJob
<1>2. r \in JobRow /\ r # None /\ h.rows = 0 /\ h.status = None /\ h \in HistoryRow /\ RowAgrees(r)
  BY <1>1, HeadFresh, NotificationsAssumption DEF Inv, QueueAgrees, TypeOK, RowAgrees, Queued, HistoryRow
<1>3. EndsTurn(r, h)
  BY <1>1 DEF Skip, EndsTurn, people, Inv, QueueAgrees, TypeOK
<1>4. TurnAgrees(r, h)
  BY <1>1, <1>2, SendsOfJob, NotificationsAssumption DEF TurnAgrees
<1>. QED  BY <1>3, <1>4, EndsTurnInv

LEMMA UnsentInv ==
  ASSUME Inv, Unsent
  PROVE  Inv'
<1> DEFINE h == history[job]
<1>1. batch # <<>> /\ pc = "batch" /\ UNCHANGED <<history, sends, lost>>
  BY DEF Unsent, AtJob
<1>2. PICK r : queue' = [queue EXCEPT ![job] = r] /\ r \in JobRow /\ r # None /\ RowAgrees(r)
  BY <1>1, MarkedAgrees DEF Unsent
<1>3. h.rows = 0 /\ h.status = None /\ h \in HistoryRow
  BY <1>1, HeadFresh DEF Inv, QueueAgrees, TypeOK, HistoryRow
<1>4. EndsTurn(r, h)
  BY <1>1, <1>2 DEF Unsent, EndsTurn, people, Inv, QueueAgrees, TypeOK
<1>5. TurnAgrees(r, h)
  BY <1>1, <1>2, <1>3, SendsOfJob, NotificationsAssumption DEF TurnAgrees
<1>. QED  BY <1>4, <1>5, EndsTurnInv

LEMMA AnswerLostInv ==
  ASSUME Inv, AnswerLost
  PROVE  Inv'
<1> DEFINE h == history[job]
<1>1. /\ batch # <<>> /\ pc = "batch" /\ UNCHANGED history
      /\ sends' = [sends EXCEPT ![job] = @ + 1] /\ lost' = [lost EXCEPT ![job] = @ + 1]
  BY DEF AnswerLost, AtJob
<1>2. PICK r : queue' = [queue EXCEPT ![job] = r] /\ r \in JobRow /\ r # None /\ RowAgrees(r)
  BY <1>1, MarkedAgrees DEF AnswerLost
<1>3. h.rows = 0 /\ h.status = None /\ h \in HistoryRow /\ job \in Job
  BY <1>1, HeadFresh DEF Inv, QueueAgrees, TypeOK, HistoryRow
<1>4. EndsTurn(r, h)
  BY <1>1, <1>2, <1>3 DEF AnswerLost, EndsTurn, people, Inv, QueueAgrees, TypeOK
<1>5. sends'[job] = sends[job] + 1 /\ lost'[job] = lost[job] + 1
  BY <1>1, <1>3 DEF Inv, QueueAgrees, TypeOK
<1>6. TurnAgrees(r, h)
  BY <1>1, <1>2, <1>3, <1>5, SendsOfJob, NotificationsAssumption DEF TurnAgrees
<1>. QED  BY <1>4, <1>6, EndsTurnInv

\* The row is moved to the history with the status given.
LEMMA DrainInv ==
  ASSUME Inv, batch # <<>>, NEW status \in {"SENT", "DELIVERED"}, status = "SENT" <=> pc = "drain",
         DrainToHistory(status), NextJob, UNCHANGED <<people, sends, lost>>
  PROVE  Inv'
<1> DEFINE h == [rows |-> 1, status |-> status]
<1>1. h.rows = 1 /\ h.status = status /\ h \in HistoryRow
  BY DEF HistoryRow
<1>2. queue' = [queue EXCEPT ![job] = None] /\ history' = [history EXCEPT ![job] = h]
  <2>1. history[job].rows + 1 = 1
    BY HeadFresh
  <2>. QED  BY <2>1 DEF DrainToHistory
<1> HIDE DEF h
<1>3. EndsTurn(None, h)
  BY <1>2 DEF EndsTurn, Inv, QueueAgrees, TypeOK
<1>4. TurnAgrees(None, h)
  BY <1>1, SendsOfJob DEF TurnAgrees
<1>. QED  BY <1>3, <1>4, EndsTurnInv

LEMMA DrainFailsInv ==
  ASSUME Inv, DrainFails
  PROVE  Inv'
<1> DEFINE r == queue[job]
           h == history[job]
<1>1. /\ batch # <<>> /\ UNCHANGED <<queue, history, sends>>
      /\ lost' = [lost EXCEPT ![job] = @ + 1]
  BY DEF DrainFails, AtJob, Inv, QueueAgrees, TypeOK
<1>2. /\ r \in JobRow /\ r # None /\ h.rows = 0 /\ h.status = None /\ h \in HistoryRow /\ RowAgrees(r)
      /\ job \in Job
  BY <1>1, HeadFresh, NotificationsAssumption DEF Inv, QueueAgrees, TypeOK, RowAgrees, Queued, HistoryRow
<1>3. EndsTurn(r, h)
  BY <1>1, <1>2 DEF DrainFails, EndsTurn, people, Inv, QueueAgrees, TypeOK
<1>4. lost'[job] = lost[job] + 1
  BY <1>1, <1>2 DEF Inv, QueueAgrees, TypeOK
<1>5. TurnAgrees(r, h)
  BY <1>1, <1>2, <1>4, SendsOfJob, NotificationsAssumption DEF TurnAgrees
<1>. QED  BY <1>3, <1>5, EndsTurnInv

-----------------------------------------------------------------------------
(* Steps within a turn, producers and users. *)

LEMMA SendInv ==
  ASSUME Inv, Send
  PROVE  Inv'
<1>1. /\ batch # <<>> /\ pc = "batch" /\ pc' = "drain" /\ job' = job /\ job \in Job
      /\ sends' = [sends EXCEPT ![job] = @ + 1]
      /\ UNCHANGED <<queue, history, people, batch, lost>>
  BY HeadFresh DEF Send, AtJob, job
<1>2. TypeOK'
  BY <1>1 DEF people, Inv, QueueAgrees, TypeOK, Queued
<1>3. Ids' = Ids /\ KeptOrMoved' /\ IdsDense' /\ StatusOfRow' /\ Fresh'
  BY <1>1 DEF Inv, QueueAgrees, Ids, KeptOrMoved, Queued, IdsDense, StatusOfRow, Fresh, Due
<1>4. SendsAccounted'
  <2>1. sends'[job] = sends[job] + 1 /\ \A j \in Job \ {job} : sends'[j] = sends[j]
    BY <1>1 DEF Inv, QueueAgrees, TypeOK
  <2>2. sends[job] \in Nat /\ lost[job] \in Nat /\ sends[job] <= lost[job]
    BY <1>1, SendsOfJob
  <2>3. ASSUME NEW j \in Job
        PROVE  /\ sends'[j] <= lost[j] + (IF job = j \/ history[j].status = "SENT" THEN 1 ELSE 0)
               /\ job = j \/ history[j].status = "SENT" => sends'[j] > 0
    <3>1. CASE j = job
      BY <3>1, <2>1, <2>2
    <3>2. CASE j # job
      BY <3>2, <2>1, <1>1 DEF Inv, QueueAgrees, SendsAccounted
    <3>. QED  BY <3>1, <3>2
  <2>. QED  BY <1>1, <2>3 DEF SendsAccounted
<1>. QED  BY <1>2, <1>3, <1>4 DEF Inv, QueueAgrees

LEMMA CrashInv ==
  ASSUME Inv, Crash
  PROVE  Inv'
<1>1. /\ batch # <<>> /\ pc' = "idle" /\ batch' = <<>> /\ job \in Job
      /\ lost' = [lost EXCEPT ![job] = @ + 1]
      /\ UNCHANGED <<queue, history, people, sends>>
  BY HeadFresh DEF Crash
<1>2. TypeOK'
  BY <1>1 DEF people, Inv, QueueAgrees, TypeOK, Queued
<1>3. Ids' = Ids /\ KeptOrMoved' /\ IdsDense' /\ StatusOfRow'
  BY <1>1 DEF Inv, QueueAgrees, Ids, KeptOrMoved, Queued, IdsDense, StatusOfRow
<1>4. Fresh'
  BY <1>1 DEF Fresh
<1>5. SendsAccounted'
  <2>1. lost'[job] = lost[job] + 1 /\ \A j \in Job \ {job} : lost'[j] = lost[j]
    BY <1>1 DEF Inv, QueueAgrees, TypeOK
  <2>2. ASSUME NEW j \in Job
        PROVE  /\ sends[j] <= lost'[j] + (IF history[j].status = "SENT" THEN 1 ELSE 0)
               /\ history[j].status = "SENT" => sends[j] > 0
    <3>1. CASE j = job
      BY <3>1, <1>1, <2>1, SendsOfJob, HeadFresh, NotificationsAssumption
    <3>2. CASE j # job
      BY <3>2, <2>1 DEF Inv, QueueAgrees, SendsAccounted
    <3>. QED  BY <3>1, <3>2
  <2>. QED  BY <1>1, <2>2 DEF SendsAccounted
<1>. QED  BY <1>2, <1>3, <1>4, <1>5 DEF Inv, QueueAgrees

\* The rows of a message: as many as its user has channels left, each a channel.
LEMMA WantedIsChannels ==
  ASSUME TypeOK, NEW m \in Message
  PROVE  Wanted(m) \in Seq(Channel)
<1> DEFINE S == m.channels \ preference[m.user]
<1>1. S \subseteq Channel /\ IsFiniteSet(S)
  <2>1. S \subseteq Channel
    BY NotificationsAssumption
  <2>2. Channel = {"WEB"} \cup {"EMAIL"}
    BY DEF Channel
  <2>3. IsFiniteSet(Channel)
    BY <2>2, FS_Singleton, FS_AddElement
  <2>. QED  BY <2>1, <2>3, FS_Subset
<1>2. PICK f \in Bijection(1..Cardinality(S), S) : TRUE
  BY <1>1, FS_CardinalityType DEF ExistsBijection
<1>3. f \in [1..Cardinality(S) -> S] /\ IsInjective(f)
  BY <1>2 DEF Bijection, Injection
<1>4. SetToSeq(S) \in [1..Cardinality(S) -> S] /\ Cardinality(S) \in Nat
  BY <1>1, <1>3, FS_CardinalityType DEF SetToSeq
<1> HIDE DEF S
<1>5. SetToSeq(S) \in Seq(Channel)
  BY <1>1, <1>4
<1>. QED  BY <1>5 DEF Wanted, S

LEMMA EnqueueInv ==
  ASSUME Inv, NEW m \in Message, Enqueue(m)
  PROVE  Inv'
<1> DEFINE last == Cardinality(Ids)
           n == Len(Wanted(m))
<1>1. /\ last \in Nat /\ n \in Nat /\ n > 0 /\ last + n <= MaxJobs /\ Ids = 1..last
      /\ \A k \in 1..n : Wanted(m)[k] \in Channel
  <2>1. Ids \subseteq Job /\ IsFiniteSet(Job)
    BY FS_Interval, NotificationsAssumption DEF Ids, Job
  <2>2. last \in Nat
    BY <2>1, FS_Subset, FS_CardinalityType
  <2>. QED  BY <2>2, WantedIsChannels DEF Inv, QueueAgrees, IdsDense, Enqueue, EnqueueTx
<1>2. UNCHANGED <<history, people, worker, sends, lost>>
  BY DEF Enqueue
<1> DEFINE r(j) == [org |-> m.org, user |-> m.user, channel |-> Wanted(m)[j - last],
                    priority |-> m.priority, status |-> "PENDING", attempt |-> 0]
<1>3. queue' = [j \in Job |-> IF j \in last + 1 .. last + n THEN r(j) ELSE queue[j]]
  BY DEF Enqueue, EnqueueTx
<1> HIDE DEF last, n
<1>4. ASSUME NEW j \in last + 1 .. last + n
      PROVE  r(j) \in JobRow /\ r(j) # None /\ RowAgrees(r(j))
  <2>1. Wanted(m)[j - last] \in Channel
    BY <1>1
  <2>2. m.org \in Org /\ m.user \in User /\ m.priority \in Nat
    BY NotificationsAssumption
  <2>3. r(j) \in JobRow
    BY <2>1, <2>2 DEF JobRow
  <2>. QED  BY <2>3, NotificationsAssumption DEF RowAgrees
<1> HIDE DEF r
<1>5. ASSUME NEW j \in Job
      PROVE  /\ j \in last + 1 .. last + n => queue'[j] = r(j)
             /\ j \notin last + 1 .. last + n => queue'[j] = queue[j]
  BY <1>3
<1>6. queue' \in [Job -> JobRow \cup {None}]
  BY <1>3, <1>4 DEF Inv, QueueAgrees, TypeOK
<1>7. \A j \in Job : queue'[j] # None =>
        /\ queue'[j].attempt <= MaxAttempts
        /\ queue'[j].status = "FAILED" <=> queue'[j].attempt = MaxAttempts
  BY <1>4, <1>5 DEF RowAgrees, Inv, QueueAgrees, TypeOK, Queued
<1>8. TypeOK'
  BY <1>2, <1>6, <1>7 DEF Inv, QueueAgrees, TypeOK, people, worker, Queued
<1>9. Ids' = Ids \cup (last + 1 .. last + n)
  <2>1. last + 1 .. last + n \subseteq Job
    BY <1>1, NotificationsAssumption DEF Job
  <2>. QED  BY <1>2, <1>4, <1>5, <2>1 DEF Ids, Queued
<1>10. IdsDense'
  <2>1. Ids' = 1..last + n
    BY <1>1, <1>9
  <2>. QED  BY <1>1, <2>1, FS_Interval DEF IdsDense
<1>11. KeptOrMoved'
  <2> SUFFICES ASSUME NEW j \in Job
               PROVE  history[j].rows + (IF queue'[j] # None THEN 1 ELSE 0) = (IF j \in Ids' THEN 1 ELSE 0)
    BY <1>2 DEF KeptOrMoved, Queued
  <2>1. history[j].rows + (IF queue[j] # None THEN 1 ELSE 0) = (IF j \in Ids THEN 1 ELSE 0)
        /\ history[j].rows \in Nat
    BY DEF Inv, QueueAgrees, KeptOrMoved, Queued, TypeOK
  <2>2. CASE j \in last + 1 .. last + n
    BY <2>1, <2>2, <1>1, <1>4, <1>5, <1>9
  <2>3. CASE j \notin last + 1 .. last + n
    BY <2>1, <2>3, <1>5, <1>9
  <2>. QED  BY <2>2, <2>3
<1>12. Fresh'
  <2>1. ASSUME NEW k \in DOMAIN batch PROVE queue'[batch[k].id] = queue[batch[k].id]
    <3>1. batch[k] \in Polled /\ Due(batch[k].id)
      BY DEF Inv, QueueAgrees, TypeOK, Fresh
    <3>2. batch[k].id \in Ids /\ batch[k].id \in Job
      BY <3>1 DEF Due, Ids, Polled
    <3>. QED  BY <3>2, <1>1, <1>5
  <2>. QED  BY <1>2, <2>1 DEF Inv, Fresh, Due, Queued, worker
<1>13. SendsAccounted' /\ StatusOfRow'
  BY <1>2 DEF Inv, QueueAgrees, SendsAccounted, StatusOfRow, worker, job
<1>. QED  BY <1>8, <1>10, <1>11, <1>12, <1>13 DEF Inv, QueueAgrees

LEMMA MarkViewedInv ==
  ASSUME Inv, NEW j \in Job, MarkViewed(j)
  PROVE  Inv'
<1>1. /\ history' = [history EXCEPT ![j].status = "VIEWED"] /\ history[j].status = "DELIVERED"
      /\ UNCHANGED <<queue, people, worker, sends, lost>>
  BY DEF MarkViewed
<1>2. /\ history'[j].rows = history[j].rows /\ history'[j].status = "VIEWED"
      /\ history[j].rows # 0
      /\ \A i \in Job \ {j} : history'[i] = history[i]
  BY <1>1, NotificationsAssumption DEF Inv, QueueAgrees, TypeOK, StatusOfRow
<1>3. TypeOK'
  BY <1>1 DEF Inv, QueueAgrees, TypeOK, people, worker, Queued
<1>4. Ids' = Ids
  BY <1>1, <1>2 DEF Ids, Queued
<1>5. KeptOrMoved' /\ IdsDense' /\ StatusOfRow'
  BY <1>1, <1>2, <1>4 DEF Inv, QueueAgrees, KeptOrMoved, Queued, IdsDense, StatusOfRow
<1>6. Fresh' /\ SendsAccounted'
  BY <1>1, <1>2 DEF Inv, QueueAgrees, Fresh, Due, Queued, SendsAccounted, worker, job
<1>. QED  BY <1>3, <1>4, <1>5, <1>6 DEF Inv, QueueAgrees

\* Steps that leave queue, history, batch and what was sent alone.
LEMMA QuietInv ==
  ASSUME Inv, UNCHANGED <<queue, history, batch, sends, lost>>, TypeOK',
         pc' = pc \/ (pc = "batch" /\ pc' = "idle")
  PROVE  Inv'
<1>1. Ids' = Ids /\ KeptOrMoved' /\ StatusOfRow' /\ Fresh'
  BY DEF Inv, QueueAgrees, Ids, KeptOrMoved, Queued, StatusOfRow, Fresh, Due
<1>2. IdsDense'
  BY <1>1 DEF Inv, IdsDense
<1>3. SendsAccounted'
  BY DEF Inv, QueueAgrees, SendsAccounted, job
<1>. QED  BY <1>1, <1>2, <1>3 DEF Inv, QueueAgrees

LEMMA UsersInv ==
  ASSUME Inv, \/ \E p \in Preference : SetPreference(p)
              \/ \E p \in Patch : PatchSettings(p)
              \/ EndOfBatch
              \/ UNCHANGED vars
  PROVE  Inv'
<1>1. ASSUME NEW p \in Preference, SetPreference(p) PROVE Inv'
  <2>1. p[2] \in Channel
    BY NotificationsAssumption
  <2>2. preference' \in [User -> SUBSET Channel]
    BY <1>1, <2>1 DEF SetPreference, Inv, QueueAgrees, TypeOK
  <2>3. TypeOK' /\ UNCHANGED <<queue, history, batch, sends, lost>> /\ pc' = pc
    BY <1>1, <2>2 DEF SetPreference, worker, Inv, QueueAgrees, TypeOK, Queued
  <2>. QED  BY <2>3, QuietInv
<1>2. ASSUME NEW p \in Patch, PatchSettings(p) PROVE Inv'
  <2>1. p[2] \in BOOLEAN /\ p[3] \in Nat
    BY NotificationsAssumption
  <2>2. settings' \in [Org -> [enabled : BOOLEAN, failFirst : Nat]]
    BY <1>2, <2>1 DEF PatchSettings, Inv, QueueAgrees, TypeOK
  <2>3. TypeOK' /\ UNCHANGED <<queue, history, batch, sends, lost>> /\ pc' = pc
    BY <1>2, <2>2 DEF PatchSettings, worker, Inv, QueueAgrees, TypeOK, Queued
  <2>. QED  BY <2>3, QuietInv
<1>3. CASE EndOfBatch \/ UNCHANGED vars
  <2>1. TypeOK' /\ UNCHANGED <<queue, history, batch, sends, lost>>
        /\ (pc' = pc \/ (pc = "batch" /\ pc' = "idle"))
    BY <1>3 DEF EndOfBatch, vars, people, worker, Inv, QueueAgrees, TypeOK, Queued
  <2>. QED  BY <2>1, QuietInv
<1>. QED  BY <1>1, <1>2, <1>3

LEMMA PollInv ==
  ASSUME Inv, PollDue
  PROVE  Inv'
<1>1. UNCHANGED <<queue, history, people, sends, lost>> /\ pc = "idle" /\ pc' = "batch"
  BY DEF PollDue
<1>2. TypeOK' /\ Fresh'
  BY <1>1, PollFresh DEF Inv, QueueAgrees, TypeOK, people, Queued
<1>3. Ids' = Ids /\ KeptOrMoved' /\ StatusOfRow' /\ SendsAccounted'
  BY <1>1 DEF Inv, QueueAgrees, Ids, KeptOrMoved, Queued, StatusOfRow, SendsAccounted
<1>. QED  BY <1>2, <1>3 DEF Inv, QueueAgrees, IdsDense

LEMMA InitInv == Init => Inv
<1> SUFFICES ASSUME Init PROVE Inv
  OBVIOUS
<1>1. TypeOK
  BY DEF Init, TypeOK, Queued
<1>2. Ids = {} /\ KeptOrMoved /\ StatusOfRow
  BY DEF Init, Ids, Queued, KeptOrMoved, StatusOfRow
<1>3. IdsDense
  BY <1>2, FS_EmptySet DEF IdsDense
<1>4. Fresh /\ SendsAccounted
  BY NotificationsAssumption DEF Init, Fresh, SendsAccounted
<1>. QED  BY <1>1, <1>2, <1>3, <1>4 DEF Inv, QueueAgrees

LEMMA NextInv == Inv /\ [Next]_vars => Inv'
<1> SUFFICES ASSUME Inv, [Next]_vars PROVE Inv'
  OBVIOUS
<1>1. CASE Drain
  BY <1>1, DrainInv DEF Drain, Inv, QueueAgrees, TypeOK
<1>2. CASE DeliverWeb
  BY <1>2, DrainInv DEF DeliverWeb, AtJob
<1>. QED  BY <1>1, <1>2, PollInv, SkipInv, UnsentInv, SendInv, AnswerLostInv, DrainFailsInv,
             CrashInv, EnqueueInv, MarkViewedInv, UsersInv DEF Next, Work

\* A notification once queued is in the queue or in the history, never in both and
\* never twice, and the queue accounts for every message a provider took, whatever
\* stops or fails between sending and moving (notify/worker.go, DrainToHistory).
THEOREM QueueAgreesHolds == Spec => []QueueAgrees
<1>1. Inv => QueueAgrees
  BY DEF Inv
<1>. QED  BY InitInv, NextInv, <1>1, PTL DEF Spec

=============================================================================
