---------------------------- MODULE Notifications ----------------------------
(***************************************************************************)
(* Notifications: the preferences of users, the queue, and the worker that *)
(* moves what was delivered to the history.                                *)
(*                                                                         *)
(* A row is queued in the transaction of whoever has something to tell.    *)
(* The worker is one goroutine: it polls a batch with the settings of each *)
(* organization and handles it job by job.  Delivery to the inbox (WEB) is *)
(* the move to the history itself; on every other channel the message is   *)
(* sent first and moved in a second transaction, and the process may stop  *)
(* or the transaction fail in between.  Texts and templates are left out.  *)
(***************************************************************************)
EXTENDS Integers, Sequences, FiniteSets, SequencesExt, FiniteSetsExt

CONSTANTS Org, User,
          Message,      \* what is queued: organization, user, channels, priority
          MaxAttempts,  \* max_attempts
          Batch,        \* LIMIT of the poll
          Preference,   \* <<user, channel, enabled>> users may set
          Patch,        \* <<organization, enabled, fail_first_attempts>> an admin may set
          MaxJobs, MaxLost, \* bounds: rows queued, interruptions per row
          None

\* TELEGRAM, SMS, PUSH and WHATSAPP go the way of EMAIL.
Channel == {"WEB", "EMAIL"}

Job == 1..MaxJobs
JobRow == [org : Org, user : User, channel : Channel, priority : Nat,
           status : {"PENDING", "RETRY", "FAILED"}, attempt : Nat]

ASSUME NotificationsAssumption ==
  /\ Message \subseteq [org : Org, user : User, channels : SUBSET Channel, priority : Nat]
  /\ MaxAttempts \in Nat \ {0} /\ Batch \in Nat \ {0}
  /\ Preference \subseteq User \X Channel \X BOOLEAN
  /\ Patch \subseteq Org \X BOOLEAN \X Nat
  /\ MaxJobs \in Nat /\ MaxLost \in Nat
  /\ None \notin Channel \cup {"SENT", "DELIVERED", "VIEWED"} /\ None \notin JobRow

VARIABLES
  queue,       \* notification_queue
  history,     \* rows of notification_history per job: how often, and the last status
  preference,  \* notification_preference: channels a user has switched off
  settings,    \* notify_settings: enabled, fail_first_attempts
  pc, batch,   \* the worker: between ticks, at a job, or with a message to move
  sends,       \* messages a provider has accepted, per job
  lost         \* how often a job was cut short, by a stop, a failed transaction or a lost answer

people == <<preference, settings>>
worker == <<pc, batch>>
vars == <<queue, history, people, worker, sends, lost>>

Polled == [id : Job, attempt : Nat, failFirst : Nat, enabled : BOOLEAN]

Init ==
  /\ queue = [j \in Job |-> None]
  /\ history = [j \in Job |-> [rows |-> 0, status |-> None]]
  /\ preference = [u \in User |-> {}]
  /\ settings = [o \in Org |-> [enabled |-> TRUE, failFirst |-> 0]]
  /\ pc = "idle" /\ batch = <<>>
  /\ sends = [j \in Job |-> 0] /\ lost = [j \in Job |-> 0]

Queued(j) == queue[j] # None
Ids == {j \in Job : Queued(j) \/ history[j].rows > 0}

-----------------------------------------------------------------------------
(* Producers and users. *)

\* The channels of a message that its user has not switched off.
Wanted(m) == SetToSeq(m.channels \ preference[m.user])

\* One row per wanted channel, under the next ids.
EnqueueTx(m) ==
  LET last == Cardinality(Ids) IN
  /\ Wanted(m) # <<>> /\ last + Len(Wanted(m)) <= MaxJobs
  /\ queue' = [j \in Job |->
       IF j \in last + 1 .. last + Len(Wanted(m))
       THEN [org |-> m.org, user |-> m.user, channel |-> Wanted(m)[j - last],
             priority |-> m.priority, status |-> "PENDING", attempt |-> 0]
       ELSE queue[j]]

\* All rows of a message or none: it has a transaction, its own or its producer's.
Enqueue(m) == EnqueueTx(m) /\ UNCHANGED <<history, people, worker, sends, lost>>

SetPreference(p) ==
  /\ preference' = [preference EXCEPT ![p[1]] = IF p[3] THEN @ \ {p[2]} ELSE @ \cup {p[2]}]
  /\ UNCHANGED <<queue, history, settings, worker, sends, lost>>

PatchSettings(p) ==
  /\ settings' = [settings EXCEPT ![p[1]] = [enabled |-> p[2], failFirst |-> p[3]]]
  /\ UNCHANGED <<queue, history, preference, worker, sends, lost>>

MarkViewed(j) ==
  /\ history[j].status = "DELIVERED"
  /\ history' = [history EXCEPT ![j].status = "VIEWED"]
  /\ UNCHANGED <<queue, people, worker, sends, lost>>

-----------------------------------------------------------------------------
(* The worker. *)

Due(j) == Queued(j) /\ queue[j].status \in {"PENDING", "RETRY"}

\* ORDER BY priority DESC, id.
Before(i, j) == \/ queue[i].priority > queue[j].priority
                \/ queue[i].priority = queue[j].priority /\ i < j

DueJobs == {j \in Job : Due(j)}
DueFirst == {j \in DueJobs : Cardinality({i \in DueJobs : Before(i, j)}) < Batch}

Snapshot(j) == [id |-> j, attempt |-> queue[j].attempt, enabled |-> settings[queue[j].org].enabled,
                failFirst |-> settings[queue[j].org].failFirst]

PollDue ==
  /\ pc = "idle"
  /\ batch' = [k \in 1..Cardinality(DueFirst) |->
                 Snapshot(CHOOSE j \in DueFirst : Cardinality({i \in DueFirst : Before(i, j)}) = k - 1)]
  /\ pc' = "batch"
  /\ UNCHANGED <<queue, history, people, sends, lost>>

EndOfBatch ==
  /\ pc = "batch" /\ batch = <<>> /\ pc' = "idle"
  /\ UNCHANGED <<queue, history, people, batch, sends, lost>>

job == Head(batch).id
attempt == Head(batch).attempt + 1
AtJob == pc = "batch" /\ batch # <<>>
NextJob == batch' = Tail(batch) /\ pc' = "batch"

\* Mutant of Skip: the worker stays at the job, as it was polled.
SkipNot ==
  /\ AtJob /\ ~Head(batch).enabled
  /\ UNCHANGED vars

Skip ==
  /\ AtJob /\ ~Head(batch).enabled
  /\ NextJob /\ UNCHANGED <<queue, history, people, sends, lost>>

StatusAfter(n) == IF n >= MaxAttempts THEN "FAILED" ELSE "RETRY"

\* FailMark and MarkAttempt.
MarkAttempt == queue' = [queue EXCEPT ![job].status = StatusAfter(attempt), ![job].attempt = attempt]

TestHook == attempt <= Head(batch).failFirst
IsWeb == queue[job].channel = "WEB"

\* The hook for tests; or no provider is configured, or its call fails.
Unsent ==
  /\ AtJob /\ Head(batch).enabled
  /\ TestHook \/ ~IsWeb
  /\ MarkAttempt /\ NextJob
  /\ UNCHANGED <<history, people, sends, lost>>

\* A provider is configured and takes the message; the row is moved next.
Send ==
  /\ AtJob /\ Head(batch).enabled /\ ~TestHook /\ ~IsWeb
  /\ sends' = [sends EXCEPT ![job] = @ + 1]
  /\ pc' = "drain"
  /\ UNCHANGED <<queue, history, people, batch, lost>>

\* The provider takes the message and its answer is lost: counted as not sent.
AnswerLost ==
  /\ AtJob /\ Head(batch).enabled /\ ~TestHook /\ ~IsWeb /\ lost[job] < MaxLost
  /\ sends' = [sends EXCEPT ![job] = @ + 1]
  /\ lost' = [lost EXCEPT ![job] = @ + 1]
  /\ MarkAttempt /\ NextJob
  /\ UNCHANGED <<history, people>>

DrainToHistory(status) ==
  /\ history' = [history EXCEPT ![job] = [rows |-> @.rows + 1, status |-> status]]
  /\ queue' = [queue EXCEPT ![job] = None]

DeliverWeb ==
  /\ AtJob /\ Head(batch).enabled /\ ~TestHook /\ IsWeb
  /\ DrainToHistory("DELIVERED") /\ NextJob
  /\ UNCHANGED <<people, sends, lost>>

Drain ==
  /\ pc = "drain"
  /\ DrainToHistory("SENT") /\ NextJob
  /\ UNCHANGED <<people, sends, lost>>

\* Mutant of DrainFails: no transaction, the first statement stays.
DrainHalf ==
  /\ pc = "drain" /\ lost[job] < MaxLost
  /\ lost' = [lost EXCEPT ![job] = @ + 1]
  /\ history' = [history EXCEPT ![job].rows = @ + 1]
  /\ NextJob /\ UNCHANGED <<queue, people, sends>>

\* The transaction of the move fails: logged, and the worker goes on.
DrainFails ==
  /\ pc = "drain" \/ (AtJob /\ Head(batch).enabled /\ ~TestHook /\ IsWeb)
  /\ lost[job] < MaxLost
  /\ lost' = [lost EXCEPT ![job] = @ + 1]
  /\ NextJob /\ UNCHANGED <<queue, history, people, sends>>

\* The process stops and is started again: the batch is forgotten, and with it
\* a message on its way to the history.
Crash ==
  /\ batch # <<>> /\ lost[job] < MaxLost
  /\ lost' = [lost EXCEPT ![job] = @ + 1]
  /\ pc' = "idle" /\ batch' = <<>>
  /\ UNCHANGED <<queue, history, people, sends>>

Work == PollDue \/ EndOfBatch \/ Skip \/ Unsent \/ Send \/ AnswerLost \/ DeliverWeb \/ Drain \/ DrainFails

Next ==
  \/ \E m \in Message : Enqueue(m)
  \/ \E p \in Preference : SetPreference(p)
  \/ \E p \in Patch : PatchSettings(p)
  \/ \E j \in Job : MarkViewed(j)
  \/ Work \/ Crash

Spec == Init /\ [][Next]_vars

\* The worker ticks as long as the process runs, the process does not stop for
\* ever, and every sender returns.
FairSpec == Spec /\ WF_vars(Work)

=============================================================================
