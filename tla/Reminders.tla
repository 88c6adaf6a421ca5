------------------------------ MODULE Reminders ------------------------------
(***************************************************************************)
(* The worker that reminds of bookings, beside the requests of Booking.    *)
(*                                                                         *)
(* On every tick it reads the confirmed bookings that start within the     *)
(* window and have no flag, then queues a reminder to the creator of each  *)
(* and sets the flag, in two transactions.  It looks at no error of        *)
(* either, and the process may stop between any two steps.                 *)
(***************************************************************************)
EXTENDS Booking

CONSTANTS Window,                  \* 24 hours
          MaxCrashes, MaxUnflagged \* bounds

ASSUME RemindersAssumption == Window \in Nat /\ MaxCrashes \in Nat /\ MaxUnflagged \in Nat

VARIABLES
  notification_sent,  \* the bookings with the flag
  orphans,            \* the bookings whose created_by_id is NULL
  reminders,          \* how often a BOOKING_REMINDER was queued, per booking
  list,               \* the bookings polled and not yet handled
  pending,            \* the one whose flag comes next
  crashes,            \* how often the process stopped,
  unstored,           \* a reminder was not stored, per booking,
  unflagged           \* an UPDATE of the flag failed, per booking

remindTables == <<notification_sent, orphans, reminders>>
worker == <<remindTables, list, pending, crashes, unstored, unflagged>>
remindVars == <<vars, worker>>

RemindInit ==
  /\ Init
  /\ notification_sent = {} /\ orphans = {} /\ reminders = [b \in BookingId |-> 0]
  /\ list = {} /\ pending = {} /\ crashes = 0
  /\ unstored = [b \in BookingId |-> 0] /\ unflagged = [b \in BookingId |-> 0]

\* A confirmed booking of the next 24 hours.
Upcoming(b) ==
  /\ b \in Booked /\ booking[b].status = "CONFIRMED"
  /\ now < booking[b].start /\ booking[b].start <= now + Window

\* Mutant of Due: the flag is not looked at.
DueOrSent(b) == Upcoming(b)

\* Mutant of Due: only the last unit of the window.
DueAtEnd(b) == Upcoming(b) /\ b \notin notification_sent /\ booking[b].start = now + Window

Due(b) == Upcoming(b) /\ b \notin notification_sent

DueBookings == {b \in BookingId : Due(b)}

\* A booking without a creator is skipped, and gets no flag.
remindDue ==
  /\ list = {} /\ DueBookings \ orphans # {}
  /\ list' = DueBookings \ orphans
  /\ UNCHANGED <<vars, remindTables, pending, crashes, unstored, unflagged>>

\* EnqueueUser stores nothing when its transaction fails, or when the creator has
\* switched off both channels; nobody looks which.
QueueReminder(b, stored) ==
  /\ b \in list /\ pending = {}
  /\ IF stored
     THEN reminders' = [reminders EXCEPT ![b] = @ + 1] /\ UNCHANGED unstored
     ELSE unstored' = [unstored EXCEPT ![b] = @ + 1] /\ UNCHANGED reminders
  /\ pending' = {b}
  /\ UNCHANGED <<vars, notification_sent, orphans, list, crashes, unflagged>>

Handled(b) == b \in pending /\ pending' = {} /\ list' = list \ {b}

\* The UPDATE waits for a request that locks the booking.
FlagReminded(b) ==
  /\ Handled(b) /\ bookingOwner[b] = NoSession
  /\ notification_sent' = notification_sent \cup {b}
  /\ UNCHANGED <<vars, orphans, reminders, crashes, unstored, unflagged>>

\* The UPDATE fails, and the worker goes on to the next booking.
FlagFails(b) ==
  /\ Handled(b) /\ \A c \in BookingId : unflagged[c] < MaxUnflagged
  /\ unflagged' = [unflagged EXCEPT ![b] = @ + 1]
  /\ UNCHANGED <<vars, remindTables, crashes, unstored>>

Crash ==
  /\ list # {} /\ crashes < MaxCrashes
  /\ list' = {} /\ pending' = {} /\ crashes' = crashes + 1
  /\ UNCHANGED <<vars, remindTables, unstored, unflagged>>

\* Its creator is deleted, and ON DELETE SET NULL waits for the booking's lock.
DropCreator(b) ==
  /\ b \in Booked \ orphans /\ bookingOwner[b] = NoSession
  /\ orphans' = orphans \cup {b}
  /\ UNCHANGED <<vars, notification_sent, reminders, list, pending, crashes, unstored, unflagged>>

Flag(b) == FlagReminded(b) \/ FlagFails(b)
Remind == \/ remindDue
          \/ \E b \in BookingId : Flag(b) \/ \E stored \in BOOLEAN : QueueReminder(b, stored)

RemindNext == \/ Next /\ UNCHANGED worker
              \/ Remind \/ Crash
              \/ \E b \in BookingId : DropCreator(b)

\* The worker ticks and every request ends; the database grants a lock in the
\* order of the waiting transactions, so that the UPDATE of the flag gets its turn.
\* Nothing makes time or users move.
RemindSpec ==
  /\ RemindInit /\ [][RemindNext]_remindVars
  /\ WF_remindVars(Remind)
  /\ SF_remindVars(\E b \in BookingId : Flag(b))
  /\ \A s \in Session : WF_remindVars(Handle(s) /\ UNCHANGED worker)

-----------------------------------------------------------------------------
\* The worker queues a reminder of a booking at most once, and once more for each
\* stop of the process and each failed UPDATE of the flag that makes it idempotent:
\* the flag is set after the reminder (booking/remind.go).
RemindedOnce == \A b \in BookingId : reminders[b] + unstored[b] <= 1 + crashes + unflagged[b]

\* A confirmed booking of the next 24 hours comes to the worker's attempt to queue
\* its reminder, unless it is canceled, starts or loses its creator first.  The
\* flag is no way out, and no more than the attempt is promised: a reminder that
\* is not stored has its flag set like any other (booking/remind.go).
UpcomingIsHandled ==
  \A b \in BookingId :
    Upcoming(b) /\ b \notin orphans
      ~> reminders[b] + unstored[b] > 0 \/ ~Upcoming(b) \/ b \in orphans

=============================================================================
