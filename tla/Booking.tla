------------------------------- MODULE Booking -------------------------------
(***************************************************************************)
(* Bookings of services: resources with their schedules, the check of      *)
(* availability, the free slots and the life of a booking.                 *)
(*                                                                         *)
(* Time counts in units from midnight of day 0, DayLength units a day.     *)
(* Create checks the resources one after the other without a lock and      *)
(* inserts the booking at the end; SetStatus locks the booking first.      *)
(* Prices, customers and notifications are left out; the process keeps one *)
(* time zone.                                                              *)
(***************************************************************************)
EXTENDS Integers, Sequences, FiniteSets, RowLocks

CONSTANTS Session, Resource,
          BookingRequest,    \* what Create is asked for
          WeekRequest,       \* <<resource, weekday, hours>> for PutSchedule
          ExceptionRequest,  \* <<resource, date, hours>> for AddException
          Mandatory,         \* resources the service cannot do without
          DayLength, Step,   \* length of a day, distance of two slots
          Grace,             \* how late a start may be, 5 minutes
          MaxBookings, MaxTime, \* bounds
          None

\* Hours of work, off when closed; times of a day, the last one is 23:59.
Hours == [from : 0..DayLength-1, to : 0..DayLength-1, open : BOOLEAN]
WholeDay == [from |-> 0, to |-> DayLength - 1, open |-> TRUE]

BookingId == 1..MaxBookings
Status == {"PENDING", "CONFIRMED", "IN_PROGRESS", "COMPLETED", "CANCELED", "NO_SHOW"}
Ended == {"COMPLETED", "CANCELED", "NO_SHOW"}

\* sees is what the checks of Create found in the table, per resource; no code reads it.
BookingRow == [resources : SUBSET Resource, start : Nat, end : Nat, status : Status,
               sees : SUBSET (Resource \X BookingId)]

ASSUME BookingAssumption ==
  /\ NoSession \notin Session /\ DayLength \in Nat \ {0} /\ Step \in Nat \ {0}
  /\ Grace \in Nat /\ MaxBookings \in Nat /\ MaxTime \in Nat
  /\ Mandatory \subseteq Resource
  /\ BookingRequest \subseteq [resources : SUBSET Resource, start : Nat, duration : Nat \ {0}]
  /\ WeekRequest \subseteq Resource \X (1..7) \X Hours
  /\ ExceptionRequest \subseteq Resource \X Nat \X Hours
  /\ None \notin BookingRow

VARIABLES
  booking,    \* service_booking with its resources
  week,       \* service_resource_schedule: the hours per resource and weekday
  exception,  \* service_resource_schedule_exception, per resource and date
  now,
  bookingOwner,
  tx

schedules == <<week, exception>>
vars == <<booking, schedules, now, bookingOwner, tx>>

Tx == [kind : {"none", "create", "status"},
       request : BookingRequest \cup {None}, unchecked : SUBSET Resource,
       sees : SUBSET (Resource \X BookingId),
       booking : BookingId \cup {None}, to : Status]
NoTx == [kind |-> "none", request |-> None, unchecked |-> {}, sees |-> {},
         booking |-> None, to |-> "PENDING"]

Init ==
  /\ booking = [b \in BookingId |-> None]
  /\ week = [r \in Resource |-> [d \in {} |-> None]]
  /\ exception = [r \in Resource |-> [d \in {} |-> None]]
  /\ now = 0
  /\ bookingOwner = [b \in BookingId |-> NoSession]
  /\ tx = [s \in Session |-> NoTx]

-----------------------------------------------------------------------------
Booked == {b \in BookingId : booking[b] # None}
ActiveBookings == {b \in Booked : booking[b].status \notin Ended}
With(f, x, y) == [z \in DOMAIN f \cup {x} |-> IF z = x THEN y ELSE f[z]]

bookingTransitions ==
  [status \in Status |->
     CASE status = "PENDING" -> {"CONFIRMED", "CANCELED"}
       [] status = "CONFIRMED" -> {"IN_PROGRESS", "CANCELED", "NO_SHOW"}
       [] status = "IN_PROGRESS" -> {"COMPLETED", "NO_SHOW"}
       [] OTHER -> {}]

DateOf(t) == t \div DayLength
TimeOf(t) == t % DayLength
Weekday(date) == (date % 7) + 1

HasException(r, date) == date \in DOMAIN exception[r]
HasSchedule(r) == DOMAIN week[r] # {}

\* A weekday without a row is a day off.
DaySchedule(r, day) == IF day \in DOMAIN week[r] THEN week[r][day]
                                               ELSE [WholeDay EXCEPT !.open = FALSE]

\* The exception of the date, else the weekday's row, else the whole day for a
\* resource without any row.
workingInterval(r, date) ==
  IF HasException(r, date) THEN exception[r][date]
  ELSE IF HasSchedule(r) THEN DaySchedule(r, Weekday(date))
  ELSE WholeDay

\* Both ends are compared as times of the day, the date of the end is not.
within(hours, start, end) == hours.from <= TimeOf(start) /\ TimeOf(end) <= hours.to

\* Mutant of Intersects: an interval that starts inside the other.
StartsInside(from, to, start, end) == from <= start /\ start < to

\* Half-open intervals: one may begin when the other ends.
Intersects(from, to, start, end) == from < end /\ to > start

Overlaps(r, start, end) ==
  \E b \in ActiveBookings : /\ r \in booking[b].resources
                            /\ Intersects(booking[b].start, booking[b].end, start, end)

checkAvailability(r, start, end) ==
  LET hours == workingInterval(r, DateOf(start)) IN
  hours.open /\ within(hours, start, end) /\ ~Overlaps(r, start, end)

\* Only the bookings that start on the date.
BusyIntervals(r, date) ==
  {<<booking[b].start, booking[b].end>> :
     b \in {c \in ActiveBookings : r \in booking[c].resources /\ DateOf(booking[c].start) = date}}

\* Mutant of Slots: the last one may begin at closing time.
SlotsToClosing(r, date, duration) ==
  LET hours == workingInterval(r, date)
      midnight == date * DayLength IN
  IF ~hours.open THEN {} ELSE
  {t \in midnight + hours.from .. midnight + hours.to :
     /\ (t - midnight - hours.from) % Step = 0
     /\ \A busy \in BusyIntervals(r, date) : ~(t < busy[2] /\ t + duration > busy[1])}

\* The starts of the free intervals of that duration.
Slots(r, date, duration) ==
  LET hours == workingInterval(r, date)
      midnight == date * DayLength IN
  IF ~hours.open THEN {} ELSE
  {t \in midnight + hours.from .. midnight + hours.to - duration :
     /\ (t - midnight - hours.from) % Step = 0
     /\ \A busy \in BusyIntervals(r, date) : ~(t < busy[2] /\ t + duration > busy[1])}

-----------------------------------------------------------------------------
(* Schedules: one statement each. *)

PutSchedule(day) ==
  /\ week' = [week EXCEPT ![day[1]] = With(@, day[2], day[3])]
  /\ UNCHANGED <<booking, exception, now, bookingOwner, tx>>

AddException(day) ==
  /\ exception' = [exception EXCEPT ![day[1]] = With(@, day[2], day[3])]
  /\ UNCHANGED <<booking, week, now, bookingOwner, tx>>

Tick ==
  /\ now < MaxTime /\ now' = now + 1
  /\ UNCHANGED <<booking, schedules, bookingOwner, tx>>

-----------------------------------------------------------------------------
Idle(s) == tx[s].kind = "none"

HasMandatory(request) == Mandatory \subseteq request.resources
InPast(start) == start < now - Grace

\* A start in the past and a missing mandatory resource are refused; the checks
\* come one by one, in the order of a Go map.
Create(s, request) ==
  /\ Idle(s) /\ Booked # BookingId
  /\ ~InPast(request.start) /\ HasMandatory(request)
  /\ tx' = [tx EXCEPT ![s] = [NoTx EXCEPT !.kind = "create", !.request = request,
                                          !.unchecked = request.resources]]
  /\ UNCHANGED <<booking, schedules, now, bookingOwner>>

End(request) == request.start + request.duration

CheckResource(s, r) ==
  /\ r \in tx[s].unchecked /\ checkAvailability(r, tx[s].request.start, End(tx[s].request))
  /\ tx' = [tx EXCEPT ![s].unchecked = @ \ {r}, ![s].sees = @ \cup ({r} \X Booked)]
  /\ UNCHANGED <<booking, schedules, now, bookingOwner>>

Refuse(s) ==
  /\ \E r \in tx[s].unchecked : ~checkAvailability(r, tx[s].request.start, End(tx[s].request))
  /\ tx' = [tx EXCEPT ![s] = NoTx]
  /\ UNCHANGED <<booking, schedules, now, bookingOwner>>

\* The id is the next of the sequence.
Insert(s) ==
  /\ tx[s].kind = "create" /\ tx[s].unchecked = {}
  /\ \E b \in BookingId \ Booked :
       /\ \A c \in 1..b-1 : c \in Booked
       /\ booking' = [booking EXCEPT ![b] =
            [resources |-> tx[s].request.resources, start |-> tx[s].request.start,
             end |-> End(tx[s].request), status |-> "PENDING", sees |-> tx[s].sees]]
  /\ tx' = [tx EXCEPT ![s] = NoTx]
  /\ UNCHANGED <<schedules, now, bookingOwner>>

\* SELECT ... FOR UPDATE of the booking.
StatusOf(s, b) ==
  /\ b \in Booked /\ Grantable(bookingOwner, b, s)
  /\ bookingOwner' = Acquire(bookingOwner, b, s)

SetStatus(s, b, to) ==
  /\ Idle(s) /\ StatusOf(s, b)
  /\ to \in bookingTransitions[booking[b].status]
  /\ tx' = [tx EXCEPT ![s] = [NoTx EXCEPT !.kind = "status", !.booking = b, !.to = to]]
  /\ UNCHANGED <<booking, schedules, now>>

StoreStatus(s) ==
  /\ tx[s].kind = "status"
  /\ booking' = [booking EXCEPT ![tx[s].booking].status = tx[s].to]
  /\ bookingOwner' = ReleaseAll(bookingOwner, s)
  /\ tx' = [tx EXCEPT ![s] = NoTx]
  /\ UNCHANGED <<schedules, now>>

\* Any other error: the transaction is rolled back.
Fail(s) ==
  /\ ~Idle(s)
  /\ bookingOwner' = ReleaseAll(bookingOwner, s)
  /\ tx' = [tx EXCEPT ![s] = NoTx]
  /\ UNCHANGED <<booking, schedules, now>>

Handle(s) == Insert(s) \/ Refuse(s) \/ StoreStatus(s) \/ \E r \in Resource : CheckResource(s, r)
Next ==
  \/ \E day \in WeekRequest : PutSchedule(day)
  \/ \E day \in ExceptionRequest : AddException(day)
  \/ \E s \in Session : \/ \E request \in BookingRequest : Create(s, request)
                        \/ \E b \in BookingId, to \in Status : SetStatus(s, b, to)
                        \/ Handle(s) \/ Fail(s)
  \/ Tick

Spec == Init /\ [][Next]_vars

=============================================================================
