---------------------------- MODULE BookingProofs ----------------------------
(***************************************************************************)
(* Proofs about bookings, for any number of sessions, resources, bookings  *)
(* and requests, and days of any length: what is checked before another    *)
(* booking is inserted is the only thing that lets two of them share a     *)
(* resource, a booking moves along the map of transitions, the slots       *)
(* offered are those Create accepts, and reminders are bounded.            *)
(***************************************************************************)
EXTENDS BookingProperties, Reminders, TLAPS

\* A resource that b needs at a time between start and end.
Takes(b, r, start, end) ==
  /\ b \in ActiveBookings /\ r \in booking[b].resources
  /\ Intersects(booking[b].start, booking[b].end, start, end)

\* What a request in progress has read, locked and found free.
Known(s) ==
  /\ tx[s].kind = "create" => tx[s].request \in BookingRequest
  /\ tx[s].kind # "create" => tx[s].unchecked = {}
  /\ tx[s].kind = "status" => /\ tx[s].booking \in Booked /\ bookingOwner[tx[s].booking] = s
                              /\ tx[s].to \in bookingTransitions[booking[tx[s].booking].status]

Checked(s) ==
  tx[s].kind = "create" =>
    \A r \in Resource, b \in BookingId : <<r, b>> \in tx[s].sees =>
      b \in Booked /\ ~Takes(b, r, tx[s].request.start, End(tx[s].request))

\* No booking has seen itself, or one that takes a resource from it.
Separated ==
  \A c \in Booked, r \in Resource, b \in BookingId : <<r, b>> \in booking[c].sees =>
    b \in Booked /\ b # c /\ ~Takes(b, r, booking[c].start, booking[c].end)

Inv == TypeOK /\ (\A s \in Session : Known(s) /\ Checked(s)) /\ Separated

-----------------------------------------------------------------------------
(* How the table of bookings may change. *)

\* The bookings there are stay as they are, but for a status of which none
\* becomes active again.
Kept ==
  \A b \in Booked :
    /\ b \in Booked' /\ booking'[b].resources = booking[b].resources
    /\ booking'[b].start = booking[b].start /\ booking'[b].end = booking[b].end
    /\ booking'[b].sees = booking[b].sees
    /\ b \in ActiveBookings' => b \in ActiveBookings

LEMMA TransitionsAre ==
  ASSUME NEW status \in Status
  PROVE  /\ bookingTransitions[status] \subseteq Status
         /\ status \in Ended => bookingTransitions[status] = {}
BY DEF bookingTransitions, Status, Ended

LEMMA UnchangedKept ==
  ASSUME booking' = booking
  PROVE  Kept
BY DEF Kept, Booked, ActiveBookings

LEMMA InsertKept ==
  ASSUME TypeOK, NEW b \in BookingId \ Booked, NEW row \in BookingRow,
         booking' = [booking EXCEPT ![b] = row]
  PROVE  Kept /\ Booked' = Booked \cup {b} /\ booking'[b] = row
<1>1. booking'[b] = row /\ \A c \in BookingId \ {b} : booking'[c] = booking[c]
  BY DEF TypeOK
<1>2. row # None
  BY BookingAssumption
<1>3. Booked' = Booked \cup {b}
  BY <1>1, <1>2 DEF Booked
<1>. QED  BY <1>1, <1>3 DEF Kept, Booked, ActiveBookings

LEMMA StatusKept ==
  ASSUME TypeOK, NEW b \in Booked, NEW to \in bookingTransitions[booking[b].status],
         booking' = [booking EXCEPT ![b].status = to]
  PROVE  /\ Kept /\ Booked' = Booked /\ booking'[b] \in BookingRow /\ booking'[b].status = to
         /\ \A c \in BookingId \ {b} : booking'[c] = booking[c]
<1>1. b \in BookingId /\ booking[b] \in BookingRow /\ booking[b].status \in Status
  BY DEF TypeOK, Booked, BookingRow
<1>2. to \in Status /\ booking[b].status \notin Ended
  BY <1>1, TransitionsAre
<1>3. /\ booking'[b] = [booking[b] EXCEPT !.status = to]
      /\ \A c \in BookingId \ {b} : booking'[c] = booking[c]
  BY <1>1 DEF TypeOK
<1>4. /\ booking'[b] \in BookingRow /\ booking'[b].status = to
      /\ booking'[b].resources = booking[b].resources /\ booking'[b].sees = booking[b].sees
      /\ booking'[b].start = booking[b].start /\ booking'[b].end = booking[b].end
  BY <1>1, <1>2, <1>3 DEF BookingRow
<1>5. booking'[b] # None
  BY <1>4, BookingAssumption
<1>6. Booked' = Booked
  BY <1>1, <1>3, <1>5 DEF Booked
<1>. QED  BY <1>1, <1>2, <1>3, <1>4, <1>6 DEF Kept, ActiveBookings, Booked

\* What was free stays free.
LEMMA KeptFree ==
  ASSUME Kept, NEW b \in Booked, NEW r, NEW start, NEW end, Takes(b, r, start, end)'
  PROVE  Takes(b, r, start, end)
BY DEF Kept, Takes, Intersects

LEMMA KeptChecked ==
  ASSUME Kept, NEW s \in Session, Checked(s),
         \/ tx'[s] = tx[s]
         \/ tx'[s].kind # "create"
         \/ tx'[s].sees = {}
  PROVE  Checked(s)'
<1>1. CASE tx'[s] = tx[s]
  <2>1. ASSUME NEW r \in Resource, NEW b \in BookingId,
               tx[s].kind = "create", <<r, b>> \in tx[s].sees
        PROVE  b \in Booked' /\ ~Takes(b, r, tx[s].request.start, End(tx[s].request))'
    <3>1. b \in Booked /\ ~Takes(b, r, tx[s].request.start, End(tx[s].request))
      BY <2>1 DEF Checked
    <3>2. b \in Booked'
      BY <3>1 DEF Kept
    <3> DEFINE start == tx[s].request.start
               end == End(tx[s].request)
    <3>3. start' = start /\ end' = end
      BY <1>1 DEF End
    <3>4. ~Takes(b, r, start, end)'
      BY <3>1, <3>3, KeptFree DEF Takes, Intersects, Kept
    <3>. QED  BY <3>2, <3>4
  <2>. QED  BY <1>1, <2>1 DEF Checked
<1>2. CASE tx'[s].kind # "create"
  BY <1>2 DEF Checked
<1>3. CASE tx'[s].sees = {}
  BY <1>3 DEF Checked
<1>. QED  BY <1>1, <1>2, <1>3

LEMMA KeptSeparated ==
  ASSUME Separated, Kept, NEW c \in Booked, NEW r \in Resource, NEW b \in BookingId,
         <<r, b>> \in booking'[c].sees
  PROVE  b \in Booked' /\ b # c /\ ~Takes(b, r, booking[c].start, booking[c].end)'
<1>1. <<r, b>> \in booking[c].sees
  BY DEF Kept
<1>2. b \in Booked /\ b # c /\ ~Takes(b, r, booking[c].start, booking[c].end)
  BY <1>1 DEF Separated
<1>3. b \in Booked'
  BY <1>2 DEF Kept
<1> DEFINE start == booking[c].start
           end == booking[c].end
<1>4. start' = start /\ end' = end
  BY DEF Kept
<1>5. ~Takes(b, r, start, end)'
  BY <1>2, <1>4, KeptFree DEF Takes, Intersects, Kept
<1>. QED  BY <1>2, <1>3, <1>5

LEMMA SameBookedSeparated ==
  ASSUME Separated, Kept, Booked' = Booked
  PROVE  Separated'
BY KeptSeparated DEF Separated

-----------------------------------------------------------------------------
(* Requests. *)

\* A request that a step of another leaves alone, and the row it has locked.
LEMMA OtherKnown ==
  ASSUME Kept, NEW t \in Session, Known(t), tx'[t] = tx[t],
         tx[t].kind = "status" => /\ booking'[tx[t].booking].status = booking[tx[t].booking].status
                                  /\ bookingOwner'[tx[t].booking] = t
  PROVE  Known(t)'
BY DEF Known, Kept, bookingTransitions, Status

LEMMA AcquireKeeps ==
  ASSUME TypeOK, NEW s \in Session, NEW b \in BookingId, Grantable(bookingOwner, b, s),
         bookingOwner' = Acquire(bookingOwner, b, s)
  PROVE  /\ bookingOwner' \in [BookingId -> Session \cup {NoSession}] /\ bookingOwner'[b] = s
         /\ \A t \in Session \ {s}, c \in BookingId : bookingOwner[c] = t => bookingOwner'[c] = t
BY BookingAssumption DEF TypeOK, Grantable, Acquire

LEMMA ReleaseKeeps ==
  ASSUME TypeOK, NEW s \in Session, bookingOwner' = ReleaseAll(bookingOwner, s)
  PROVE  /\ bookingOwner' \in [BookingId -> Session \cup {NoSession}]
         /\ \A t \in Session \ {s}, c \in BookingId : bookingOwner[c] = t => bookingOwner'[c] = t
BY DEF TypeOK, ReleaseAll

LEMMA NoTxTyped == NoTx \in Tx /\ NoTx.kind = "none" /\ NoTx.unchecked = {} /\ NoTx.sees = {}
BY DEF NoTx, Tx, Status

\* A step of the request of s: the request becomes rec, the table is kept, and
\* the rows that others have locked are left alone.
Moves(s, rec) ==
  /\ rec \in Tx /\ tx' = [tx EXCEPT ![s] = rec]
  /\ Kept /\ booking' \in [BookingId -> BookingRow \cup {None}]
  /\ \A b \in Booked' : booking'[b].start < booking'[b].end
  /\ UNCHANGED <<schedules, now>>
  /\ bookingOwner' \in [BookingId -> Session \cup {NoSession}]
  /\ \A t \in Session \ {s}, c \in Booked :
       bookingOwner[c] = t => bookingOwner'[c] = t /\ booking'[c].status = booking[c].status

LEMMA MovesInv ==
  ASSUME Inv, NEW s \in Session, NEW rec, Moves(s, rec), Separated',
         Known(s)', Checked(s)'
  PROVE  Inv'
<1>1. tx'[s] = rec /\ \A t \in Session \ {s} : tx'[t] = tx[t]
  BY DEF Inv, TypeOK, Moves
<1>2. ASSUME NEW t \in Session, t # s PROVE Known(t)' /\ Checked(t)'
  <2>1. Known(t) /\ Checked(t) /\ tx'[t] = tx[t] /\ Kept
    BY <1>1, <1>2 DEF Inv, Moves
  <2>2. Checked(t)'
    BY <2>1, KeptChecked
  <2>3. tx[t].kind = "status" => /\ booking'[tx[t].booking].status = booking[tx[t].booking].status
                                 /\ bookingOwner'[tx[t].booking] = t
    BY <1>2, <2>1 DEF Known, Moves
  <2>. QED  BY <2>1, <2>2, <2>3, OtherKnown
<1>3. TypeOK'
  BY DEF Inv, TypeOK, Moves, schedules
<1>. QED  BY <1>2, <1>3 DEF Inv

\* The end of a request.
LEMMA EndsInv ==
  ASSUME Inv, NEW s \in Session, Moves(s, NoTx), Separated'
  PROVE  Inv'
<1>1. tx'[s] = NoTx
  BY DEF Inv, TypeOK, Moves
<1>2. Known(s)' /\ Checked(s)'
  BY <1>1, NoTxTyped DEF Known, Checked
<1>. QED  BY <1>2, MovesInv

-----------------------------------------------------------------------------
(* One lemma per kind of step. *)

\* A step that leaves table and locks alone.
LEMMA QuietMoves ==
  ASSUME Inv, NEW s \in Session, NEW rec \in Tx, tx' = [tx EXCEPT ![s] = rec],
         UNCHANGED <<booking, schedules, now, bookingOwner>>
  PROVE  Moves(s, rec) /\ Booked' = Booked /\ Separated' /\ tx'[s] = rec
<1>1. Kept /\ Booked' = Booked
  BY UnchangedKept DEF Booked
<1>2. Separated'
  BY <1>1, SameBookedSeparated DEF Inv
<1>3. Moves(s, rec)
  BY <1>1 DEF Moves, Inv, TypeOK
<1>. QED  BY <1>1, <1>2, <1>3 DEF Inv, TypeOK

LEMMA CreateInv ==
  ASSUME Inv, NEW s \in Session, NEW request \in BookingRequest, Create(s, request)
  PROVE  Inv'
<1> DEFINE rec == [NoTx EXCEPT !.kind = "create", !.request = request, !.unchecked = request.resources]
<1>1. rec \in Tx /\ rec.kind = "create" /\ rec.request = request /\ rec.sees = {}
  BY BookingAssumption DEF NoTx, Tx, Status
<1>2. tx' = [tx EXCEPT ![s] = rec] /\ UNCHANGED <<booking, schedules, now, bookingOwner>>
  BY DEF Create
<1>. HIDE DEF rec
<1>3. Moves(s, rec) /\ Separated' /\ tx'[s] = rec
  BY <1>1, <1>2, QuietMoves
<1>4. Known(s)'
  BY <1>1, <1>3 DEF Known
<1>5. Checked(s)'
  BY <1>1, <1>3 DEF Checked
<1>. QED  BY <1>3, <1>4, <1>5, MovesInv

LEMMA CheckResourceInv ==
  ASSUME Inv, NEW s \in Session, NEW r \in Resource, CheckResource(s, r)
  PROVE  Inv'
<1> DEFINE rec == [tx[s] EXCEPT !.unchecked = @ \ {r}, !.sees = @ \cup ({r} \X Booked)]
           start == tx[s].request.start
           end == End(tx[s].request)
<1>1. tx[s] \in Tx /\ Known(s) /\ Checked(s)
  BY DEF Inv, TypeOK
<1>2. tx[s].kind = "create" /\ tx[s].request \in BookingRequest
  BY <1>1 DEF CheckResource, Known
<1>3. Booked \subseteq BookingId
  BY DEF Booked
<1>4. /\ rec \in Tx /\ rec.kind = "create" /\ rec.request = tx[s].request
      /\ rec.sees = tx[s].sees \cup ({r} \X Booked)
  BY <1>1, <1>2, <1>3 DEF Tx
<1>5. tx' = [tx EXCEPT ![s] = rec] /\ UNCHANGED <<booking, schedules, now, bookingOwner>>
  BY DEF CheckResource, Inv, TypeOK
<1>6. ~Overlaps(r, start, end)
  BY DEF CheckResource, checkAvailability
<1>. HIDE DEF rec
<1>7. Moves(s, rec) /\ Separated' /\ tx'[s] = rec /\ Booked' = Booked
  BY <1>4, <1>5, QuietMoves
<1>8. Known(s)'
  BY <1>2, <1>4, <1>7 DEF Known
<1>9. ASSUME NEW q \in Resource, NEW b \in BookingId, <<q, b>> \in rec.sees
      PROVE  b \in Booked /\ ~Takes(b, q, start, end)
  <2>1. CASE <<q, b>> \in tx[s].sees
    BY <1>1, <1>2, <2>1 DEF Checked
  <2>2. CASE q = r /\ b \in Booked
    BY <1>6, <2>2 DEF Overlaps, Takes
  <2>. QED  BY <1>4, <1>9, <2>1, <2>2
<1>10. tx'[s].request = tx[s].request /\ tx'[s].sees = rec.sees /\ booking' = booking
  BY <1>4, <1>5, <1>7
<1>11. Checked(s)'
  BY <1>7, <1>9, <1>10 DEF Checked, Takes, ActiveBookings, Booked, Intersects, End
<1>. QED  BY <1>7, <1>8, <1>11, MovesInv

LEMMA RefuseInv ==
  ASSUME Inv, NEW s \in Session, Refuse(s)
  PROVE  Inv'
BY QuietMoves, EndsInv, NoTxTyped DEF Refuse

LEMMA FailInv ==
  ASSUME Inv, NEW s \in Session, Fail(s)
  PROVE  Inv'
<1>1. Kept /\ Booked' = Booked
  BY UnchangedKept DEF Fail, Booked
<1>2. Separated'
  BY <1>1, SameBookedSeparated DEF Inv
<1>3. Moves(s, NoTx)
  BY <1>1, NoTxTyped, ReleaseKeeps DEF Moves, Fail, Inv, TypeOK, Booked
<1>. QED  BY <1>2, <1>3, EndsInv

LEMMA InsertInv ==
  ASSUME Inv, NEW s \in Session, Insert(s)
  PROVE  Inv'
<1> DEFINE row == [resources |-> tx[s].request.resources, start |-> tx[s].request.start,
                   end |-> End(tx[s].request), status |-> "PENDING", sees |-> tx[s].sees]
<1>1. /\ tx[s].kind = "create" /\ tx' = [tx EXCEPT ![s] = NoTx]
      /\ UNCHANGED <<schedules, now, bookingOwner>>
  BY DEF Insert
<1>2. PICK b \in BookingId \ Booked : booking' = [booking EXCEPT ![b] = row]
  BY DEF Insert
<1>3. /\ tx[s] \in Tx /\ Checked(s) /\ TypeOK
      /\ tx[s].request \in [resources : SUBSET Resource, start : Nat, duration : Nat \ {0}]
  BY <1>1, BookingAssumption DEF Inv, TypeOK, Known
<1>4. row \in BookingRow /\ row.start < row.end
  <2>1. End(tx[s].request) \in Nat /\ tx[s].request.start < End(tx[s].request)
    BY <1>3 DEF End
  <2>. QED  BY <1>3, <2>1 DEF BookingRow, Tx, Status
<1>5. row.sees = tx[s].sees /\ row.start = tx[s].request.start /\ row.end = End(tx[s].request)
  OBVIOUS
<1>. HIDE DEF row
<1>6. /\ Kept /\ Booked' = Booked \cup {b} /\ booking'[b] = row
      /\ \A c \in Booked : booking'[c] = booking[c]
  BY <1>2, <1>3, <1>4, InsertKept DEF TypeOK, Booked
<1>7. Separated'
  <2>1. ASSUME NEW r \in Resource, NEW c \in BookingId, <<r, c>> \in booking'[b].sees
        PROVE  c \in Booked' /\ c # b /\ ~Takes(c, r, booking[b].start, booking[b].end)'
    <3>1. c \in Booked /\ ~Takes(c, r, row.start, row.end)
      BY <1>1, <1>3, <1>5, <1>6, <2>1 DEF Checked
    <3>2. booking'[c] = booking[c] /\ c \in Booked'
      BY <1>6, <3>1
    <3>. QED  BY <1>2, <1>6, <3>1, <3>2 DEF Takes, ActiveBookings, Intersects
  <2>2. ASSUME NEW d \in Booked, NEW r \in Resource, NEW c \in BookingId, <<r, c>> \in booking'[d].sees
        PROVE  c \in Booked' /\ c # d /\ ~Takes(c, r, booking[d].start, booking[d].end)'
    BY <1>6, <2>2, KeptSeparated DEF Inv
  <2>. QED  BY <1>6, <2>1, <2>2 DEF Separated
<1>8. booking' \in [BookingId -> BookingRow \cup {None}]
  BY <1>2, <1>3, <1>4 DEF TypeOK
<1>9. \A c \in Booked' : booking'[c].start < booking'[c].end
  BY <1>3, <1>4, <1>6 DEF TypeOK
<1>10. Moves(s, NoTx)
  BY <1>1, <1>3, <1>6, <1>8, <1>9, NoTxTyped DEF Moves, TypeOK
<1>. QED  BY <1>7, <1>10, EndsInv

LEMMA SetStatusInv ==
  ASSUME Inv, NEW s \in Session, NEW b \in BookingId, NEW to \in Status, SetStatus(s, b, to)
  PROVE  Inv'
<1> DEFINE rec == [NoTx EXCEPT !.kind = "status", !.booking = b, !.to = to]
<1>1. /\ rec \in Tx /\ rec.kind = "status" /\ rec.booking = b /\ rec.to = to
      /\ rec.unchecked = {}
  BY DEF NoTx, Tx, Status
<1>2. /\ tx' = [tx EXCEPT ![s] = rec] /\ UNCHANGED <<booking, schedules, now>>
      /\ b \in Booked /\ to \in bookingTransitions[booking[b].status]
      /\ Grantable(bookingOwner, b, s) /\ bookingOwner' = Acquire(bookingOwner, b, s)
  BY DEF SetStatus, StatusOf
<1>. HIDE DEF rec
<1>3. Kept /\ Booked' = Booked
  BY <1>2, UnchangedKept DEF Booked
<1>4. Separated'
  BY <1>3, SameBookedSeparated DEF Inv
<1>5. bookingOwner'[b] = s
  BY <1>2, AcquireKeeps DEF Inv
<1>6. Moves(s, rec)
  <2>1. /\ bookingOwner' \in [BookingId -> Session \cup {NoSession}]
        /\ \A t \in Session \ {s}, c \in BookingId : bookingOwner[c] = t => bookingOwner'[c] = t
    BY <1>2, AcquireKeeps DEF Inv
  <2>2. Booked \subseteq BookingId
    BY DEF Booked
  <2>. QED  BY <1>1, <1>2, <1>3, <2>1, <2>2 DEF Moves, Inv, TypeOK
<1>7. tx'[s] = rec
  BY <1>2 DEF Inv, TypeOK
<1>8. bookingTransitions' = bookingTransitions
  BY DEF bookingTransitions, Status
<1>9. Known(s)' /\ Checked(s)'
  BY <1>1, <1>2, <1>3, <1>5, <1>7, <1>8 DEF Known, Checked
<1>. QED  BY <1>4, <1>6, <1>9, MovesInv

LEMMA StoreStatusChanges ==
  ASSUME Inv, NEW s \in Session, StoreStatus(s)
  PROVE  LET b == tx[s].booking IN
         /\ b \in Booked /\ bookingOwner[b] = s
         /\ tx[s].to \in bookingTransitions[booking[b].status]
         /\ booking' = [booking EXCEPT ![b].status = tx[s].to]
BY DEF Inv, StoreStatus, Known

LEMMA StoreStatusInv ==
  ASSUME Inv, NEW s \in Session, StoreStatus(s)
  PROVE  Inv'
<1> DEFINE b == tx[s].booking
<1>1. /\ b \in Booked /\ bookingOwner[b] = s /\ tx[s].to \in bookingTransitions[booking[b].status]
      /\ booking' = [booking EXCEPT ![b].status = tx[s].to]
  BY StoreStatusChanges
<1>2. /\ Kept /\ Booked' = Booked /\ booking'[b] \in BookingRow
      /\ \A c \in BookingId \ {b} : booking'[c] = booking[c]
  BY <1>1, StatusKept DEF Inv
<1>3. Separated'
  BY <1>2, SameBookedSeparated DEF Inv
<1>4. /\ tx' = [tx EXCEPT ![s] = NoTx] /\ UNCHANGED <<schedules, now>>
      /\ bookingOwner' = ReleaseAll(bookingOwner, s)
  BY DEF StoreStatus
<1>5. /\ bookingOwner' \in [BookingId -> Session \cup {NoSession}]
      /\ \A t \in Session \ {s}, c \in BookingId : bookingOwner[c] = t => bookingOwner'[c] = t
  BY <1>4, ReleaseKeeps DEF Inv
<1>6. booking' \in [BookingId -> BookingRow \cup {None}]
  <2>1. DOMAIN booking' = BookingId
    BY <1>1 DEF Inv, TypeOK
  <2>2. \A c \in BookingId : booking'[c] \in BookingRow \cup {None}
    BY <1>2 DEF Inv, TypeOK
  <2>3. booking' = [c \in BookingId |-> booking'[c]]
    BY <1>1, <2>1
  <2>. QED  BY <2>2, <2>3
<1>7. \A c \in Booked' : booking'[c].start < booking'[c].end
  BY <1>2 DEF Kept, Inv, TypeOK
<1>. HIDE DEF b
<1>8. \A t \in Session \ {s}, c \in Booked :
        bookingOwner[c] = t => bookingOwner'[c] = t /\ booking'[c].status = booking[c].status
  BY <1>1, <1>2, <1>5 DEF Booked
<1>9. Moves(s, NoTx)
  BY <1>2, <1>4, <1>5, <1>6, <1>7, <1>8, NoTxTyped DEF Moves
<1>. QED  BY <1>3, <1>9, EndsInv

\* A step of no request: the hours of a resource, or time.
LEMMA OutsideInv ==
  ASSUME Inv, TypeOK', UNCHANGED <<booking, bookingOwner, tx>>
  PROVE  Inv'
<1>1. Kept /\ Booked' = Booked
  BY UnchangedKept DEF Booked
<1>2. Separated'
  BY <1>1, SameBookedSeparated DEF Inv
<1>3. ASSUME NEW s \in Session PROVE Known(s)' /\ Checked(s)'
  BY <1>1, <1>3, KeptChecked, OtherKnown DEF Inv, Known
<1>. QED  BY <1>2, <1>3 DEF Inv

LEMMA HoursTyped ==
  ASSUME NEW f, NEW g, NEW x, NEW y \in Hours, g = f \/ g = With(f, x, y),
         \A d \in DOMAIN f : f[d] \in Hours
  PROVE  DOMAIN g \subseteq DOMAIN f \cup {x} /\ \A d \in DOMAIN g : g[d] \in Hours
BY DEF With

LEMMA PutScheduleInv ==
  ASSUME Inv, NEW day \in WeekRequest, PutSchedule(day)
  PROVE  Inv'
<1>1. day[1] \in Resource /\ day[2] \in 1..7 /\ day[3] \in Hours
  BY BookingAssumption
<1>2. /\ DOMAIN week' = Resource
      /\ \A r \in Resource : week'[r] = IF r = day[1] THEN With(week[r], day[2], day[3]) ELSE week[r]
  BY DEF PutSchedule, Inv, TypeOK
<1>3. ASSUME NEW r \in Resource
      PROVE  DOMAIN week'[r] \subseteq 1..7 /\ \A d \in DOMAIN week'[r] : week'[r][d] \in Hours
  <2>1. DOMAIN week[r] \subseteq 1..7 /\ \A d \in DOMAIN week[r] : week[r][d] \in Hours
    BY DEF Inv, TypeOK
  <2>2. week'[r] = week[r] \/ week'[r] = With(week[r], day[2], day[3])
    BY <1>2
  <2> DEFINE f == week[r]
             g == week'[r]
  <2>. HIDE DEF f, g
  <2>3. DOMAIN g \subseteq DOMAIN f \cup {day[2]} /\ \A d \in DOMAIN g : g[d] \in Hours
    BY <1>1, <2>1, <2>2, HoursTyped DEF f, g
  <2>. QED  BY <1>1, <2>1, <2>3 DEF f, g
<1>4. TypeOK'
  BY <1>2, <1>3 DEF PutSchedule, Inv, TypeOK, Booked
<1>. QED  BY <1>4, OutsideInv DEF PutSchedule

LEMMA AddExceptionInv ==
  ASSUME Inv, NEW day \in ExceptionRequest, AddException(day)
  PROVE  Inv'
<1>1. day[1] \in Resource /\ day[2] \in Nat /\ day[3] \in Hours
  BY BookingAssumption
<1>2. /\ DOMAIN exception' = Resource
      /\ \A r \in Resource :
           exception'[r] = IF r = day[1] THEN With(exception[r], day[2], day[3]) ELSE exception[r]
  BY DEF AddException, Inv, TypeOK
<1>3. ASSUME NEW r \in Resource
      PROVE  \A d \in DOMAIN exception'[r] : exception'[r][d] \in Hours
  <2>1. \A d \in DOMAIN exception[r] : exception[r][d] \in Hours
    BY DEF Inv, TypeOK
  <2>2. exception'[r] = exception[r] \/ exception'[r] = With(exception[r], day[2], day[3])
    BY <1>2
  <2>. QED  BY <1>1, <2>1, <2>2, HoursTyped
<1>4. TypeOK'
  BY <1>2, <1>3 DEF AddException, Inv, TypeOK, Booked
<1>. QED  BY <1>4, OutsideInv DEF AddException

LEMMA TickInv ==
  ASSUME Inv, Tick
  PROVE  Inv'
<1>1. TypeOK'
  BY BookingAssumption DEF Tick, Inv, TypeOK, schedules, Booked
<1>. QED  BY <1>1, OutsideInv DEF Tick

-----------------------------------------------------------------------------
(* Days, hours and slots. *)

\* A time is so far into its day.
LEMMA DayOf ==
  ASSUME NEW t \in Nat
  PROVE  /\ DateOf(t) \in Nat /\ TimeOf(t) \in 0..DayLength-1
         /\ DateOf(t) * DayLength \in Nat /\ t = DateOf(t) * DayLength + TimeOf(t)
BY BookingAssumption DEF DateOf, TimeOf

LEMMA DateTyped ==
  ASSUME NEW t \in Nat
  PROVE  DateOf(t) \in Nat
BY DayOf

LEMMA LaterDay ==
  ASSUME NEW a \in Nat, NEW b \in Nat, a < b
  PROVE  a * DayLength + DayLength <= b * DayLength
<1> DEFINE k == b - a - 1
<1>1. k \in Nat /\ b = a + 1 + k /\ DayLength \in Nat
  BY BookingAssumption
<1> HIDE DEF k
<1>2. b * DayLength = a * DayLength + DayLength + k * DayLength
  BY <1>1
<1>3. k * DayLength \in Nat /\ a * DayLength \in Nat
  BY <1>1
<1>. QED  BY <1>1, <1>2, <1>3

\* A time within a day of a midnight has that date.
LEMMA WithinDay ==
  ASSUME NEW t \in Nat, NEW date \in Nat,
         date * DayLength <= t, t < date * DayLength + DayLength
  PROVE  DateOf(t) = date
<1>1. DateOf(t) \in Nat /\ DayLength \in Nat /\ date * DayLength \in Nat
      /\ DateOf(t) * DayLength \in Nat
      /\ DateOf(t) * DayLength <= t /\ t < DateOf(t) * DayLength + DayLength
  BY DayOf, BookingAssumption
<1>2. ~(DateOf(t) < date)
  <2>. SUFFICES ASSUME DateOf(t) < date  PROVE FALSE
    OBVIOUS
  <2>1. DateOf(t) * DayLength + DayLength <= date * DayLength
    BY <1>1, LaterDay
  <2>. QED  BY <1>1, <2>1
<1>3. ~(date < DateOf(t))
  <2>. SUFFICES ASSUME date < DateOf(t)  PROVE FALSE
    OBVIOUS
  <2>1. date * DayLength + DayLength <= DateOf(t) * DayLength
    BY <1>1, LaterDay
  <2>. QED  BY <1>1, <2>1
<1>. QED  BY <1>1, <1>2, <1>3

LEMMA HoursOfDay ==
  ASSUME TypeOK, NEW r \in Resource, NEW date
  PROVE  workingInterval(r, date) \in Hours
<1>1. 0 \in 0..DayLength-1 /\ DayLength - 1 \in 0..DayLength-1
  BY BookingAssumption
<1>2. WholeDay \in Hours /\ [WholeDay EXCEPT !.open = FALSE] \in Hours
  BY <1>1, Zenon DEF WholeDay, Hours
<1>. QED  BY <1>2 DEF TypeOK, workingInterval, HasException, DaySchedule

LEMMA ActiveIs ==
  ASSUME TypeOK, NEW b \in ActiveBookings
  PROVE  /\ booking[b].start \in Nat /\ booking[b].end \in Nat
         /\ booking[b].start < booking[b].end
BY DEF TypeOK, ActiveBookings, Booked, BookingRow

\* A slot lies between opening and closing time of its date.
LEMMA SlotIsOpen ==
  ASSUME TypeOK, NEW r \in Resource, NEW start \in Nat, NEW duration \in Nat \ {0},
         start \in Slots(r, DateOf(start), duration)
  PROVE  /\ workingInterval(r, DateOf(start)).open
         /\ within(workingInterval(r, DateOf(start)), start, start + duration)
         /\ DateOf(start + duration) = DateOf(start)
<1> DEFINE date == DateOf(start)
           hours == workingInterval(r, date)
           midnight == date * DayLength
           end == start + duration
<1>1. hours \in Hours
  BY HoursOfDay
<1>2. hours.from \in 0..DayLength-1 /\ hours.to \in 0..DayLength-1
  BY <1>1 DEF Hours
<1>3. date \in Nat /\ midnight \in Nat /\ start = midnight + TimeOf(start)
      /\ TimeOf(start) \in 0..DayLength-1 /\ DayLength \in Nat /\ end \in Nat
  BY DayOf, BookingAssumption
<1>4. hours.open /\ start \in midnight + hours.from .. midnight + hours.to - duration
  BY DEF Slots
<1> HIDE DEF date, hours, midnight
<1>5. hours.from <= TimeOf(start) /\ end <= midnight + hours.to
      /\ midnight <= end /\ end < midnight + DayLength
  BY <1>2, <1>3, <1>4
<1>6. DateOf(end) = date
  BY <1>3, <1>5, WithinDay DEF midnight
<1>7. end = midnight + TimeOf(end) /\ TimeOf(end) \in 0..DayLength-1
  BY <1>3, <1>6, DayOf DEF midnight
<1>8. TimeOf(end) <= hours.to
  BY <1>2, <1>3, <1>5, <1>7
<1>. QED  BY <1>4, <1>5, <1>6, <1>8 DEF within, date, hours

\* A booking in the way of a slot starts the day before, or earlier.
LEMMA SlotIsFree ==
  ASSUME TypeOK, NEW r \in Resource, NEW start \in Nat, NEW duration \in Nat \ {0},
         start \in Slots(r, DateOf(start), duration),
         NEW b \in ActiveBookings, r \in booking[b].resources,
         Intersects(booking[b].start, booking[b].end, start, start + duration)
  PROVE  DateOf(booking[b].start) < DateOf(start) /\ booking[b].end > start
<1> DEFINE date == DateOf(start)
           end == start + duration
           from == booking[b].start
           to == booking[b].end
<1>1. from \in Nat /\ to \in Nat /\ from < to
  BY ActiveIs
<1>2. from < end /\ to > start
  BY DEF Intersects
<1>3. date \in Nat /\ end \in Nat /\ DateOf(from) \in Nat
  BY <1>1, DateTyped
<1>4. DateOf(from) # date
  <2>. SUFFICES ASSUME DateOf(from) = date  PROVE FALSE
    OBVIOUS
  <2>1. <<from, to>> \in BusyIntervals(r, date)
    BY DEF BusyIntervals
  <2>2. ~(start < <<from, to>>[2] /\ start + duration > <<from, to>>[1])
    BY <2>1 DEF Slots
  <2>. QED  BY <1>1, <1>2, <1>3, <2>2
<1>5. ~(date < DateOf(from))
  <2>. SUFFICES ASSUME date < DateOf(from)  PROVE FALSE
    OBVIOUS
  <2>1. DateOf(end) = date
    BY SlotIsOpen
  <2>2. end < date * DayLength + DayLength /\ DateOf(from) * DayLength <= from
    <3>1. end = DateOf(end) * DayLength + TimeOf(end) /\ DateOf(end) * DayLength \in Nat
          /\ TimeOf(end) \in 0..DayLength-1
      BY <1>3, DayOf
    <3>2. from = DateOf(from) * DayLength + TimeOf(from) /\ DateOf(from) * DayLength \in Nat
          /\ TimeOf(from) \in 0..DayLength-1
      BY <1>1, DayOf
    <3>3. DayLength \in Nat
      BY BookingAssumption
    <3> HIDE DEF from, end
    <3>. QED  BY <2>1, <3>1, <3>2, <3>3
  <2>3. date * DayLength + DayLength <= DateOf(from) * DayLength
    BY <1>3, LaterDay
  <2>4. DateOf(from) * DayLength \in Nat /\ date * DayLength \in Nat /\ DayLength \in Nat
    BY <1>1, DayOf, BookingAssumption
  <2>. QED  BY <1>1, <1>2, <1>3, <2>2, <2>3, <2>4
<1>. QED  BY <1>2, <1>3, <1>4, <1>5

\* What Create accepts and ends on its date is offered, if it is a multiple of
\* Step from opening time.
LEMMA AcceptedIsSlot ==
  ASSUME TypeOK, NEW r \in Resource, NEW start \in Nat, NEW duration \in Nat \ {0},
         checkAvailability(r, start, start + duration),
         DateOf(start + duration) = DateOf(start),
         (TimeOf(start) - workingInterval(r, DateOf(start)).from) % Step = 0
  PROVE  start \in Slots(r, DateOf(start), duration)
<1> DEFINE date == DateOf(start)
           hours == workingInterval(r, date)
           midnight == date * DayLength
           end == start + duration
<1>1. hours \in Hours
  BY HoursOfDay
<1>2. hours.from \in 0..DayLength-1 /\ hours.to \in 0..DayLength-1 /\ DayLength \in Nat
  BY <1>1, BookingAssumption DEF Hours
<1>3. end \in Nat /\ midnight \in Nat
      /\ start = midnight + TimeOf(start) /\ TimeOf(start) \in 0..DayLength-1
      /\ end = midnight + TimeOf(end) /\ TimeOf(end) \in 0..DayLength-1
  BY DayOf
<1>4. hours.open /\ hours.from <= TimeOf(start) /\ TimeOf(end) <= hours.to
  BY DEF checkAvailability, within
<1>5. (TimeOf(start) - hours.from) % Step = 0
  OBVIOUS
<1>6. \A busy \in BusyIntervals(r, date) : ~(start < busy[2] /\ start + duration > busy[1])
  <2>. SUFFICES ASSUME NEW b \in ActiveBookings, r \in booking[b].resources
                PROVE  ~(start < booking[b].end /\ start + duration > booking[b].start)
    BY DEF BusyIntervals
  <2>1. ~Intersects(booking[b].start, booking[b].end, start, start + duration)
    BY DEF checkAvailability, Overlaps
  <2>2. booking[b].start \in Nat /\ booking[b].end \in Nat
    BY ActiveIs
  <2>. QED  BY <2>1, <2>2 DEF Intersects
<1> HIDE DEF hours, midnight
<1>7. start \in midnight + hours.from .. midnight + hours.to - duration
  BY <1>2, <1>3, <1>4
<1>8. start - midnight - hours.from = TimeOf(start) - hours.from
  BY <1>2, <1>3
<1>. QED  BY <1>4, <1>5, <1>6, <1>7, <1>8 DEF Slots, hours, midnight

-----------------------------------------------------------------------------
(* The theorems. *)

LEMMA InitInv == Init => Inv
<1>. SUFFICES ASSUME Init PROVE Inv
  OBVIOUS
<1>1. Booked = {}
  BY DEF Init, Booked
<1>2. TypeOK
  BY <1>1, NoTxTyped, BookingAssumption DEF Init, TypeOK
<1>3. Separated /\ \A s \in Session : Known(s) /\ Checked(s)
  BY <1>1, NoTxTyped DEF Init, Separated, Known, Checked
<1>. QED  BY <1>2, <1>3 DEF Inv

LEMMA NextInv ==
  ASSUME Inv, [Next]_vars
  PROVE  Inv'
<1>1. ASSUME NEW s \in Session, Handle(s) PROVE Inv'
  BY <1>1, InsertInv, RefuseInv, StoreStatusInv, CheckResourceInv DEF Handle
<1>2. CASE UNCHANGED vars
  BY <1>2, OutsideInv DEF vars, schedules, Inv, TypeOK, Booked
<1>. QED  BY <1>1, <1>2, PutScheduleInv, AddExceptionInv, CreateInv, SetStatusInv, FailInv, TickInv DEF Next

LEMMA InvHolds == Spec => []Inv
<1>1. Inv /\ [Next]_vars => Inv'
  BY NextInv
<1>. QED  BY InitInv, <1>1, PTL DEF Spec

\* Two bookings share a resource at the same time only if neither was in the
\* table when the other was checked (service/booking.go, Create).
THEOREM BookedOnceHolds == Spec => []BookedOnce
<1>1. ASSUME Inv PROVE BookedOnce
  <2>1. ASSUME NEW b \in ActiveBookings, NEW c \in ActiveBookings,
               NEW r \in booking[b].resources \cap booking[c].resources,
               b # c, booking[b].start < booking[c].end, booking[c].start < booking[b].end
        PROVE  <<r, b>> \notin booking[c].sees /\ <<r, c>> \notin booking[b].sees
    <3>1. /\ b \in Booked /\ c \in Booked /\ b \in BookingId /\ c \in BookingId
          /\ booking[b] \in BookingRow /\ booking[c] \in BookingRow
      BY <1>1 DEF ActiveBookings, Booked, Inv, TypeOK
    <3>2. /\ booking[b].start \in Nat /\ booking[b].end \in Nat
          /\ booking[c].start \in Nat /\ booking[c].end \in Nat /\ r \in Resource
      BY <3>1 DEF BookingRow
    <3>3. Takes(b, r, booking[c].start, booking[c].end) /\ Takes(c, r, booking[b].start, booking[b].end)
      BY <2>1, <3>2 DEF Takes, Intersects
    <3>. QED  BY <1>1, <3>1, <3>2, <3>3 DEF Inv, Separated
  <2>. QED  BY <1>1, <2>1 DEF BookedOnce, Inv
<1>. QED  BY InvHolds, <1>1, PTL

\* SlotsAreBookable (service/booking.go, Slots and Create): the starts the calendar
\* offers for a resource and those Create accepts agree, in every state, except
\* for starts that are past and where a booking of an earlier day runs past midnight.
THEOREM SlotsAreBookableHolds == Spec => []SlotsAreBookable
<1>1. TypeOK => SlotsAreBookable
  <2>. SUFFICES ASSUME TypeOK, NEW r \in Resource, NEW request \in BookingRequest
                PROVE  LET date == DateOf(request.start)
                           start == request.start
                           end == End(request)
                           accepted == ~InPast(start) /\ checkAvailability(r, start, end)
                           offered == start \in Slots(r, date, request.duration)
                           fromBefore == \E b \in ActiveBookings :
                             /\ r \in booking[b].resources
                             /\ DateOf(booking[b].start) < date /\ booking[b].end > start
                           aligned == (TimeOf(start) - workingInterval(r, date).from) % Step = 0
                       IN  /\ offered => accepted \/ InPast(start) \/ fromBefore
                           /\ accepted /\ aligned /\ DateOf(end) = date => offered
    BY DEF SlotsAreBookable
  <2> DEFINE start == request.start
             duration == request.duration
  <2>1. start \in Nat /\ duration \in Nat \ {0} /\ End(request) = start + duration
    BY BookingAssumption DEF End
  <2> HIDE DEF start, duration
  <2>2. ASSUME start \in Slots(r, DateOf(start), duration),
               ~checkAvailability(r, start, start + duration)
        PROVE  \E b \in ActiveBookings :
                 /\ r \in booking[b].resources
                 /\ DateOf(booking[b].start) < DateOf(start) /\ booking[b].end > start
    <3>1. Overlaps(r, start, start + duration)
      BY <2>1, <2>2, SlotIsOpen DEF checkAvailability
    <3>2. PICK b \in ActiveBookings :
            /\ r \in booking[b].resources
            /\ Intersects(booking[b].start, booking[b].end, start, start + duration)
      BY <3>1 DEF Overlaps
    <3>. QED  BY <2>1, <2>2, <3>2, SlotIsFree
  <2>3. ASSUME checkAvailability(r, start, start + duration),
               DateOf(start + duration) = DateOf(start),
               (TimeOf(start) - workingInterval(r, DateOf(start)).from) % Step = 0
        PROVE  start \in Slots(r, DateOf(start), duration)
    BY <2>1, <2>3, AcceptedIsSlot
  <2>. QED  BY <2>1, <2>2, <2>3 DEF start, duration
<1>2. Spec => []TypeOK
  BY InvHolds DEF Inv
<1>. QED  BY <1>1, <1>2, PTL

\* Nothing but a transition of the map changes the status of a booking, however
\* requests overlap: SetStatus reads it under the lock it writes with.
THEOREM BookingsMoveOn == Spec => StatusMovesOn
<1> DEFINE Moved == \A b \in Booked :
                      booking'[b].status \in {booking[b].status} \cup bookingTransitions[booking[b].status]
<1>1. ASSUME Inv, [Next]_vars PROVE [Moved]_vars
  <2>1. ASSUME NEW s \in Session, Insert(s) PROVE Moved
    BY <2>1, <1>1 DEF Insert, Inv, TypeOK
  <2>2. ASSUME NEW s \in Session, StoreStatus(s) PROVE Moved
    <3> DEFINE b == tx[s].booking
    <3>1. /\ b \in Booked /\ tx[s].to \in bookingTransitions[booking[b].status]
          /\ booking' = [booking EXCEPT ![b].status = tx[s].to]
      BY <1>1, <2>2, StoreStatusChanges
    <3>2. booking'[b].status = tx[s].to /\ \A c \in BookingId \ {b} : booking'[c] = booking[c]
      BY <1>1, <3>1, StatusKept DEF Inv
    <3>. QED  BY <3>1, <3>2 DEF Booked
  <2>3. CASE booking' = booking
    BY <2>3
  <2>4. booking' = booking \/ \E s \in Session : Insert(s) \/ StoreStatus(s)
    BY <1>1 DEF Next, vars, PutSchedule, AddException, Create, SetStatus, Handle, Refuse,
                CheckResource, Fail, Tick
  <2>. QED  BY <2>1, <2>2, <2>3, <2>4
<1>. QED  BY InvHolds, <1>1, PTL DEF Spec, StatusMovesOn

-----------------------------------------------------------------------------
(* The reminders: a booking is reminded of once, and once more for each stop *)
(* of the process and each failed UPDATE of its flag.                        *)

Count(b) == reminders[b] + unstored[b]
Excuses(b) == crashes + unflagged[b]

\* One reminder is owed to the flag, or to the UPDATE that sets it; each of the
\* others to a stop or a failed UPDATE.  What the worker has still to handle has
\* no flag.
Accounted ==
  /\ reminders \in [BookingId -> Nat] /\ unstored \in [BookingId -> Nat]
  /\ unflagged \in [BookingId -> Nat] /\ crashes \in Nat
  /\ \A b, c \in pending : b = c
  /\ pending \subseteq list /\ list \subseteq BookingId /\ list \cap notification_sent = {}
  /\ \A b \in BookingId :
       /\ Count(b) <= Excuses(b) + 1
       /\ b \notin notification_sent \cup pending => Count(b) <= Excuses(b)

LEMMA QueueReminderAccounted ==
  ASSUME Accounted, NEW b \in BookingId, NEW stored \in BOOLEAN, QueueReminder(b, stored)
  PROVE  Accounted'
<1>1. /\ b \in list /\ b \notin notification_sent /\ pending = {} /\ pending' = {b}
      /\ UNCHANGED <<notification_sent, list, crashes, unflagged>>
  BY DEF QueueReminder, Accounted
<1>2. /\ reminders' \in [BookingId -> Nat] /\ unstored' \in [BookingId -> Nat]
      /\ Count(b)' = Count(b) + 1 /\ \A c \in BookingId \ {b} : Count(c)' = Count(c)
  <2>1. CASE stored
    BY <2>1 DEF QueueReminder, Accounted, Count
  <2>2. CASE ~stored
    BY <2>2 DEF QueueReminder, Accounted, Count
  <2>. QED  BY <2>1, <2>2
<1>3. \A c \in BookingId : Count(c) \in Nat /\ Excuses(c) \in Nat /\ Excuses(c)' = Excuses(c)
  BY <1>1 DEF Accounted, Count, Excuses
<1>4. Count(b)' <= Excuses(b) + 1
  BY <1>1, <1>2, <1>3 DEF Accounted
<1>. QED  BY <1>1, <1>2, <1>3, <1>4 DEF Accounted

LEMMA FlagRemindedAccounted ==
  ASSUME Accounted, NEW b \in BookingId, FlagReminded(b)
  PROVE  Accounted'
<1>1. \A c \in BookingId : Count(c)' = Count(c) /\ Excuses(c)' = Excuses(c)
  BY DEF FlagReminded, Count, Excuses
<1>2. /\ pending' = {} /\ notification_sent \cup pending \subseteq notification_sent'
      /\ UNCHANGED <<reminders, unstored, unflagged, crashes>>
  BY DEF FlagReminded, Handled, Accounted
<1>3. list' \subseteq BookingId /\ list' \cap notification_sent' = {}
  BY DEF FlagReminded, Handled, Accounted
<1>. QED  BY <1>1, <1>2, <1>3 DEF Accounted

LEMMA FlagFailsAccounted ==
  ASSUME Accounted, NEW b \in BookingId, FlagFails(b)
  PROVE  Accounted'
<1>1. /\ pending \subseteq {b} /\ pending' = {} /\ list' \subseteq list
      /\ unflagged' = [unflagged EXCEPT ![b] = @ + 1]
      /\ UNCHANGED <<notification_sent, reminders, unstored, crashes>>
  BY DEF FlagFails, Handled, Accounted, remindTables
<1>2. /\ unflagged' \in [BookingId -> Nat] /\ Excuses(b)' = Excuses(b) + 1
      /\ \A c \in BookingId \ {b} : Excuses(c)' = Excuses(c)
  BY <1>1 DEF Accounted, Excuses
<1>3. \A c \in BookingId : Count(c)' = Count(c) /\ Count(c) \in Nat /\ Excuses(c) \in Nat
  BY <1>1 DEF Accounted, Count, Excuses
<1>4. \A c \in BookingId : /\ Count(c) <= Excuses(c)' + 1
                           /\ c \notin notification_sent => Count(c) <= Excuses(c)'
  BY <1>1, <1>2, <1>3 DEF Accounted
<1>. QED  BY <1>1, <1>2, <1>3, <1>4 DEF Accounted

LEMMA CrashAccounted ==
  ASSUME Accounted, Crash
  PROVE  Accounted'
<1>1. \A c \in BookingId : /\ Count(c)' = Count(c) /\ Count(c) \in Nat
                           /\ Excuses(c)' = Excuses(c) + 1 /\ Excuses(c) \in Nat
  BY DEF Crash, remindTables, Count, Excuses, Accounted
<1>2. \A c \in BookingId : Count(c)' <= Excuses(c)' /\ Count(c)' <= Excuses(c)' + 1
  BY <1>1 DEF Accounted
<1>. QED  BY <1>2 DEF Crash, remindTables, Accounted

\* The creator of a booking is none of the worker's counts.
LEMMA AsideAccounted ==
  ASSUME Accounted,
         UNCHANGED <<notification_sent, reminders, list, pending, crashes, unstored, unflagged>>
  PROVE  Accounted'
BY DEF Accounted, Count, Excuses

LEMMA AccountedHolds == RemindSpec => []Accounted
<1>1. RemindInit => Accounted
  BY DEF RemindInit, Accounted, Count, Excuses
<1>2. ASSUME Accounted, [RemindNext]_remindVars PROVE Accounted'
  <2>1. CASE UNCHANGED worker \/ \E b \in BookingId : DropCreator(b)
    BY <1>2, <2>1, AsideAccounted DEF worker, remindTables, DropCreator
  <2>2. CASE remindDue
    <3>1. list' \subseteq BookingId /\ list' \cap notification_sent = {} /\ list = {}
      BY <2>2 DEF remindDue, DueBookings, Due
    <3>. QED  BY <1>2, <2>2, <3>1 DEF remindDue, remindTables, Accounted, Count, Excuses
  <2>3. CASE Crash
    BY <1>2, <2>3, CrashAccounted
  <2>4. ASSUME NEW b \in BookingId, NEW stored \in BOOLEAN, QueueReminder(b, stored) PROVE Accounted'
    BY <1>2, <2>4, QueueReminderAccounted
  <2>5. ASSUME NEW b \in BookingId, Flag(b) PROVE Accounted'
    BY <1>2, <2>5, FlagRemindedAccounted, FlagFailsAccounted DEF Flag
  <2>. QED  BY <1>2, <2>1, <2>2, <2>3, <2>4, <2>5 DEF RemindNext, Remind, remindVars
<1>3. Accounted /\ [RemindNext]_remindVars => Accounted'
  BY <1>2
<1>. QED  BY <1>1, <1>3, PTL DEF RemindSpec

\* RemindedOnce (booking/remind.go), for any number of bookings: a reminder is
\* queued once, and once more for each stop and each failed UPDATE, since the flag
\* is set in a transaction after that of the reminder.
THEOREM RemindersAreBounded == RemindSpec => []RemindedOnce
<1>1. ASSUME Accounted PROVE RemindedOnce
  <2>1. \A b \in BookingId : crashes \in Nat /\ unflagged[b] \in Nat
    BY <1>1 DEF Accounted
  <2>. QED  BY <1>1, <2>1 DEF Accounted, RemindedOnce, Count, Excuses
<1>. QED  BY AccountedHolds, <1>1, PTL

=============================================================================
