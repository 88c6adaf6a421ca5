-------------------------- MODULE BookingProperties --------------------------
(***************************************************************************)
(* What bookings, resources and slots keep between them.                   *)
(***************************************************************************)
EXTENDS Booking

\* Every variable keeps its shape, and every booking takes time
\* (service/booking.go and its tables).
TypeOK ==
  /\ booking \in [BookingId -> BookingRow \cup {None}]
  /\ \A b \in Booked : booking[b].start < booking[b].end
  /\ DOMAIN week = Resource /\ DOMAIN exception = Resource
  /\ \A r \in Resource : /\ DOMAIN week[r] \subseteq 1..7
                         /\ \A d \in DOMAIN week[r] : week[r][d] \in Hours
                         /\ \A d \in DOMAIN exception[r] : exception[r][d] \in Hours
  /\ now \in 0..MaxTime
  /\ bookingOwner \in [BookingId -> Session \cup {NoSession}]
  /\ tx \in [Session -> Tx]

\* Two bookings that are not over share a resource at the same time only if
\* each was checked before the other was in the table: Overlaps, without a
\* lock, keeps all but overlapping requests apart.
BookedOnce ==
  TypeOK /\ \A b, c \in ActiveBookings : \A r \in booking[b].resources \cap booking[c].resources :
    b # c /\ booking[b].start < booking[c].end /\ booking[c].start < booking[b].end
      => <<r, b>> \notin booking[c].sees /\ <<r, c>> \notin booking[b].sees

\* The slots of a resource (service/booking.go, Slots) are those at which Create
\* accepts it, with two exceptions.  Slots offers starts that are past, which
\* Create refuses; and it looks at the bookings that start on the date, Create at
\* all, those that run past midnight included.
SlotsAreBookable ==
  \A r \in Resource, request \in BookingRequest :
    LET date == DateOf(request.start)
        start == request.start
        end == End(request)
        accepted == ~InPast(start) /\ checkAvailability(r, start, end)
        offered == start \in Slots(r, date, request.duration)
        fromBefore == \E b \in ActiveBookings :
          r \in booking[b].resources /\ DateOf(booking[b].start) < date /\ booking[b].end > start
        aligned == (TimeOf(start) - workingInterval(r, date).from) % Step = 0
    IN
    /\ offered => accepted \/ InPast(start) \/ fromBefore
    /\ accepted /\ aligned /\ DateOf(end) = date => offered

\* A booking moves along the map of transitions; one that is COMPLETED,
\* CANCELED or NO_SHOW never changes its status, whatever requests overlap.
StatusMovesOn ==
  [][\A b \in Booked : booking'[b].status \in {booking[b].status}
                                                \cup bookingTransitions[booking[b].status]]_vars

=============================================================================
