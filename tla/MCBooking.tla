------------------------------ MODULE MCBooking ------------------------------
(***************************************************************************)
(* A small instance of the bookings: days of four units, of which the last *)
(* is 23:59, two resources, and requests that touch, overlap, run past     *)
(* midnight, and whose time passes.                                        *)
(***************************************************************************)
EXTENDS BookingProperties, TLC

CONSTANTS r1, r2

Request(resources, start, duration) ==
  [resources |-> resources, start |-> start, duration |-> duration]

\* Late runs past midnight, Early begins the day after, Both needs both resources.
MCRequests == {Request({r1, r2}, 2, 1), Request({r1}, 1, 1), Request({r1}, 2, 3), Request({r1}, 4, 1)}

Open(from, to) == [from |-> from, to |-> to, open |-> TRUE]
MCWeek == {<<r1, 1, Open(1, 3)>>}
MCExceptions == {<<r2, 0, [WholeDay EXCEPT !.open = FALSE]>>}

MCSymmetry == Permutations(Session)

=============================================================================
