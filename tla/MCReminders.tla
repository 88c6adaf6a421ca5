----------------------------- MODULE MCReminders -----------------------------
(***************************************************************************)
(* Two bookings on days of four units, a window of two, one user.          *)
(***************************************************************************)
EXTENDS Reminders

CONSTANTS r1

MCRequests == {[resources |-> {r1}, start |-> start, duration |-> 1] : start \in {2, 3}}

=============================================================================
