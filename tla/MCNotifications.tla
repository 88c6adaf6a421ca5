--------------------------- MODULE MCNotifications ---------------------------
(***************************************************************************)
(* A small instance of the notifications: two organizations, of which one  *)
(* is more urgent, and a batch smaller than the queue.                     *)
(***************************************************************************)
EXTENDS NotificationsProperties

CONSTANTS o1, o2, u1

MCMessages == {[org |-> o1, user |-> u1, channels |-> {"WEB", "EMAIL"}, priority |-> 1],
               [org |-> o2, user |-> u1, channels |-> {"EMAIL"}, priority |-> 2]}

MCPreferences == {<<u1, "EMAIL", FALSE>>, <<u1, "EMAIL", TRUE>>}
MCPatches == {<<o2, FALSE, 0>>, <<o2, TRUE, 0>>, <<o2, TRUE, 1>>}

=============================================================================
