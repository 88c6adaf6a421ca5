---------------------------- MODULE MCSendQueue ----------------------------
(***************************************************************************)
(* Small instances of a send queue.                                        *)
(***************************************************************************)
EXTENDS SendQueueProperties

CONSTANTS a, b

OneOrg == [j \in Job |-> a]
TwoOrgs == [j \in Job |-> IF j = 1 THEN a ELSE b]

=============================================================================
