---------------------------- MODULE AtLeastOnce ----------------------------
(***************************************************************************)
(* What a send queue promises: a job that is done was accepted by the      *)
(* provider at least once, and a job that waits is done or given up in the *)
(* end.  It does not promise that a job given up was not accepted, nor     *)
(* that a job is accepted only once.                                       *)
(***************************************************************************)
CONSTANT Job
VARIABLES state, accepted

Init == state = [j \in Job |-> "absent"] /\ accepted = {}

Enqueue(j) ==
  state[j] = "absent" /\ state' = [state EXCEPT ![j] = "waiting"] /\ UNCHANGED accepted

Accept(j) == state[j] = "waiting" /\ accepted' = accepted \cup {j} /\ UNCHANGED state

Finish(j) ==
  /\ state[j] = "waiting" /\ j \in accepted
  /\ state' = [state EXCEPT ![j] = "done"] /\ UNCHANGED accepted

GiveUp(j) ==
  state[j] = "waiting" /\ state' = [state EXCEPT ![j] = "failed"] /\ UNCHANGED accepted

Next == \E j \in Job : Enqueue(j) \/ Accept(j) \/ Finish(j) \/ GiveUp(j)

vars == <<state, accepted>>
Safety == Init /\ [][Next]_vars
Spec == Safety /\ \A j \in Job : WF_vars(Finish(j) \/ GiveUp(j))

=============================================================================
