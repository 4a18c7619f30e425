---------------------------- MODULE EventContract ----------------------------
(***************************************************************************)
(* What event delivery promises for each event a transaction committed:    *)
(* its consumer's claim completes at most once and stays completed; until  *)
(* then the event is either on its way or parked as a dead letter, from    *)
(* where an operator can return it.  A run started before the event was    *)
(* parked may still complete it.                                           *)
(***************************************************************************)
CONSTANTS Events
VARIABLES phase   \* phase[e]: where e is

Phases == {"absent", "committed", "parked", "completed"}

Init == phase = [e \in Events |-> "absent"]

Move(e, from, to) ==
    /\ phase[e] \in from
    /\ phase' = [phase EXCEPT ![e] = to]

CommitEvent(e)   == Move(e, {"absent"}, "committed")
CompleteEvent(e) == Move(e, {"committed", "parked"}, "completed")
ParkEvent(e)     == Move(e, {"committed"}, "parked")
ReturnEvent(e)   == Move(e, {"parked"}, "committed")

Next == \E e \in Events :
    CommitEvent(e) \/ CompleteEvent(e) \/ ParkEvent(e) \/ ReturnEvent(e)

Spec == Init /\ [][Next]_phase
=============================================================================
