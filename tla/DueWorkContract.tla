--------------------------- MODULE DueWorkContract ---------------------------
(***************************************************************************)
(* What the due-time scheduler promises for each key of future work: what  *)
(* is pending for it only moves to an earlier time, and leaves only by     *)
(* being started, never before its time.  How the alarm is set, which keys *)
(* one alarm takes, and what a death of the object repeats are its own     *)
(* affair.                                                                 *)
(***************************************************************************)
EXTENDS Naturals

CONSTANTS Keys, Never

VARIABLES
    clock,   \* the time
    pending  \* pending[k]: when k's work is due, Never if it has none

contractVars == <<clock, pending>>

Init ==
    /\ clock = 0
    /\ pending = [k \in Keys |-> Never]

Pass ==
    /\ clock' = clock + 1
    /\ UNCHANGED pending

\* A caller, or a run, asks for some keys at some times.
Ask ==
    /\ pending' \in [Keys -> Nat]
    /\ \A k \in Keys : pending'[k] <= pending[k]
    /\ UNCHANGED clock

Start(k) ==
    /\ pending[k] <= clock
    /\ pending' = [pending EXCEPT ![k] = Never]
    /\ UNCHANGED clock

Next == Pass \/ Ask \/ \E k \in Keys : Start(k)

Spec == Init /\ [][Next]_contractVars
=============================================================================
