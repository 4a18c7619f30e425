--------------------------- MODULE SequenceContract ---------------------------
(***************************************************************************)
(* What an email sequence promises its recipients: one active run each,    *)
(* which goes through the steps in order and ends once; each email at most *)
(* once, of a send that began while the run was active and at that step,   *)
(* with the wait ahead of it over, and that then found the address not     *)
(* suppressed.  A send that got this far may end after its run has moved   *)
(* on, ended or been suppressed.                                           *)
(***************************************************************************)
EXTENDS Naturals, Sequences

CONSTANTS
    Runs,
    Users,
    UserOf,    \* UserOf[r]: the recipient of r
    Steps      \* the sequence: "wait" and "send"

VARIABLES
    standing,  \* standing[r]: the status of r and the step it is at
    sent,      \* sent[r]: the steps whose email went out
    over,      \* over[r]: the steps at which r has waited long enough
    suppressed,\* users whose address is suppressed
    underway   \* sends begun: of which run and step, and whether the address was clear

contractVars == <<standing, sent, over, suppressed, underway>>

Init ==
    /\ standing = [r \in Runs |-> [status |-> "none", step |-> 0]]
    /\ sent = [r \in Runs |-> {}] /\ over = sent
    /\ suppressed = {} /\ underway = {}

Active(r) == standing[r].status = "active"
Rested(r, i) == i > 0 /\ Steps[i] = "wait" => i \in over[r]
Becomes(r, status, step) == standing' = [standing EXCEPT ![r] = [status |-> status, step |-> step]]

Start(r) ==
    /\ standing[r].status = "none"
    /\ \A s \in Runs : UserOf[s] = UserOf[r] => ~Active(s)
    /\ Becomes(r, "active", standing[r].step)
    /\ UNCHANGED <<sent, over, suppressed, underway>>

WaitEnds(r) ==
    /\ Active(r)
    /\ over' = [over EXCEPT ![r] = @ \cup {standing[r].step}]
    /\ UNCHANGED <<standing, sent, suppressed, underway>>

Begin(r) ==
    LET i == standing[r].step
    IN  /\ Active(r)
        /\ Steps[i + 1] = "send" /\ Rested(r, i)
        /\ underway' = underway \cup {[run |-> r, step |-> i, cleared |-> FALSE]}
        /\ UNCHANGED <<standing, sent, over, suppressed>>

\* Another send of the same step may stay behind in the state this one leaves.
Leaves(k, into) == underway' \in {underway \cup into, (underway \ {k}) \cup into}

Clear(k) ==
    /\ ~k.cleared /\ UserOf[k.run] \notin suppressed
    /\ Leaves(k, {[k EXCEPT !.cleared = TRUE]})
    /\ UNCHANGED <<standing, sent, over, suppressed>>

Email(k) ==
    /\ k.cleared
    /\ sent' = [sent EXCEPT ![k.run] = @ \cup {k.step}]
    /\ Leaves(k, {})
    /\ UNCHANGED <<standing, over, suppressed>>

\* A send that is skipped, rejected or given up.
Drop(k) ==
    /\ Leaves(k, {})
    /\ UNCHANGED <<standing, sent, over, suppressed>>

\* A send the run goes on from went out, or was skipped.
Advance(r) ==
    LET next == standing[r].step + 1
    IN  /\ Active(r)
        /\ Steps[next] = "send" => Rested(r, standing[r].step)
        /\ Becomes(r, IF next = Len(Steps) THEN "completed" ELSE "active", next)
        /\ UNCHANGED <<sent, over, suppressed, underway>>

End(r, status) ==
    /\ Active(r)
    /\ Becomes(r, status, standing[r].step)
    /\ UNCHANGED <<sent, over, suppressed, underway>>

Suppress(u) ==
    /\ suppressed' = suppressed \cup {u}
    /\ UNCHANGED <<standing, sent, over, underway>>

Next ==
    \/ \E r \in Runs :
         \/ Start(r) \/ WaitEnds(r) \/ Begin(r) \/ Advance(r)
         \/ \E status \in {"exited", "failed"} : End(r, status)
    \/ \E k \in underway : Clear(k) \/ Email(k) \/ Drop(k)
    \/ \E u \in Users : Suppress(u)

Spec == Init /\ [][Next]_contractVars
=============================================================================
