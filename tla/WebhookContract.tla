--------------------------- MODULE WebhookContract ---------------------------
(***************************************************************************)
(* What webhook delivery promises of each delivery: it is attempted only   *)
(* while it is due and there is room at the tenant and at its endpoint, at *)
(* most MaxAttempts answers are taken from the endpoint, with a rest after *)
(* each that asks for another, and what ended never moves again.  An       *)
(* operator may replay an original that failed, one replay at a time.      *)
(***************************************************************************)
EXTENDS Naturals, FiniteSets

CONSTANTS
    Deliveries,
    Originals,   \* those that are <<message, endpoint>> pairs; the others are replays
    MaxAttempts,
    MaxTenant,
    MaxEndpoint,
    Nothing

VARIABLES
    standing,  \* standing[d]: the phase d is in, and how many answers it had
    origin     \* origin[d]: the original d is, or replays

contractVars == <<standing, origin>>

Open == {"waiting", "resting", "attempting"}
Phase(d) == standing[d].phase

Init ==
    /\ standing = [d \in Deliveries |-> [phase |-> "absent", tries |-> 0]]
    /\ origin = [d \in Deliveries |-> IF d \in Originals THEN d ELSE Nothing]

\* Only deliveries of D move, each from a phase of from to a phase of to.
Move(D, from, to) ==
    /\ origin' = origin
    /\ standing' = [d \in Deliveries |->
         IF d \in D /\ Phase(d) \in from /\ standing'[d].phase \in to
         THEN [standing[d] EXCEPT !.phase = standing'[d].phase] ELSE standing[d]]

Create == Move(Originals, {"absent"}, {"waiting"})

\* The payload is erased or the event is past its window; no attempt under way
\* is cut short.
Stop == Move(Deliveries, {"waiting", "resting"}, {"dead", "exhausted"})

\* A rest is over, or whoever attempted d is late.
ComesDue(d) == Move({d}, {"resting", "attempting"}, {"waiting"})

Attempted == {d \in Deliveries : Phase(d) = "attempting"}

Attempt(d) ==
    /\ Move({d}, {"waiting"}, {"attempting"})
    /\ Cardinality(Attempted) < MaxTenant
    /\ Cardinality({e \in Attempted : origin[e][2] = origin[d][2]}) < MaxEndpoint

Answer(d) ==
    /\ Phase(d) = "attempting"
    /\ LET tries == standing[d].tries + 1 IN
         /\ tries <= MaxAttempts
         /\ \E phase \in {"succeeded", "dead", IF tries = MaxAttempts THEN "exhausted" ELSE "resting"} :
              standing' = [standing EXCEPT ![d] = [phase |-> phase, tries |-> tries]]
    /\ UNCHANGED origin

Replay(r, d) ==
    /\ Phase(r) = "absent" /\ Phase(d) \in {"dead", "exhausted"}
    /\ \A q \in Deliveries \ {d} : origin[q] = d => Phase(q) \notin Open
    /\ standing' = [standing EXCEPT ![r].phase = "waiting"]
    /\ origin' = [origin EXCEPT ![r] = d]

Next ==
    \/ Create \/ Stop
    \/ \E d \in Deliveries : ComesDue(d) \/ Attempt(d) \/ Answer(d)
    \/ \E r \in Deliveries \ Originals, d \in Originals : Replay(r, d)

Spec == Init /\ [][Next]_contractVars
=============================================================================
