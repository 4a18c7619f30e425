--------------------------- MODULE BillingContract ---------------------------
(***************************************************************************)
(* What billing reconciliation promises to an organization: the state that *)
(* stands for it only moves to newer state of the same subscription, or to *)
(* a subscription that never stood before; and a notification is settled   *)
(* by state at least as new as the one it announced, or dismissed because  *)
(* its subscription may not stand (replaced, or of no known organization). *)
(***************************************************************************)
EXTENDS Naturals

CONSTANTS Events, Subscriptions, Orgs, Nothing

VARIABLES
    about,     \* about[e]: the subscription and version e announced
    answer,    \* answer[e]: whether e was asked for and settled
    standing,  \* standing[o]: the subscription and version that stand for o
    retired    \* the subscriptions that no longer stand

contractVars == <<about, answer, standing, retired>>

Nowhere == [sub |-> Nothing, version |-> 0]

Init ==
    /\ about = [e \in Events |-> Nowhere]
    /\ answer = [e \in Events |-> "unseen"]
    /\ standing = [o \in Orgs |-> Nowhere]
    /\ retired = {}

Announce(e) ==
    /\ about[e] = Nowhere
    /\ \E s \in Subscriptions :
         about' = [about EXCEPT ![e] = [sub |-> s, version |-> e]]
    /\ UNCHANGED <<answer, standing, retired>>

Ask(e) ==
    /\ about[e] # Nowhere /\ answer[e] = "unseen"
    /\ answer' = [answer EXCEPT ![e] = "open"]
    /\ UNCHANGED <<about, standing, retired>>

Settle(s, settled) ==
    /\ \A e \in settled : about[e].sub = s /\ answer[e] = "open"
    /\ answer' = [e \in Events |-> IF e \in settled THEN "settled" ELSE answer[e]]

Confirm(o, s, settled) == LET v == standing'[o].version IN
    /\ s \notin retired
    /\ standing[o].sub = s => v >= standing[o].version
    /\ \A other \in Orgs \ {o} : standing[other].sub # s
    /\ \A e \in settled : about[e].version <= v
    /\ Settle(s, settled)
    /\ standing' = [standing EXCEPT ![o] = [sub |-> s, version |-> v]]
    /\ retired' = retired \cup ({standing[o].sub} \ {s, Nothing})
    /\ UNCHANGED about

Dismiss(s, settled) ==
    /\ Settle(s, settled)
    /\ UNCHANGED <<about, standing, retired>>

Next ==
    \/ \E e \in Events : Announce(e) \/ Ask(e)
    \/ \E s \in Subscriptions, settled \in SUBSET Events :
         \/ Dismiss(s, settled)
         \/ \E o \in Orgs : Confirm(o, s, settled)

Spec == Init /\ [][Next]_contractVars
=============================================================================
