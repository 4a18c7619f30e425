----------------------------- MODULE EventInbox -----------------------------
(***************************************************************************)
(* The event inbox: one row of event_inbox per idempotency key, and the    *)
(* statements PostgresEventInbox runs.  A consumer claims a key before it  *)
(* handles the event, and completes or releases the claim by the token the *)
(* claim returned.                                                         *)
(*                                                                         *)
(* Every claim draws a fresh random token.  Here the token is the number   *)
(* of the claim, which is as fresh; NoToken is SQL's null.  The outbox's   *)
(* unique idempotency key gives each key one event, so a key is named by   *)
(* its event.                                                              *)
(***************************************************************************)
EXTENDS Integers

CONSTANTS Events

VARIABLES inbox   \* inbox[e]: the event_inbox row for e's idempotency key

NoToken == 0

InboxRow == [status    : {"none", "processing", "completed"},
             token     : Nat,
             leaseOver : BOOLEAN,
             claims    : Nat]

InboxTypeOK == inbox \in [Events -> InboxRow]

InboxInit ==
    inbox = [e \in Events |->
               [status |-> "none", token |-> NoToken, leaseOver |-> FALSE, claims |-> 0]]

-----------------------------------------------------------------------------
\* Defect: the takeover tests the lease but not the status.
ClaimableAgain(e) == inbox[e].status = "none" \/ inbox[e].token = NoToken \/ inbox[e].leaseOver

\* The insert finds no row, or takes over one still processing whose lease is
\* over (a release leaves the lease over).
Claimable(e) ==
    \/ inbox[e].status = "none"
    \/ inbox[e].status = "processing" /\ inbox[e].leaseOver

Claimed(e) == inbox[e].claims + 1   \* the token the next claim of e returns

Claim(e) ==
    /\ Claimable(e)
    /\ inbox' = [inbox EXCEPT ![e] = [status    |-> "processing",
                                      token     |-> Claimed(e),
                                      leaseOver |-> FALSE,
                                      claims    |-> @.claims + 1]]

\* Defect: the claim is settled without comparing its token.
HoldsAnyToken(e, token) == inbox[e].status = "processing"

\* complete and release change the row only for the token that holds it, even
\* if its lease is over; otherwise they throw.
Holds(e, token) == inbox[e].status = "processing" /\ inbox[e].token = token

Complete(e, token) ==
    /\ Holds(e, token)
    /\ inbox' = [inbox EXCEPT ![e] = [@ EXCEPT !.status = "completed",
                                               !.token = NoToken, !.leaseOver = FALSE]]

Release(e, token) ==
    /\ Holds(e, token)
    /\ inbox' = [inbox EXCEPT ![e] = [@ EXCEPT !.token = NoToken, !.leaseOver = TRUE]]

\* Time passes leased_until.
ClaimRunsOut(e) ==
    /\ inbox[e].status = "processing" /\ ~inbox[e].leaseOver
    /\ inbox' = [inbox EXCEPT ![e].leaseOver = TRUE]
=============================================================================
