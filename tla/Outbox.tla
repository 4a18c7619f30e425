------------------------------- MODULE Outbox -------------------------------
(***************************************************************************)
(* The transactional outbox: the rows of outbox_message and the statements *)
(* PostgresOutboxStore runs against them.  Each statement is one SQL       *)
(* statement (or one transaction), so each is one action.                  *)
(*                                                                         *)
(* A row keeps what the statements test: its status, the attempts counter  *)
(* that is also the dispatch generation, and whether its lease has run     *)
(* out.  Clock readings are abstracted: a backoff or a lease may end at    *)
(* any moment, which covers every real schedule.                           *)
(*                                                                         *)
(* Spec lets clients issue the statements in any order and at any time.    *)
(* A client is not required to hold the lease it settles, because the      *)
(* store does not ask for one: succeed and fail take only the row's id.    *)
(***************************************************************************)
EXTENDS Integers, FiniteSets

CONSTANTS
    Events,       \* the events a transaction may commit
    MaxAttempts,  \* dispatch failures before a row is dead-lettered
    MaxRedrives   \* bound: operator redrives of one row

ASSUME OutboxAssumption ==
    /\ MaxAttempts \in Nat \ {0}
    /\ MaxRedrives \in Nat

VARIABLES
    row,       \* row[e]: the outbox_message row of event e
    redrives   \* redrives[e]: how often an operator redrove e

outboxVars == <<row, redrives>>

Statuses == {"absent", "pending", "leased", "succeeded", "dead", "pruned"}
Row == [status : Statuses, attempts : Nat, leaseOver : BOOLEAN]

OutboxTypeOK ==
    /\ row \in [Events -> Row]
    /\ redrives \in [Events -> 0..MaxRedrives]

OutboxInit ==
    /\ row = [e \in Events |-> [status |-> "absent", attempts |-> 0, leaseOver |-> FALSE]]
    /\ redrives = [e \in Events |-> 0]

InStatus(e, statuses) == row[e].status \in statuses

\* Defect: an expired lease is never taken over.
LeasablePendingOnly(e) == InStatus(e, {"pending"})

\* lease's WHERE clause: due pending rows and rows whose lease has run out.
Leasable(e) ==
    \/ InStatus(e, {"pending"})
    \/ InStatus(e, {"leased"}) /\ row[e].leaseOver

-----------------------------------------------------------------------------
\* outboxStatement: the insert composed with the domain transaction.
Append(e) ==
    /\ InStatus(e, {"absent"})
    /\ row' = [row EXCEPT ![e] = [status |-> "pending", attempts |-> 0, leaseOver |-> FALSE]]
    /\ UNCHANGED redrives

\* lease: one transaction takes a batch of leasable rows.
LeaseRows(batch) ==
    /\ batch # {}
    /\ \A e \in batch : Leasable(e)
    /\ row' = [e \in Events |->
                 IF e \in batch
                 THEN [row[e] EXCEPT !.status = "leased", !.leaseOver = FALSE]
                 ELSE row[e]]
    /\ UNCHANGED redrives

\* Time passes leased_until.
LeaseRunsOut(e) ==
    /\ InStatus(e, {"leased"}) /\ ~row[e].leaseOver
    /\ row' = [row EXCEPT ![e].leaseOver = TRUE]
    /\ UNCHANGED redrives

\* Defect: succeed without its status test.
MaySucceedAny(e) == ~InStatus(e, {"absent", "pruned"})

\* succeed throws unless it may mark the row.
MaySucceed(e) == InStatus(e, {"leased", "succeeded"})

Succeed(e) ==
    /\ MaySucceed(e)
    /\ row' = [row EXCEPT ![e].status = "succeeded", ![e].leaseOver = FALSE]
    /\ UNCHANGED redrives

\* fail throws unless the row is leased; the attempt that reaches the cap
\* dead-letters the row, an earlier one returns it to pending with a backoff.
MayFail(e) == InStatus(e, {"leased"})

Fail(e) ==
    /\ MayFail(e)
    /\ row' = [row EXCEPT ![e] =
                 [status    |-> IF row[e].attempts + 1 >= MaxAttempts THEN "dead" ELSE "pending",
                  attempts  |-> row[e].attempts + 1,
                  leaseOver |-> FALSE]]
    /\ UNCHANGED redrives

\* settleUnconsumed's two statements, for a row the caller found unconsumed:
\* at the cap the row is dead-lettered with its generation kept, below it the
\* row returns to pending under the next generation.
SettleDead(e) ==
    /\ InStatus(e, {"succeeded"})
    /\ row[e].attempts + 1 >= MaxAttempts
    /\ row' = [row EXCEPT ![e].status = "dead"]
    /\ UNCHANGED redrives

\* Defects: settlement without the attempt cap, or under the old generation.
SettleUncapped(e) ==
    /\ InStatus(e, {"succeeded"})
    /\ row' = [row EXCEPT ![e].status = "pending", ![e].attempts = @ + 1]
    /\ UNCHANGED redrives
SettleSameGeneration(e) ==
    /\ InStatus(e, {"succeeded"})
    /\ row[e].attempts + 1 < MaxAttempts
    /\ row' = [row EXCEPT ![e].status = "pending"]
    /\ UNCHANGED redrives

SettleAgain(e) ==
    /\ InStatus(e, {"succeeded"})
    /\ row[e].attempts + 1 < MaxAttempts
    /\ row' = [row EXCEPT ![e].status = "pending", ![e].attempts = @ + 1]
    /\ UNCHANGED redrives

\* reject: a permanent refusal dead-letters a row that is not already dead.
Reject(e) ==
    /\ InStatus(e, {"pending", "leased", "succeeded"})
    /\ row' = [row EXCEPT ![e].status = "dead", ![e].leaseOver = FALSE]
    /\ UNCHANGED redrives

\* redrive: only a dead row; its attempts are kept.
Redrive(e) ==
    /\ InStatus(e, {"dead"})
    /\ redrives[e] < MaxRedrives
    /\ row' = [row EXCEPT ![e].status = "pending"]
    /\ redrives' = [redrives EXCEPT ![e] = @ + 1]

\* pruneSucceeded deletes a processed row once its provenance window is over.
Prune(e) ==
    /\ InStatus(e, {"succeeded"})
    /\ row' = [row EXCEPT ![e].status = "pruned"]
    /\ UNCHANGED redrives

OutboxNext ==
    \/ \E batch \in SUBSET Events : LeaseRows(batch)
    \/ \E e \in Events :
         \/ Append(e) \/ LeaseRunsOut(e)
         \/ Succeed(e) \/ Fail(e)
         \/ SettleDead(e) \/ SettleAgain(e)
         \/ Reject(e) \/ Redrive(e) \/ Prune(e)

OutboxSpec == OutboxInit /\ [][OutboxNext]_outboxVars

-----------------------------------------------------------------------------
\* However clients interleave their statements, the counted failures and settlements
\* of a row are at most MaxAttempts plus one per redrive, and a row that may still be
\* dispatched is strictly below that bound (fail's and settleUnconsumed's cap).  A
\* lease counts nothing: of a dispatcher that stopped, leased and sent again without
\* limit.
AttemptsCapped ==
    \A e \in Events :
        /\ row[e].attempts <= MaxAttempts + redrives[e]
        /\ row[e].status \in {"pending", "leased"} =>
             row[e].attempts < MaxAttempts + redrives[e]

\* A dead-lettered row leaves that state only by an operator's redrive: a
\* dispatcher whose lease was lost cannot revive it by settling it late
\* (the status tests of succeed, fail, lease and settleUnconsumed).
DeadUntilRedriven ==
    [][\A e \in Events :
         row[e].status = "dead" /\ row'[e].status # "dead" => redrives'[e] = redrives[e] + 1]_outboxVars
=============================================================================
