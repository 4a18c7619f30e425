------------------------ MODULE BillingReconciliation ------------------------
(***************************************************************************)
(* Reconciliation of provider subscriptions.  A notification only records  *)
(* a receipt and a request, and advances its subscription's generation; a  *)
(* worker then leases the subscription up to that generation, reads the    *)
(* provider's current state outside any transaction, and commits it if it  *)
(* still holds the lease.                                                  *)
(*                                                                         *)
(* errand[e] stands for whatever makes workers run for notification e      *)
(* until one reports success: the outbox request handled under an inbox    *)
(* claim, or the provider's redelivery of a webhook that runs inline.  A   *)
(* second worker may take the errand over from one that is still going,    *)
(* which then ends without a say in it.  A run that finds the lease taken  *)
(* throws, and leaves its errand to be retried: it changes nothing.        *)
(*                                                                         *)
(* A worker's name is its lease token: a claim ends with its worker's run, *)
(* so no claim is confused with a later one of the same worker.            *)
(***************************************************************************)
EXTENDS Naturals, FiniteSets

CONSTANTS
    MaxEvents,      \* the provider's notifications, numbered as it sent them
    Subscriptions,  \* provider subscriptions
    Orgs,
    Workers,
    MaxPasses,      \* maxPasses of reconcileBillingSubscription
    MaxFaults       \* failures and stalls: bounds the retries

Nothing == "nothing"

ASSUME BillingAssumption ==
    /\ Nothing \notin Subscriptions \cup Orgs \cup Workers
    /\ MaxEvents \in Nat
    /\ MaxPasses \in Nat \ {0}
    /\ MaxFaults \in Nat

VARIABLES
    provider,    \* provider[s]: the provider's own state of s
    sent,        \* sent[e]: the subscription the provider's e-th notification is of
    receipt,     \* receipt[e]: the billing_provider_event row
    cursor,      \* cursor[s]: the billing_subscription_reconciliation row
    owner,       \* owner[s]: the billing_subscription_ownership row
    projection,  \* projection[o]: the organization_subscription row
    emitted,     \* notifications with a billing event in the outbox
    errand,      \* errand[e]: whether the request of e still has to be run
    worker,      \* worker[w]: the worker's position and its claim
    faults

providerVars == <<provider, sent>>
ledgerVars   == <<receipt, cursor>>
standingVars == <<owner, projection, emitted>>
runVars      == <<errand, worker>>
vars == <<providerVars, ledgerVars, standingVars, runVars, faults>>

Events == 1..MaxEvents
NoEvent == 0

\* The provider's state of a subscription; its version is the notification
\* that announced it.
ProviderState == [version : Events \cup {NoEvent}, org : Orgs \cup {Nothing}, live : BOOLEAN]
Unknown == [version |-> 0, org |-> Nothing, live |-> FALSE]
SettledStates == {"processed", "superseded", "rejected"}
ReceiptState == [status : {"none", "received", "failed"} \cup SettledStates, generation : Nat]
CursorState ==
    [generation : Nat, reconciled : Nat,
     latest : Events \cup {NoEvent},   \* requestedEventId
     holder : Workers \cup {Nothing},  \* leaseToken
     live   : BOOLEAN]                 \* leaseExpiresAt is ahead
WorkerState ==
    [pc : {"idle", "lookup", "complete", "reject", "release", "again"},
     event : Events \cup {NoEvent}, sub : Subscriptions \cup {Nothing},
     generation : Nat, latest : Events \cup {NoEvent}, found : ProviderState, pass : Nat]
IdleWorker == [pc |-> "idle", event |-> NoEvent, sub |-> Nothing, generation |-> 0,
               latest |-> NoEvent, found |-> Unknown, pass |-> 0]

TypeOK ==
    /\ provider \in [Subscriptions -> ProviderState]
    /\ sent \in [Events -> Subscriptions \cup {Nothing}]
    /\ receipt \in [Events -> ReceiptState]
    /\ cursor \in [Subscriptions -> CursorState]
    /\ owner \in [Subscriptions -> Orgs \cup {Nothing}]
    /\ projection \in [Orgs -> [sub : Subscriptions \cup {Nothing}, version : Events \cup {NoEvent}, live : BOOLEAN]]
    /\ emitted \subseteq Events
    /\ errand \in [Events -> {"none", "open", "done"}]
    /\ worker \in [Workers -> WorkerState]
    /\ faults \in 0..MaxFaults

Init ==
    /\ provider = [s \in Subscriptions |-> Unknown]
    /\ sent = [e \in Events |-> Nothing]
    /\ receipt = [e \in Events |-> [status |-> "none", generation |-> 0]]
    /\ cursor = [s \in Subscriptions |->
         [generation |-> 0, reconciled |-> 0, latest |-> NoEvent, holder |-> Nothing, live |-> FALSE]]
    /\ owner = [s \in Subscriptions |-> Nothing]
    /\ projection = [o \in Orgs |-> [sub |-> Nothing, version |-> 0, live |-> FALSE]]
    /\ emitted = {}
    /\ errand = [e \in Events |-> "none"]
    /\ worker = [w \in Workers |-> IdleWorker]
    /\ faults = 0

Settled(e) == receipt[e].status \in SettledStates
SubOf(e) == sent[e]
Fault == faults < MaxFaults /\ faults' = faults + 1

-----------------------------------------------------------------------------
(* The provider and its notifications *)

\* The subscription changes, or appears, and a notification says so; its
\* organization and plan may be unknown to this application (org Nothing).
ProviderChanges(e, s, org, live) ==
    /\ org = Nothing => ~live
    /\ \A f \in Events : sent[f] = Nothing <=> f >= e
    /\ provider' = [provider EXCEPT ![s] = [version |-> e, org |-> org, live |-> live]]
    /\ sent' = [sent EXCEPT ![e] = s]
    /\ UNCHANGED <<ledgerVars, standingVars, runVars, faults>>

\* requestBillingSubscriptionReconciliation: the receipt, the next generation
\* and the request commit together.  A redelivery finds the generation set
\* (or the receipt settled) and changes nothing.
Request(e) ==
    /\ sent[e] # Nothing
    /\ receipt[e].generation = 0
    /\ LET s == SubOf(e)
           next == cursor[s].generation + 1
       IN /\ cursor' = [cursor EXCEPT ![s].generation = next, ![s].latest = e]
          /\ receipt' = [receipt EXCEPT ![e] = [status |-> "received", generation |-> next]]
    /\ errand' = [errand EXCEPT ![e] = "open"]
    /\ UNCHANGED <<providerVars, standingVars, worker, faults>>

-----------------------------------------------------------------------------
(* reconcileBillingSubscription *)

Leased(s) == cursor[s].holder # Nothing /\ cursor[s].live
Due(s) == cursor[s].reconciled < cursor[s].generation
Holds(w) == worker[w].pc \notin {"idle", "again"} /\ cursor[worker[w].sub].holder = w

\* claimBillingSubscriptionReconciliation of a subscription that is due and
\* not leased: a claim up to the generation requested so far.
Claim(w, e, s, pass) ==
    /\ Due(s) /\ ~Leased(s)
    /\ cursor' = [cursor EXCEPT ![s].holder = w, ![s].live = TRUE]
    /\ worker' = [v \in Workers |->
         IF v = w THEN [pc |-> "lookup", event |-> e, sub |-> s, generation |-> cursor[s].generation,
                        latest |-> cursor[s].latest, found |-> Unknown, pass |-> pass]
         ELSE IF worker[v].event = e THEN [worker[v] EXCEPT !.event = NoEvent]
         ELSE worker[v]]

\* The request is handled, or its webhook redelivered and run inline.
Start(w, e) ==
    /\ worker[w].pc = "idle" /\ errand[e] = "open"
    /\ Claim(w, e, SubOf(e), 1)
    /\ UNCHANGED <<providerVars, receipt, standingVars, errand, faults>>

\* Nothing is due for the request, or its receipt is a settled duplicate.
StartIdle(e) ==
    /\ errand[e] = "open"
    /\ Settled(e) \/ ~Due(SubOf(e))
    /\ errand' = [errand EXCEPT ![e] = "done"]
    /\ UNCHANGED <<providerVars, ledgerVars, standingVars, worker, faults>>

\* The run ends; unless its errand was taken over, success completes it and
\* anything else leaves it to be retried.
Finish(w, success) ==
    /\ worker' = [worker EXCEPT ![w] = IdleWorker]
    /\ errand' = [e \in Events |-> IF success /\ e = worker[w].event THEN "done" ELSE errand[e]]

\* Defect: the next pass commits what the last one read.
NextPassReusing(w) ==
    LET s == worker[w].sub IN
    /\ worker[w].pc = "again" /\ Due(s) /\ ~Leased(s)
    /\ cursor' = [cursor EXCEPT ![s].holder = w, ![s].live = TRUE]
    /\ worker' = [worker EXCEPT ![w].pc = "complete", ![w].pass = @ + 1,
                    ![w].generation = cursor[s].generation, ![w].latest = cursor[s].latest]
    /\ UNCHANGED <<providerVars, receipt, standingVars, errand, faults>>

\* The loop's next pass: newer receipts were due when the last one ended.
NextPass(w) ==
    LET s == worker[w].sub IN
    /\ worker[w].pc = "again"
    /\ \/ Claim(w, worker[w].event, s, worker[w].pass + 1) /\ UNCHANGED errand
       \/ /\ ~Due(s) \/ Leased(s)
          /\ Finish(w, ~Due(s))
          /\ UNCHANGED cursor
    /\ UNCHANGED <<providerVars, receipt, standingVars, faults>>

\* The provider is asked outside any transaction.  State of no known
\* organization or plan, and a missing subscription, are rejected.
Lookup(w) ==
    LET current == provider[worker[w].sub] IN
    /\ worker[w].pc = "lookup"
    /\ worker' = [worker EXCEPT ![w].found = current,
                                ![w].pc = IF current.org = Nothing THEN "reject" ELSE "complete"]
    /\ UNCHANGED <<providerVars, ledgerVars, standingVars, errand, faults>>

LookupFails(w) ==
    /\ worker[w].pc = "lookup"
    /\ Fault
    /\ worker' = [worker EXCEPT ![w].pc = "release"]
    /\ UNCHANGED <<providerVars, ledgerVars, standingVars, errand>>

\* settleReceipts: every open receipt the claim covers.
Covered(w) ==
    {e \in Events : /\ SubOf(e) = worker[w].sub /\ ~Settled(e)
                    /\ receipt[e].generation \in 1..worker[w].generation}

SettleReceipts(w, answered, others) ==
    receipt' = [e \in Events |->
                  IF e \notin Covered(w) THEN receipt[e]
                  ELSE [receipt[e] EXCEPT !.status = IF e = worker[w].latest THEN answered ELSE others]]

\* finishClaim, and the loop's next pass while newer receipts are due.
FinishClaim(w) ==
    LET s == worker[w].sub
        due == cursor[s].generation > worker[w].generation
    IN /\ cursor' = [cursor EXCEPT ![s].holder = Nothing, ![s].live = FALSE,
                       ![s].reconciled = IF @ >= worker[w].generation THEN @ ELSE worker[w].generation]
       /\ IF due /\ worker[w].pass < MaxPasses
          THEN worker' = [worker EXCEPT ![w].pc = "again"] /\ UNCHANGED errand
          ELSE Finish(w, ~due)

\* Another worker claimed the subscription: this one commits nothing, and
\* its run ends as a success.
Fenced(w) ==
    /\ worker[w].pc \in {"complete", "reject", "release"}
    /\ ~Holds(w)
    /\ Finish(w, TRUE)
    /\ UNCHANGED <<providerVars, ledgerVars, standingVars, faults>>

\* Defect: the ownership binding is not compared.
VerdictUnowned(w) ==
    LET s == worker[w].sub
        org == worker[w].found.org
        replaces == projection[org].sub \notin {Nothing, s}
    IN IF ~replaces THEN "applied"
       ELSE IF owner[s] # Nothing THEN "superseded"
       ELSE IF projection[org].live THEN "replacement_conflict" ELSE "applied"

\* Defect: a replaced subscription may replace the one that replaced it.
VerdictRevives(w) ==
    LET s == worker[w].sub
        org == worker[w].found.org
    IN IF owner[s] \notin {Nothing, org} THEN "ownership_conflict"
       ELSE IF projection[org].sub \notin {Nothing, s} /\ projection[org].live
            THEN "replacement_conflict"
       ELSE "applied"

\* projectSubscription's verdict on what worker w found.
Verdict(w) ==
    LET s == worker[w].sub
        org == worker[w].found.org
        replaces == projection[org].sub \notin {Nothing, s}
    IN IF owner[s] \notin {Nothing, org} THEN "ownership_conflict"
       ELSE IF ~replaces THEN "applied"
       ELSE IF owner[s] = org THEN "superseded"
       ELSE IF projection[org].live THEN "replacement_conflict" ELSE "applied"

\* Defect: the billing event is keyed by the notification being handled.
ProjectForErrand(w) ==
    LET found == worker[w].found IN
    /\ owner' = [owner EXCEPT ![worker[w].sub] = found.org]
    /\ projection' = [projection EXCEPT ![found.org] =
         [sub |-> worker[w].sub, version |-> found.version, live |-> found.live]]
    /\ emitted' = emitted \cup ({worker[w].event} \ {NoEvent})

\* The subscription, its entitlements and its billing event are replaced
\* together, and the ownership is bound by the first such commit.
Project(w) ==
    LET found == worker[w].found IN
    /\ owner' = [owner EXCEPT ![worker[w].sub] = found.org]
    /\ projection' = [projection EXCEPT ![found.org] =
         [sub |-> worker[w].sub, version |-> found.version, live |-> found.live]]
    /\ emitted' = emitted \cup {worker[w].latest}

\* Defect: the lease is not checked where its holder commits.
CompleteUnfenced(w) ==
    /\ worker[w].pc = "complete"
    /\ Verdict(w) = "applied"
    /\ Project(w) /\ SettleReceipts(w, "processed", "superseded") /\ FinishClaim(w)
    /\ UNCHANGED <<providerVars, faults>>

\* completeBillingSubscriptionReconciliation of current state.  A conflict
\* rolls the transaction back and is dealt with in a transaction of its own.
Complete(w) ==
    /\ worker[w].pc = "complete" /\ Holds(w)
    /\ \/ /\ Verdict(w) = "applied"
          /\ Project(w) /\ SettleReceipts(w, "processed", "superseded") /\ FinishClaim(w)
       \/ /\ Verdict(w) = "superseded"
          /\ SettleReceipts(w, "superseded", "superseded") /\ FinishClaim(w)
          /\ UNCHANGED standingVars
       \/ /\ Verdict(w) \in {"ownership_conflict", "replacement_conflict"}
          /\ worker' = [worker EXCEPT ![w].pc =
               IF Verdict(w) = "ownership_conflict" THEN "reject" ELSE "release"]
          /\ UNCHANGED <<ledgerVars, standingVars, errand>>
    /\ UNCHANGED <<providerVars, faults>>

CompleteFails(w) ==
    /\ worker[w].pc = "complete"
    /\ Fault
    /\ worker' = [worker EXCEPT ![w].pc = "release"]
    /\ UNCHANGED <<providerVars, ledgerVars, standingVars, errand>>

\* rejectClaim: the covered receipts end, the projection stays.
RejectClaim(w) ==
    /\ worker[w].pc = "reject" /\ Holds(w)
    /\ SettleReceipts(w, "rejected", "rejected") /\ FinishClaim(w)
    /\ UNCHANGED <<providerVars, standingVars, faults>>

\* Defect: a released claim counts as reconciled.
ReleaseFinishes(w) ==
    /\ worker[w].pc = "release" /\ Holds(w)
    /\ SettleReceipts(w, "failed", "failed") /\ FinishClaim(w)
    /\ UNCHANGED <<providerVars, standingVars, faults>>

\* releaseClaim: the lease ends, the work stays due, and the run throws.
ReleaseClaim(w) ==
    /\ worker[w].pc = "release" /\ Holds(w)
    /\ SettleReceipts(w, "failed", "failed")
    /\ cursor' = [cursor EXCEPT ![worker[w].sub].holder = Nothing, ![worker[w].sub].live = FALSE]
    /\ Finish(w, FALSE)
    /\ UNCHANGED <<providerVars, standingVars, faults>>

\* The worker is evicted, or the database fails it: its lease stays.
WorkerStops(w) ==
    /\ worker[w].pc # "idle"
    /\ Fault
    /\ worker' = [worker EXCEPT ![w] = IdleWorker]
    /\ UNCHANGED <<providerVars, ledgerVars, standingVars, errand>>

\* Sixty seconds pass: a fault when the holder is still going.
LeaseRunsOut(s) ==
    /\ Leased(s)
    /\ cursor' = [cursor EXCEPT ![s].live = FALSE]
    /\ IF \E w \in Workers : worker[w].sub = s /\ Holds(w) THEN Fault ELSE UNCHANGED faults
    /\ UNCHANGED <<providerVars, receipt, standingVars, runVars>>

WorkerStep(w) ==
    \/ NextPass(w) \/ Lookup(w) \/ Fenced(w) \/ Complete(w) \/ RejectClaim(w) \/ ReleaseClaim(w)

Next ==
    \/ \E e \in Events, s \in Subscriptions :
         \E org \in Orgs \cup {Nothing}, live \in BOOLEAN :
              ProviderChanges(e, s, org, live)
    \/ \E e \in Events : Request(e) \/ StartIdle(e)
    \/ \E w \in Workers : \/ \E e \in Events : Start(w, e)
                          \/ WorkerStep(w) \/ LookupFails(w) \/ CompleteFails(w) \/ WorkerStops(w)
    \/ \E s \in Subscriptions : LeaseRunsOut(s)

Spec == Init /\ [][Next]_vars

-----------------------------------------------------------------------------
(* Properties *)

\* The claim that would commit is still due, and what its worker read is no
\* older than anything it may settle or replace, whatever other workers,
\* passes and notifications did since it was claimed.
HolderIsCurrent ==
    \A w \in Workers : Holds(w) =>
        LET s == worker[w].sub IN
        /\ cursor[s].reconciled < worker[w].generation
        /\ worker[w].generation <= cursor[s].generation
        /\ worker[w].pc = "complete" =>
             /\ \A e \in Covered(w) : e <= worker[w].found.version
             /\ \A o \in Orgs : projection[o].sub = s => projection[o].version <= worker[w].found.version

BillingInv == TypeOK /\ HolderIsCurrent

\* A receipt is settled exactly when its generation is reconciled: however
\* claims, fenced workers and releases interleave, neither table runs ahead
\* of the other, so no open receipt is skipped and no redelivery reopens one
\* (settleReceipts and finishClaim under holdsLease).
SettledWhenReconciled ==
    \A e \in Events : receipt[e].generation > 0 =>
        (Settled(e) <=> receipt[e].generation <= cursor[SubOf(e)].reconciled)

\* Once its receipt is settled, the state that stands for the organization
\* is no older than what the notification announced: a worker that read the
\* provider before the notification cannot settle it.
SettledIsFresh ==
    \A e \in Events, o \in Orgs :
        receipt[e].status \in {"processed", "superseded"} /\ projection[o].sub = SubOf(e)
        => projection[o].version >= e

\* A billing event leaves for a notification exactly when it is processed,
\* and only for a subscription bound to an organization (one transaction
\* writes receipt, projection and outbox).
EventWhenProcessed ==
    \A e \in Events :
        /\ e \in emitted <=> receipt[e].status = "processed"
        /\ e \in emitted => owner[SubOf(e)] # Nothing

\* A subscription stands only for the organization that owns it.
StandsForOwner ==
    \A o \in Orgs : projection[o].sub # Nothing => owner[projection[o].sub] = o

\* Reconciliation implements its contract.
about == [e \in Events |-> [sub |-> SubOf(e), version |-> IF SubOf(e) = Nothing THEN 0 ELSE e]]
answer == [e \in Events |-> IF receipt[e].generation = 0 THEN "unseen"
                            ELSE IF Settled(e) THEN "settled" ELSE "open"]
standing == [o \in Orgs |-> [sub |-> projection[o].sub, version |-> projection[o].version]]
retired == {s \in Subscriptions : owner[s] # Nothing /\ projection[owner[s]].sub # s}

Contract == INSTANCE BillingContract WITH
    about <- about, answer <- answer, standing <- standing, retired <- retired
ImplementsContract == Contract!Spec
=============================================================================
