--------------------------- MODULE EventDelivery ---------------------------
(***************************************************************************)
(* Delivery of committed events: the outbox, the dispatchers that publish  *)
(* its rows, the job runtime that runs them, and the consumers that handle *)
(* them under an inbox claim.                                              *)
(*                                                                         *)
(* Dispatcher d runs dispatchOutbox: it leases a batch, and for each entry *)
(* publishes it, then marks it succeeded, or failed if either call threw.  *)
(* Several dispatchers run at once (the scheduler object, the safety       *)
(* sweep), and any of them can stop between two calls.                     *)
(*                                                                         *)
(* A run is what the runtime starts for an accepted event.  An external    *)
(* runtime (trigger.dev, Inngest) keys it by event and generation, so a    *)
(* repeated send finds the run it started; the Cloudflare Queue carries    *)
(* every accepted send as a message of its own.  Either one delivers a run *)
(* to one executor at a time, but may give up on an executor that is still *)
(* going (a timeout) and deliver again.                                    *)
(*                                                                         *)
(* Executor x runs one delivery: consumeCommittedEvent around              *)
(* handleEventWithInbox, or the Queue consumer's loop around the latter.   *)
(***************************************************************************)
EXTENDS Outbox

CONSTANTS
    Dispatchers, Executors,
    Runtimes,    \* the job runtimes this deployment may have selected
    MaxTries,    \* deliveries of one run before the runtime gives it up
    BatchLimit   \* rows one lease takes

ASSUME DeliveryAssumption ==
    /\ Runtimes \subseteq {"queue", "external"}
    /\ MaxTries \in Nat \ {0}
    /\ BatchLimit \in Nat \ {0}

VARIABLES
    runtime,     \* the selected job runtime
    refused,     \* events whose provenance every execution refuses
    inbox,       \* inbox[e]: the event_inbox row of e (module EventInbox)
    window,      \* window[e]: TRUE while e is inside its replay window
    disp,        \* disp[d]: the dispatcher's position and batch
    runs,        \* runs[k]: the runtime's run with key k
    exec,        \* exec[x]: the executor's position, its run and its claim
    completions  \* history: how many executors' complete() of e returned

INSTANCE EventInbox

vars == <<runtime, refused, row, redrives, inbox, window, disp, runs, exec, completions>>
\* Groups for UNCHANGED.
runtimeVars == <<runs, exec, completions>>
deployment  == <<runtime, refused>>
inboxVars   == <<inbox, window, deployment>>

\* attempts never passes this (AttemptsCapped), so it bounds the generations.
Generations == 0..(MaxAttempts + MaxRedrives)
Keys == Events \X Generations
EventOf(k) == k[1]
NoKey == <<>>
NoExecutor == "none"

DispatcherState ==
    [pc   : {"idle", "publish", "succeed", "fail"},
     cur  : Keys \cup {NoKey},
     todo : SUBSET Keys]
RunState ==
    [status : {"none", "queued", "running", "ended"},
     by     : Executors \cup {NoExecutor},
     tries  : 0..MaxTries]
ExecutorState ==
    [pc    : {"idle", "verify", "claim", "handle", "complete", "release",
              "reject", "acknowledge", "retry"},
     key   : Keys \cup {NoKey},
     token : Nat]

IdleDispatcher == [pc |-> "idle", cur |-> NoKey, todo |-> {}]
IdleExecutor == [pc |-> "idle", key |-> NoKey, token |-> NoToken]

DeliveryTypeOK ==
    /\ OutboxTypeOK
    /\ InboxTypeOK
    /\ runtime \in Runtimes
    /\ refused \subseteq Events
    /\ window \in [Events -> BOOLEAN]
    /\ disp \in [Dispatchers -> DispatcherState]
    /\ runs \in [Keys -> RunState]
    /\ exec \in [Executors -> ExecutorState]
    /\ completions \in [Events -> Nat]

Init ==
    /\ OutboxInit
    /\ InboxInit
    /\ runtime \in Runtimes
    /\ refused \in SUBSET Events
    /\ window = [e \in Events |-> TRUE]
    /\ disp = [d \in Dispatchers |-> IdleDispatcher]
    /\ runs = [k \in Keys |-> [status |-> "none", by |-> NoExecutor, tries |-> 0]]
    /\ exec = [x \in Executors |-> IdleExecutor]
    /\ completions = [e \in Events |-> 0]

Started(k) == runs[k].status # "none"
Dedupes == runtime = "external"

-----------------------------------------------------------------------------
(* The database on its own: commits, time, the sweep's settlement, operators. *)

Commit(e) == Append(e) /\ UNCHANGED <<inboxVars, disp, runtimeVars>>

LeaseTimeout(e) == LeaseRunsOut(e) /\ UNCHANGED <<inboxVars, disp, runtimeVars>>

ClaimTimeout(e) ==
    /\ ClaimRunsOut(e)
    /\ UNCHANGED <<outboxVars, window, deployment, disp, runtimeVars>>

\* The event becomes older than the 14-day replay window.
LeaveWindow(e) ==
    /\ window[e] /\ row[e].status # "absent"
    /\ window' = [window EXCEPT ![e] = FALSE]
    /\ UNCHANGED <<outboxVars, inbox, deployment, disp, runtimeVars>>

\* settleUnconsumed, which the sweep runs only for an external runtime.
Unconsumed(e) == window[e] /\ inbox[e].status # "completed"

Settle(e) ==
    /\ Dedupes
    /\ Unconsumed(e)
    /\ SettleDead(e) \/ SettleAgain(e)
    /\ UNCHANGED <<inboxVars, disp, runtimeVars>>

OperatorRedrive(e) == Redrive(e) /\ UNCHANGED <<inboxVars, disp, runtimeVars>>

\* Provenance is kept past the replay window, and longer while a claim of it
\* may still be in progress (migration 0033).
PruneProvenance(e) ==
    /\ ~window[e]
    /\ inbox[e].status = "processing" => inbox[e].leaseOver
    /\ Prune(e)
    /\ UNCHANGED <<inboxVars, disp, runtimeVars>>

-----------------------------------------------------------------------------
(* dispatchOutbox *)

LeaseBatch(d, batch) ==
    /\ disp[d].pc = "idle"
    /\ Cardinality(batch) <= BatchLimit
    /\ LeaseRows(batch)
    /\ disp' = [disp EXCEPT ![d] =
                  [pc   |-> "publish",
                   cur  |-> NoKey,
                   todo |-> {<<e, row[e].attempts>> : e \in batch}]]
    /\ UNCHANGED <<inboxVars, runtimeVars>>

\* The key the runtime gives an accepted send: its own for a deduplicating
\* runtime, else that of the next message the Queue has carried for the event.
SlotOf(k) ==
    IF Dedupes THEN {k}
    ELSE {s \in Keys : /\ EventOf(s) = EventOf(k)
                       /\ ~Started(s)
                       /\ \A t \in Keys : EventOf(t) = EventOf(k) /\ t[2] < s[2] => Started(t)}

Accept(slot) ==
    IF Started(slot) THEN UNCHANGED runs
    ELSE runs' = [runs EXCEPT ![slot] = [status |-> "queued", by |-> NoExecutor, tries |-> 0]]

\* Defect: the row is marked before the event is sent.
PublishLater(d, k) ==
    /\ disp[d].pc = "publish" /\ k \in disp[d].todo
    /\ disp' = [disp EXCEPT ![d] = [pc |-> "succeed", cur |-> k, todo |-> @.todo \ {k}]]
    /\ UNCHANGED <<outboxVars, inboxVars, runtimeVars>>

\* publisher.send: the runtime accepts the event or not, and an accepted send
\* may still throw (a lost acknowledgement).
Publish(d, k) ==
    /\ disp[d].pc = "publish" /\ k \in disp[d].todo
    /\ \/ \E slot \in SlotOf(k), pc \in {"succeed", "fail"} :
            /\ Accept(slot)
            /\ disp' = [disp EXCEPT ![d] = [pc |-> pc, cur |-> k, todo |-> @.todo \ {k}]]
       \/ /\ disp' = [disp EXCEPT ![d] = [pc |-> "fail", cur |-> k, todo |-> @.todo \ {k}]]
          /\ UNCHANGED runs
    /\ UNCHANGED <<outboxVars, inboxVars, exec, completions>>

NextEntry(d) ==
    disp' = [disp EXCEPT ![d] =
               IF @.todo = {} THEN IdleDispatcher ELSE [@ EXCEPT !.pc = "publish", !.cur = NoKey]]

\* store.succeed; if it throws, the same catch calls store.fail.
MarkSucceeded(d) ==
    /\ disp[d].pc = "succeed"
    /\ LET e == EventOf(disp[d].cur) IN
         \/ Succeed(e) /\ NextEntry(d)
         \/ /\ ~MaySucceed(e)
            /\ disp' = [disp EXCEPT ![d].pc = "fail"]
            /\ UNCHANGED outboxVars
    /\ UNCHANGED <<inboxVars, runtimeVars>>

\* store.fail; if it throws, dispatchOutbox ends and the rest of its batch
\* stays leased until the leases run out.
MarkFailed(d) ==
    /\ disp[d].pc = "fail"
    /\ LET e == EventOf(disp[d].cur) IN
         \/ Fail(e) /\ NextEntry(d)
         \/ /\ ~MayFail(e)
            /\ disp' = [disp EXCEPT ![d] = IdleDispatcher]
            /\ UNCHANGED outboxVars
    /\ UNCHANGED <<inboxVars, runtimeVars>>

\* The isolate is evicted, or a database call throws out of dispatchOutbox.
DispatcherStops(d) ==
    /\ disp[d].pc # "idle"
    /\ disp' = [disp EXCEPT ![d] = IdleDispatcher]
    /\ UNCHANGED <<outboxVars, inboxVars, runtimeVars>>

-----------------------------------------------------------------------------
(* The job runtime *)

Deliver(x, k) ==
    /\ exec[x].pc = "idle"
    /\ runs[k].status = "queued"
    /\ runs' = [runs EXCEPT ![k].status = "running", ![k].by = x]
    /\ exec' = [exec EXCEPT ![x] = [pc |-> "verify", key |-> k, token |-> NoToken]]
    /\ UNCHANGED <<outboxVars, inboxVars, disp, completions>>

\* One delivery of run k is spent: it is queued again until MaxTries.
TryAgain(k) ==
    [status |-> IF runs[k].tries + 1 < MaxTries THEN "queued" ELSE "ended",
     by     |-> NoExecutor,
     tries  |-> runs[k].tries + 1]

\* The runtime gives up on a delivery; its executor may still be going.
RunTimeout(k) ==
    /\ runs[k].status = "running"
    /\ runs' = [runs EXCEPT ![k] = TryAgain(k)]
    /\ UNCHANGED <<outboxVars, inboxVars, disp, exec, completions>>

\* An external run ends without success: an operator cancels it, or the
\* runtime loses it.
RunLost(k) ==
    /\ Dedupes
    /\ runs[k].status \in {"queued", "running"}
    /\ runs' = [runs EXCEPT ![k].status = "ended", ![k].by = NoExecutor]
    /\ UNCHANGED <<outboxVars, inboxVars, disp, exec, completions>>

\* The Queue delivers an acknowledged message once more.
DeliverTwice(k) ==
    /\ ~Dedupes
    /\ runs[k].status = "ended" /\ runs[k].tries + 1 < MaxTries
    /\ runs' = [runs EXCEPT ![k] = TryAgain(k)]
    /\ UNCHANGED <<outboxVars, inboxVars, disp, exec, completions>>

-----------------------------------------------------------------------------
(* handleEventWithInbox *)

GoTo(x, pc) == exec' = [exec EXCEPT ![x].pc = pc]

\* Defect: the event is claimed before its provenance is verified.
VerifyNothing(x) ==
    /\ exec[x].pc = "verify"
    /\ GoTo(x, "claim")
    /\ UNCHANGED <<outboxVars, inboxVars, disp, runs, completions>>

\* registry.verify and registry.authorize read the committed row: a missing,
\* expired or unauthorised one is a PermanentEventError, a failed read a retry.
Verify(x) ==
    /\ exec[x].pc = "verify"
    /\ LET e == EventOf(exec[x].key)
           permanent == row[e].status = "pruned" \/ ~window[e] \/ e \in refused
       IN \/ GoTo(x, IF permanent THEN "reject" ELSE "claim")
          \/ GoTo(x, "retry")
    /\ UNCHANGED <<outboxVars, inboxVars, disp, runs, completions>>

\* inbox.claim: a completed event is acknowledged, a busy one retried.
ClaimEvent(x) ==
    /\ exec[x].pc = "claim"
    /\ LET e == EventOf(exec[x].key) IN
         \/ /\ Claim(e)
            /\ exec' = [exec EXCEPT ![x].pc = "handle", ![x].token = Claimed(e)]
         \/ /\ ~Claimable(e)
            /\ GoTo(x, IF inbox[e].status = "completed" THEN "acknowledge" ELSE "retry")
            /\ UNCHANGED inbox
    /\ UNCHANGED <<outboxVars, window, deployment, disp, runs, completions>>

\* Post-commit work and the handler: they return (or the tenant is not
\* entitled and the handler is skipped), or one of them throws.
Handle(x) ==
    /\ exec[x].pc = "handle"
    /\ GoTo(x, "complete") \/ GoTo(x, "release")
    /\ UNCHANGED <<outboxVars, inboxVars, disp, runs, completions>>

\* inbox.complete throws once the claim was taken over.
CompleteEvent(x) ==
    /\ exec[x].pc = "complete"
    /\ LET e == EventOf(exec[x].key) IN
         \/ /\ Complete(e, exec[x].token)
            /\ completions' = [completions EXCEPT ![e] = @ + 1]
            /\ GoTo(x, "acknowledge")
         \/ /\ ~Holds(e, exec[x].token)
            /\ GoTo(x, "release")
            /\ UNCHANGED <<inbox, completions>>
    /\ UNCHANGED <<outboxVars, window, deployment, disp, runs>>

\* inbox.release in the catch; if it throws too, its error is the one rethrown.
ReleaseEvent(x) ==
    /\ exec[x].pc = "release"
    /\ LET e == EventOf(exec[x].key) IN
         \/ Release(e, exec[x].token)
         \/ ~Holds(e, exec[x].token) /\ UNCHANGED inbox
    /\ GoTo(x, "retry")
    /\ UNCHANGED <<outboxVars, window, deployment, disp, runs, completions>>

\* The run's result reaches the runtime only while x still has the delivery.
Report(x, result) ==
    LET k == exec[x].key IN
      /\ runs' = IF runs[k].status = "running" /\ runs[k].by = x
                 THEN [runs EXCEPT ![k] = result] ELSE runs
      /\ exec' = [exec EXCEPT ![x] = IdleExecutor]

Ended(k) == [runs[k] EXCEPT !.status = "ended", !.by = NoExecutor]

Acknowledge(x) ==
    /\ exec[x].pc = "acknowledge"
    /\ Report(x, Ended(exec[x].key))
    /\ UNCHANGED <<outboxVars, inboxVars, disp, completions>>

Retry(x) ==
    /\ exec[x].pc = "retry"
    /\ Report(x, TryAgain(exec[x].key))
    /\ UNCHANGED <<outboxVars, inboxVars, disp, completions>>

\* A PermanentEventError.  consumeCommittedEvent dead-letters the row, best
\* effort, and ends the run; processQueueBatch only retries the message.
RejectEvent(x) ==
    /\ exec[x].pc = "reject"
    /\ IF Dedupes
       THEN /\ Report(x, Ended(exec[x].key))
            /\ Reject(EventOf(exec[x].key)) \/ UNCHANGED outboxVars
       ELSE /\ Report(x, TryAgain(exec[x].key))
            /\ UNCHANGED outboxVars
    /\ UNCHANGED <<inboxVars, disp, completions>>

\* The process running x stops; the runtime notices by a timeout.
ExecutorStops(x) ==
    /\ exec[x].pc # "idle"
    /\ exec' = [exec EXCEPT ![x] = IdleExecutor]
    /\ UNCHANGED <<outboxVars, inboxVars, disp, runs, completions>>

-----------------------------------------------------------------------------
DatabaseStep(e) ==
    \/ Commit(e) \/ LeaseTimeout(e) \/ ClaimTimeout(e) \/ LeaveWindow(e)
    \/ Settle(e) \/ OperatorRedrive(e) \/ PruneProvenance(e)

DispatcherStep(d) ==
    \/ \E batch \in SUBSET Events : LeaseBatch(d, batch)
    \/ \E k \in Keys : Publish(d, k)
    \/ MarkSucceeded(d) \/ MarkFailed(d) \/ DispatcherStops(d)

RuntimeStep(k) == RunTimeout(k) \/ RunLost(k) \/ DeliverTwice(k)

ExecutorStep(x) ==
    \/ \E k \in Keys : Deliver(x, k)
    \/ Verify(x) \/ ClaimEvent(x) \/ Handle(x) \/ CompleteEvent(x) \/ ReleaseEvent(x)
    \/ Acknowledge(x) \/ Retry(x) \/ RejectEvent(x) \/ ExecutorStops(x)

Next ==
    \/ \E e \in Events : DatabaseStep(e)
    \/ \E d \in Dispatchers : DispatcherStep(d)
    \/ \E k \in Keys : RuntimeStep(k)
    \/ \E x \in Executors : ExecutorStep(x)

Spec == Init /\ [][Next]_vars

\* Scheduling.  The sweep and the scheduler object keep dispatching, and an
\* isolate is not evicted before the same call for ever (strong fairness of a
\* dispatcher's calls); leases end, the runtime delivers and times out, and an
\* executor that is not stopped goes on.  Nothing makes an event age, an
\* operator act, a call fail or a process stop.
Fairness ==
    /\ \A e \in Events :
         /\ WF_vars(LeaseTimeout(e)) /\ WF_vars(ClaimTimeout(e)) /\ WF_vars(Settle(e))
         /\ SF_vars(\E d \in Dispatchers, batch \in SUBSET Events :
                      e \in batch /\ LeaseBatch(d, batch))
    /\ \A d \in Dispatchers :
         /\ \A k \in Keys : SF_vars(Publish(d, k))
         /\ SF_vars(MarkSucceeded(d)) /\ SF_vars(MarkFailed(d))
    /\ \A k \in Keys :
         /\ SF_vars(\E x \in Executors : Deliver(x, k))
         /\ WF_vars(RunTimeout(k))
    /\ \A x \in Executors :
         WF_vars(\/ Verify(x) \/ ClaimEvent(x) \/ Handle(x) \/ CompleteEvent(x)
                 \/ ReleaseEvent(x) \/ Acknowledge(x) \/ Retry(x) \/ RejectEvent(x))

FairSpec == Spec /\ Fairness

-----------------------------------------------------------------------------
(* Properties *)

\* Types, and the cap: whichever dispatchers, sweeps and operators meet in the outbox,
\* a row's counted failures and settlements are bounded.  Sends are not, as those of a
\* dispatcher that stopped are repeated uncounted; but of a runtime that keys its runs
\* by generation an event gets at most MaxAttempts runs and one more for each redrive,
\* however often its row is sent.
RunsCapped ==
    Dedupes => \A k \in Keys : Started(k) => k[2] < MaxAttempts + redrives[EventOf(k)]
DeliveryInv == DeliveryTypeOK /\ AttemptsCapped /\ RunsCapped

\* Redelivery, takeover of an expired claim and a late executor never complete
\* an event twice: complete() returns to at most one executor ("the inbox
\* still guarantees a handler never completes twice", settleUnconsumed).
CompletedOnce == \A e \in Events : completions[e] <= 1

\* The executors whose claim of e the inbox would still accept.
Holders(e) == {x \in Executors : /\ exec[x].pc \in {"handle", "complete", "release"}
                                 /\ EventOf(exec[x].key) = e
                                 /\ Holds(e, exec[x].token)}

\* At most one executor at a time holds a claim the inbox honours, whatever
\* runs, timeouts and restarts put several of them on the same event
\* (claim's takeover condition and fresh token).
SoleHolder == \A e \in Events : \A x, y \in Holders(e) : x = y

\* A row is never recorded as dispatched on the strength of a send nobody
\* made: even when dispatchers lose their leases and settle each other's
\* entries, a succeeded (or pruned) row has a run the runtime accepted
\* (dispatchOutbox sends before it calls succeed).
DispatchedHasRun ==
    \A e \in Events : row[e].status \in {"succeeded", "pruned"} =>
        \E k \in Keys : EventOf(k) = e /\ Started(k)

\* Settlement re-dispatches only what no consumer completed, and under a
\* generation no send has used, so an external runtime starts a fresh run
\* instead of returning the one that ended (settleUnconsumed's attempts + 1).
SettlementStartsAfresh ==
    [][\A e \in Events :
         row[e].status = "succeeded" /\ row'[e].status = "pending" =>
            /\ inbox[e].status # "completed"
            /\ ~Started(<<e, row'[e].attempts>>)]_vars

\* An event whose provenance is refused never reaches the inbox or a handler:
\* the permanent failure comes before the claim, on every delivery
\* (handleEventWithInbox verifies and authorizes first).
RefusedLeavesNoClaim == \A e \in refused : inbox[e].status = "none"

\* A committed event does not stay in flight for ever: it completes, is
\* dead-lettered where an operator sees it (the outbox, or the Queue's own
\* dead-letter queue once every message of it was given up), or leaves the
\* replay window.  Lost runs, lost leases and stopped dispatchers only delay it.
InDeadLetterQueue(e) ==
    /\ ~Dedupes
    /\ \A k \in Keys : EventOf(k) = e => runs[k].status \in {"none", "ended"}

Resolved(e) ==
    \/ inbox[e].status = "completed"
    \/ row[e].status = "dead"
    \/ ~window[e]
    \/ row[e].status = "succeeded" /\ InDeadLetterQueue(e)

CommittedResolves == \A e \in Events : row[e].status # "absent" ~> Resolved(e)

\* What the documentation says of every re-dispatch, asked of redrive: a
\* redriven event is dispatched under a generation no send has used, so the
\* runtime starts a run for it (docs/JOB_RUNTIMES.md, "Settlement").
RedriveStartsAfresh ==
    [][\A e \in Events :
         row[e].status = "dead" /\ row'[e].status = "pending" =>
            ~Started(<<e, row'[e].attempts>>)]_vars

-----------------------------------------------------------------------------
\* Event delivery implements its contract.
phase == [e \in Events |->
            IF row[e].status = "absent" THEN "absent"
            ELSE IF inbox[e].status = "completed" THEN "completed"
            ELSE IF row[e].status = "dead" THEN "parked" ELSE "committed"]

Contract == INSTANCE EventContract WITH Events <- Events, phase <- phase
ImplementsContract == Contract!Spec
=============================================================================
