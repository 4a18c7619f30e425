------------------------ MODULE EventDeliveryProofs ------------------------
(***************************************************************************)
(* Proofs about event delivery for every set of events, dispatchers and    *)
(* executors, and every cap and bound.                                     *)
(***************************************************************************)
EXTENDS EventDelivery, TLAPS

-----------------------------------------------------------------------------
(* The outbox's rows, under whatever its clients do. *)

\* Every statement keeps the rows well formed and their attempts under the cap.
LEMMA OutboxStepInv ==
    ASSUME OutboxTypeOK, AttemptsCapped, [OutboxNext]_outboxVars
    PROVE  OutboxTypeOK' /\ AttemptsCapped'
<1> USE OutboxAssumption DEF OutboxTypeOK, AttemptsCapped, Row, Statuses, InStatus
<1>1. CASE UNCHANGED outboxVars
  BY <1>1 DEF outboxVars
<1>2. ASSUME NEW batch \in SUBSET Events, LeaseRows(batch)
      PROVE  OutboxTypeOK' /\ AttemptsCapped'
  BY <1>2 DEF LeaseRows, Leasable
<1>3. ASSUME NEW e \in Events, LeaseRunsOut(e)
      PROVE  OutboxTypeOK' /\ AttemptsCapped'
  BY <1>3 DEF LeaseRunsOut
<1>4. ASSUME NEW e \in Events, Append(e)
      PROVE  OutboxTypeOK' /\ AttemptsCapped'
  BY <1>4 DEF Append
<1>5. ASSUME NEW e \in Events, Redrive(e)
      PROVE  OutboxTypeOK' /\ AttemptsCapped'
  BY <1>5 DEF Redrive
<1>6. ASSUME NEW e \in Events, Succeed(e)
      PROVE  OutboxTypeOK' /\ AttemptsCapped'
  BY <1>6 DEF Succeed, MaySucceed
<1>7. ASSUME NEW e \in Events, Fail(e)
      PROVE  OutboxTypeOK' /\ AttemptsCapped'
  BY <1>7 DEF Fail, MayFail
<1>8. ASSUME NEW e \in Events, SettleDead(e)
      PROVE  OutboxTypeOK' /\ AttemptsCapped'
  BY <1>8 DEF SettleDead
<1>9. ASSUME NEW e \in Events, SettleAgain(e)
      PROVE  OutboxTypeOK' /\ AttemptsCapped'
  BY <1>9 DEF SettleAgain
<1>10. ASSUME NEW e \in Events, Reject(e)
      PROVE  OutboxTypeOK' /\ AttemptsCapped'
  BY <1>10 DEF Reject
<1>11. ASSUME NEW e \in Events, Prune(e)
      PROVE  OutboxTypeOK' /\ AttemptsCapped'
  BY <1>11 DEF Prune
<1> QED
  BY <1>1, <1>2, <1>3, <1>4, <1>5, <1>6, <1>7, <1>8, <1>9, <1>10, <1>11 DEF OutboxNext

\* The statements never take a dead row out of that state except by a redrive,
\* and never lower a generation.
LEMMA OutboxStepDead ==
    ASSUME OutboxTypeOK, [OutboxNext]_outboxVars, NEW e \in Events,
           row[e].status = "dead", row'[e].status # "dead"
    PROVE  redrives'[e] = redrives[e] + 1
<1> USE DEF OutboxTypeOK, Row, Statuses, InStatus
<1>1. CASE UNCHANGED outboxVars
  BY <1>1 DEF outboxVars
<1>2. ASSUME NEW batch \in SUBSET Events, LeaseRows(batch)
      PROVE  FALSE
  BY <1>2 DEF LeaseRows, Leasable
<1>3. ASSUME NEW f \in Events,
             \/ Append(f) \/ LeaseRunsOut(f) \/ Succeed(f) \/ Fail(f)
             \/ SettleDead(f) \/ SettleAgain(f) \/ Reject(f) \/ Prune(f)
      PROVE  FALSE
  BY <1>3 DEF Append, LeaseRunsOut, Succeed, MaySucceed, Fail, MayFail,
              SettleDead, SettleAgain, Reject, Prune
<1>4. ASSUME NEW f \in Events, Redrive(f)
      PROVE  redrives'[e] = redrives[e] + 1
  BY <1>4 DEF Redrive
<1> QED
  BY <1>1, <1>2, <1>3, <1>4 DEF OutboxNext

\* No statement lowers the generation of a committed row.
LEMMA OutboxStepGeneration ==
    ASSUME OutboxTypeOK, [OutboxNext]_outboxVars, NEW e \in Events,
           row[e].status # "absent"
    PROVE  row'[e].attempts >= row[e].attempts
<1> USE DEF OutboxTypeOK, Row, Statuses, InStatus
<1>1. CASE UNCHANGED outboxVars
  BY <1>1 DEF outboxVars
<1>2. ASSUME NEW batch \in SUBSET Events, LeaseRows(batch)
      PROVE  row'[e].attempts >= row[e].attempts
  <2>1. row'[e].attempts = row[e].attempts
    BY <1>2 DEF LeaseRows
  <2> QED
    BY <2>1
<1>3. ASSUME NEW f \in Events, Append(f)
      PROVE  row'[e].attempts >= row[e].attempts
  <2>1. f # e
    BY <1>3 DEF Append
  <2>2. row'[e] = row[e] /\ row[e].attempts \in Nat
    BY <1>3, <2>1 DEF Append
  <2> QED
    BY <2>2
<1>6. ASSUME NEW f \in Events, LeaseRunsOut(f) \/ Redrive(f) \/ Prune(f)
      PROVE  row'[e].attempts >= row[e].attempts
  BY <1>6 DEF LeaseRunsOut, Redrive, Prune
<1>4. ASSUME NEW f \in Events, Succeed(f) \/ SettleDead(f) \/ Reject(f)
      PROVE  row'[e].attempts >= row[e].attempts
  BY <1>4 DEF Succeed, SettleDead, Reject
<1>5. ASSUME NEW f \in Events, Fail(f) \/ SettleAgain(f)
      PROVE  row'[e].attempts >= row[e].attempts
  BY <1>5 DEF Fail, SettleAgain
<1> QED
  BY <1>1, <1>2, <1>3, <1>4, <1>5, <1>6 DEF OutboxNext

\* No statement takes a redrive back.
LEMMA OutboxStepRedrives ==
    ASSUME OutboxTypeOK, [OutboxNext]_outboxVars, NEW e \in Events
    PROVE  redrives'[e] \in Nat /\ redrives[e] \in Nat /\ redrives'[e] >= redrives[e]
<1>1. redrives \in [Events -> 0..MaxRedrives] /\ redrives[e] \in Nat
  BY OutboxAssumption DEF OutboxTypeOK
<1>2. ASSUME NEW f \in Events, Redrive(f)
      PROVE  redrives'[e] \in Nat /\ redrives'[e] >= redrives[e]
  BY <1>1, <1>2 DEF Redrive
<1>3. CASE UNCHANGED redrives
  BY <1>1, <1>3
<1> QED
  BY <1>1, <1>2, <1>3 DEF OutboxNext, outboxVars, LeaseRows, Append, LeaseRunsOut, Succeed, Fail,
     SettleDead, SettleAgain, Reject, Prune

-----------------------------------------------------------------------------
(* The types, with the keys the actors hold. *)

\* A dispatcher that settles an entry, and an executor at work, have a key.
KeysHeld ==
    /\ \A d \in Dispatchers : disp[d].pc \in {"succeed", "fail"} => disp[d].cur \in Keys
    /\ \A x \in Executors : exec[x].pc # "idle" => exec[x].key \in Keys

\* A run that is not over has a delivery left.
TriesLeft ==
    \A k \in Keys : runs[k].status \in {"queued", "running"} => runs[k].tries < MaxTries

TypeInv == DeliveryTypeOK /\ AttemptsCapped /\ KeysHeld /\ TriesLeft

\* Every step of event delivery is a statement against the outbox, or leaves
\* the rows alone.
LEMMA DeliveryStepsOutbox ==
    ASSUME KeysHeld, [Next]_vars
    PROVE  [OutboxNext]_outboxVars
<1> USE DEF KeysHeld, inboxVars, runtimeVars, EventOf
<1>1. CASE UNCHANGED vars
  BY <1>1 DEF vars, outboxVars
<1>2. ASSUME NEW e \in Events, DatabaseStep(e)
      PROVE  [OutboxNext]_outboxVars
  BY <1>2 DEF DatabaseStep, Commit, LeaseTimeout, ClaimTimeout, LeaveWindow, Settle,
              OperatorRedrive, PruneProvenance, OutboxNext
<1>3. ASSUME NEW d \in Dispatchers, DispatcherStep(d)
      PROVE  [OutboxNext]_outboxVars
  <2>1. ASSUME NEW batch \in SUBSET Events, LeaseBatch(d, batch)
        PROVE  [OutboxNext]_outboxVars
    BY <2>1 DEF LeaseBatch, OutboxNext
  <2>2. ASSUME NEW k \in Keys, Publish(d, k)
        PROVE  [OutboxNext]_outboxVars
    BY <2>2 DEF Publish
  <2>3. CASE MarkSucceeded(d)
    BY <2>3 DEF MarkSucceeded, OutboxNext, Keys
  <2>4. CASE MarkFailed(d)
    BY <2>4 DEF MarkFailed, OutboxNext, Keys
  <2>5. CASE DispatcherStops(d)
    BY <2>5 DEF DispatcherStops
  <2> QED
    BY <1>3, <2>1, <2>2, <2>3, <2>4, <2>5 DEF DispatcherStep
<1>4. ASSUME NEW k \in Keys, RuntimeStep(k)
      PROVE  [OutboxNext]_outboxVars
  BY <1>4 DEF RuntimeStep, RunTimeout, RunLost, DeliverTwice
<1>5. ASSUME NEW x \in Executors, ExecutorStep(x)
      PROVE  [OutboxNext]_outboxVars
  <2>1. CASE RejectEvent(x)
    BY <2>1 DEF RejectEvent, OutboxNext, Keys
  <2>2. CASE ~RejectEvent(x)
    BY <1>5, <2>2 DEF ExecutorStep, Deliver, Verify, ClaimEvent, Handle, CompleteEvent,
                      ReleaseEvent, Acknowledge, Retry, ExecutorStops
  <2> QED
    BY <2>1, <2>2
<1> QED
  BY <1>1, <1>2, <1>3, <1>4, <1>5 DEF Next

\* The initial states are well formed.
LEMMA TypeInvInit ==
    ASSUME Init
    PROVE  TypeInv
<1> USE OutboxAssumption, DeliveryAssumption DEF Init
<1>1. OutboxTypeOK /\ AttemptsCapped
  BY DEF OutboxInit, OutboxTypeOK, AttemptsCapped, Row, Statuses
<1>2. InboxTypeOK
  BY DEF InboxInit, InboxTypeOK, InboxRow, NoToken
<1>3. runs \in [Keys -> RunState] /\ TriesLeft
  BY DEF RunState, TriesLeft
<1>4. disp \in [Dispatchers -> DispatcherState] /\ exec \in [Executors -> ExecutorState] /\ KeysHeld
  BY DEF KeysHeld, IdleDispatcher, DispatcherState, IdleExecutor, ExecutorState, NoToken
<1> QED
  BY <1>1, <1>2, <1>3, <1>4 DEF TypeInv, DeliveryTypeOK

\* The end of a delivery leaves a well-formed run.
LEMMA RunResults ==
    ASSUME runs \in [Keys -> RunState], TriesLeft, NEW k \in Keys,
           runs[k].status \in {"queued", "running"} \/ runs[k].tries + 1 < MaxTries
    PROVE  /\ TryAgain(k) \in RunState
           /\ TryAgain(k).status \in {"queued", "running"} => TryAgain(k).tries < MaxTries
           /\ TryAgain(k).status # "none"
           /\ Ended(k) \in RunState
           /\ Ended(k).status = "ended"
<1> USE DeliveryAssumption DEF RunState
<1>1. runs[k] \in RunState /\ runs[k].tries < MaxTries
  BY DEF TriesLeft
<1>2. /\ TryAgain(k).tries = runs[k].tries + 1
      /\ TryAgain(k).by = NoExecutor
      /\ TryAgain(k).status = IF runs[k].tries + 1 < MaxTries THEN "queued" ELSE "ended"
  BY DEF TryAgain
<1>3. TryAgain(k) \in RunState
  <2>1. runs[k].tries + 1 \in 0..MaxTries
    BY <1>1
  <2> QED
    BY <2>1 DEF TryAgain
<1>4. Ended(k) \in RunState /\ Ended(k).status = "ended"
  BY <1>1 DEF Ended
<1>5. TryAgain(k).status # "none"
  BY <1>2
<1>6. ASSUME TryAgain(k).status \in {"queued", "running"}
      PROVE  TryAgain(k).tries < MaxTries
  BY <1>2, <1>6
<1> QED
  BY <1>3, <1>4, <1>5, <1>6

RunsOK == runs \in [Keys -> RunState] /\ TriesLeft
ActorsOK ==
    /\ disp \in [Dispatchers -> DispatcherState]
    /\ exec \in [Executors -> ExecutorState]
    /\ KeysHeld

\* No step un-starts a run or breaks its form.
LEMMA RunsStep ==
    ASSUME RunsOK, KeysHeld, [Next]_vars
    PROVE  RunsOK' /\ \A k \in Keys : Started(k) => Started(k)'
<1> USE DEF RunsOK, Started
<1>1. CASE UNCHANGED runs
  BY <1>1 DEF TriesLeft
<1>2. ASSUME NEW k \in Keys, NEW r \in RunState,
             r.status # "none", r.status \in {"queued", "running"} => r.tries < MaxTries,
             runs' = [runs EXCEPT ![k] = r]
      PROVE  RunsOK' /\ \A j \in Keys : Started(j) => Started(j)'
  BY <1>2 DEF TriesLeft
<1>3. ASSUME NEW d \in Dispatchers, NEW k \in Keys, Publish(d, k)
      PROVE  RunsOK' /\ \A j \in Keys : Started(j) => Started(j)'
  <2>1. CASE UNCHANGED runs
    BY <2>1, <1>1
  <2>2. CASE ~UNCHANGED runs
    <3> DEFINE r == [status |-> "queued", by |-> NoExecutor, tries |-> 0]
    <3>1. PICK slot \in SlotOf(k) : Accept(slot)
      BY <1>3, <2>2 DEF Publish
    <3>2. slot \in Keys /\ runs' = [runs EXCEPT ![slot] = r]
      BY <3>1, <2>2 DEF Accept, SlotOf
    <3>3. r \in RunState /\ r.status # "none" /\ r.tries < MaxTries
      BY DeliveryAssumption DEF RunState
    <3> HIDE DEF r
    <3> QED
      BY <3>2, <3>3, <1>2
  <2> QED
    BY <2>1, <2>2
<1>4. ASSUME NEW k \in Keys, RuntimeStep(k)
      PROVE  RunsOK' /\ \A j \in Keys : Started(j) => Started(j)'
  <2>1. CASE RunTimeout(k)
    BY <2>1, <1>2, RunResults DEF RunTimeout
  <2>2. CASE RunLost(k)
    <3>1. runs' = [runs EXCEPT ![k] = Ended(k)]
      BY <2>2 DEF RunLost, Ended
    <3> QED
      BY <2>2, <3>1, <1>2, RunResults DEF RunLost
  <2>3. CASE DeliverTwice(k)
    BY <2>3, <1>2, RunResults DEF DeliverTwice
  <2> QED
    BY <1>4, <2>1, <2>2, <2>3 DEF RuntimeStep
<1>5. ASSUME NEW x \in Executors, ExecutorStep(x)
      PROVE  RunsOK' /\ \A j \in Keys : Started(j) => Started(j)'
  <2>1. ASSUME NEW k \in Keys, Deliver(x, k)
        PROVE  RunsOK' /\ \A j \in Keys : Started(j) => Started(j)'
    <3> DEFINE r == [runs[k] EXCEPT !.status = "running", !.by = x]
    <3>1. runs' = [runs EXCEPT ![k] = r]
      BY <2>1 DEF Deliver
    <3>2. r \in RunState /\ r.status # "none" /\ r.tries < MaxTries
      BY <2>1 DEF Deliver, RunState, TriesLeft
    <3> HIDE DEF r
    <3> QED
      BY <3>1, <3>2, <1>2
  <2>2. ASSUME exec[x].pc # "idle",
               Report(x, TryAgain(exec[x].key)) \/ Report(x, Ended(exec[x].key))
        PROVE  RunsOK' /\ \A j \in Keys : Started(j) => Started(j)'
    <3> DEFINE k == exec[x].key
    <3>1. k \in Keys
      BY <2>2 DEF KeysHeld
    <3>2. CASE runs[k].status = "running" /\ runs[k].by = x
      <4>1. \/ runs' = [runs EXCEPT ![k] = TryAgain(k)]
            \/ runs' = [runs EXCEPT ![k] = Ended(k)]
        BY <2>2, <3>2 DEF Report
      <4> QED
        BY <4>1, <3>1, <3>2, <1>2, RunResults
    <3>3. CASE ~(runs[k].status = "running" /\ runs[k].by = x)
      BY <2>2, <3>3, <1>1 DEF Report
    <3> QED
      BY <3>2, <3>3
  <2>3. CASE Acknowledge(x) \/ Retry(x) \/ RejectEvent(x)
    BY <2>2, <2>3 DEF Acknowledge, Retry, RejectEvent
  <2>4. CASE \/ Verify(x) \/ ClaimEvent(x) \/ Handle(x) \/ CompleteEvent(x)
             \/ ReleaseEvent(x) \/ ExecutorStops(x)
    BY <2>4, <1>1 DEF Verify, ClaimEvent, Handle, CompleteEvent, ReleaseEvent, ExecutorStops
  <2> QED
    BY <1>5, <2>1, <2>3, <2>4 DEF ExecutorStep
<1>6. ASSUME NEW e \in Events, DatabaseStep(e)
      PROVE  UNCHANGED runs
  BY <1>6 DEF DatabaseStep, Commit, LeaseTimeout, ClaimTimeout, LeaveWindow, Settle,
              OperatorRedrive, PruneProvenance, runtimeVars
<1>7. ASSUME NEW d \in Dispatchers, DispatcherStep(d), \A k \in Keys : ~Publish(d, k)
      PROVE  UNCHANGED runs
  BY <1>7 DEF DispatcherStep, LeaseBatch, MarkSucceeded, MarkFailed, DispatcherStops, runtimeVars
<1>8. CASE UNCHANGED vars
  BY <1>8, <1>1 DEF vars
<1> QED
  BY <1>1, <1>3, <1>4, <1>5, <1>6, <1>7, <1>8 DEF Next

\* The generations a dispatcher can read are the ones the runs are keyed by.
LEMMA GenerationsSuffice ==
    ASSUME OutboxTypeOK, AttemptsCapped, NEW e \in Events
    PROVE  <<e, row[e].attempts>> \in Keys
<1>1. /\ row[e].attempts \in Nat /\ redrives[e] \in 0..MaxRedrives
      /\ row[e].attempts <= MaxAttempts + redrives[e]
  BY DEF OutboxTypeOK, AttemptsCapped, Row
<1>2. row[e].attempts \in 0..(MaxAttempts + MaxRedrives)
  BY <1>1, OutboxAssumption
<1> QED
  BY <1>2 DEF Keys, Generations

\* A dispatcher only takes up keys of generations its rows have reached.
LEMMA DispatcherStepActors ==
    ASSUME ActorsOK, OutboxTypeOK, AttemptsCapped, NEW d \in Dispatchers, DispatcherStep(d)
    PROVE  ActorsOK'
<1> USE DEF ActorsOK, KeysHeld, DispatcherState, inboxVars, runtimeVars
<1>1. IdleDispatcher \in DispatcherState /\ IdleDispatcher.pc = "idle"
  BY DEF IdleDispatcher
<1>2. ASSUME NEW s \in DispatcherState, s.pc \in {"succeed", "fail"} => s.cur \in Keys,
             disp' = [disp EXCEPT ![d] = s], UNCHANGED exec
      PROVE  ActorsOK'
  BY <1>2
<1>3. ASSUME NEW batch \in SUBSET Events, LeaseBatch(d, batch)
      PROVE  ActorsOK'
  <2> DEFINE entries == {<<e, row[e].attempts>> : e \in batch}
  <2>1. entries \in SUBSET Keys
    BY GenerationsSuffice
  <2>2. [pc |-> "publish", cur |-> NoKey, todo |-> entries] \in DispatcherState
    BY <2>1
  <2> HIDE DEF entries
  <2>3. disp' = [disp EXCEPT ![d] = [pc |-> "publish", cur |-> NoKey, todo |-> entries]]
    BY <1>3 DEF LeaseBatch, entries
  <2> QED
    BY <1>3, <2>2, <2>3, <1>2 DEF LeaseBatch
<1>4. ASSUME NEW k \in Keys, Publish(d, k)
      PROVE  ActorsOK'
  <2>1. PICK pc \in {"succeed", "fail"} :
          disp' = [disp EXCEPT ![d] = [pc |-> pc, cur |-> k, todo |-> disp[d].todo \ {k}]]
    BY <1>4 DEF Publish
  <2>2. [pc |-> pc, cur |-> k, todo |-> disp[d].todo \ {k}] \in DispatcherState
    BY <2>1
  <2> QED
    BY <1>4, <2>1, <2>2, <1>2 DEF Publish
<1>5. ASSUME NextEntry(d), UNCHANGED exec
      PROVE  ActorsOK'
  <2> DEFINE s == IF disp[d].todo = {} THEN IdleDispatcher
                  ELSE [disp[d] EXCEPT !.pc = "publish", !.cur = NoKey]
  <2>1. s \in DispatcherState /\ s.pc \in {"idle", "publish"}
    BY <1>1
  <2>2. disp' = [disp EXCEPT ![d] = s]
    BY <1>5 DEF NextEntry
  <2> HIDE DEF s
  <2> QED
    BY <1>5, <2>1, <2>2, <1>2
<1>6. CASE MarkSucceeded(d)
  <2>1. CASE disp' = [disp EXCEPT ![d].pc = "fail"]
    BY <1>6, <2>1 DEF MarkSucceeded
  <2> QED
    BY <1>6, <2>1, <1>5 DEF MarkSucceeded
<1>7. CASE MarkFailed(d)
  <2>1. CASE disp' = [disp EXCEPT ![d] = IdleDispatcher]
    BY <1>7, <2>1, <1>1, <1>2 DEF MarkFailed
  <2> QED
    BY <1>7, <2>1, <1>5 DEF MarkFailed
<1>8. CASE DispatcherStops(d)
  BY <1>8, <1>1, <1>2 DEF DispatcherStops
<1> QED
  BY <1>3, <1>4, <1>6, <1>7, <1>8 DEF DispatcherStep

\* An executor keeps a well-formed position and the key it was delivered.
LEMMA ExecutorStepActors ==
    ASSUME ActorsOK, InboxTypeOK, NEW x \in Executors, ExecutorStep(x)
    PROVE  ActorsOK'
<1> USE DEF ActorsOK, KeysHeld, ExecutorState, inboxVars, runtimeVars
<1>1. IdleExecutor \in ExecutorState /\ IdleExecutor.pc = "idle"
  BY DEF IdleExecutor, NoToken
<1>2. ASSUME NEW s \in ExecutorState, s.pc # "idle" => s.key \in Keys,
             exec' = [exec EXCEPT ![x] = s], UNCHANGED disp
      PROVE  ActorsOK'
  BY <1>2
<1>3. ASSUME NEW pc \in {"claim", "handle", "complete", "release", "reject", "acknowledge", "retry"},
             GoTo(x, pc), exec[x].pc # "idle", UNCHANGED disp
      PROVE  ActorsOK'
  BY <1>3 DEF GoTo
<1>4. ASSUME NEW k \in Keys, Deliver(x, k)
      PROVE  ActorsOK'
  BY <1>4, <1>2 DEF Deliver, NoToken
<1>5. CASE Verify(x) \/ Handle(x)
  BY <1>5, <1>3 DEF Verify, Handle
<1>6. CASE ClaimEvent(x)
  <2> DEFINE e == EventOf(exec[x].key)
  <2>1. e \in Events
    BY <1>6 DEF ClaimEvent, Keys, EventOf
  <2>2. Claimed(e) \in Nat
    BY <2>1 DEF Claimed, InboxTypeOK, InboxRow
  <2>3. CASE exec' = [exec EXCEPT ![x].pc = "handle", ![x].token = Claimed(e)]
    BY <1>6, <2>2, <2>3 DEF ClaimEvent
  <2>4. CASE GoTo(x, IF inbox[e].status = "completed" THEN "acknowledge" ELSE "retry")
    BY <1>6, <2>4, <1>3 DEF ClaimEvent
  <2> QED
    BY <1>6, <2>3, <2>4 DEF ClaimEvent
<1>7. CASE CompleteEvent(x) \/ ReleaseEvent(x)
  BY <1>7, <1>3 DEF CompleteEvent, ReleaseEvent
<1>8. CASE Acknowledge(x) \/ Retry(x) \/ RejectEvent(x)
  BY <1>8, <1>1, <1>2 DEF Acknowledge, Retry, RejectEvent, Report
<1>9. CASE ExecutorStops(x)
  BY <1>9, <1>1, <1>2 DEF ExecutorStops
<1> QED
  BY <1>4, <1>5, <1>6, <1>7, <1>8, <1>9 DEF ExecutorStep

-----------------------------------------------------------------------------
(* Claims of the inbox. *)

Claiming(x) == exec[x].pc \in {"handle", "complete", "release"}
ClaimOf(x) == EventOf(exec[x].key)

\* Tokens are numbered by the claims of their event, so no two executors share
\* one; and the completions counted are those the inbox records.
InboxInv ==
    /\ InboxTypeOK
    /\ completions = [e \in Events |-> IF inbox[e].status = "completed" THEN 1 ELSE 0]
    /\ \A x \in Executors : Claiming(x) => exec[x].token \in 1..inbox[ClaimOf(x)].claims
    /\ \A x, y \in Executors :
         Claiming(x) /\ Claiming(y) /\ ClaimOf(x) = ClaimOf(y) /\ exec[x].token = exec[y].token
           => x = y

\* A step that neither writes the inbox nor lets an executor into a claim.
ClaimsKept ==
    /\ UNCHANGED <<inbox, completions>>
    /\ \A x \in Executors :
         Claiming(x)' => Claiming(x) /\ exec'[x].key = exec[x].key /\ exec'[x].token = exec[x].token

\* A step that leaves the claims alone keeps what is known of them.
LEMMA ClaimsKeptInv ==
    ASSUME InboxInv, ClaimsKept
    PROVE  InboxInv'
BY DEF InboxInv, ClaimsKept, InboxTypeOK, ClaimOf

\* An executor's claim lasts while it only moves inside it.
LEMMA GoToKeepsClaims ==
    ASSUME ActorsOK, NEW x \in Executors, NEW pc, GoTo(x, pc),
           pc \in {"handle", "complete", "release"} => Claiming(x)
    PROVE  \A y \in Executors :
             Claiming(y)' => Claiming(y) /\ exec'[y].key = exec[y].key /\ exec'[y].token = exec[y].token
BY DEF ActorsOK, GoTo, Claiming, ExecutorState

\* A consumer that claims draws a fresh token, and one that completes a claim
\* finds it its own: whatever an executor does, the claims stay distinct.
LEMMA ExecutorStepClaims ==
    ASSUME ActorsOK, InboxInv, NEW x \in Executors, ExecutorStep(x)
    PROVE  InboxInv'
<1> USE DEF inboxVars, runtimeVars
<1> DEFINE e == ClaimOf(x)
<1>0. exec[x].pc # "idle" => e \in Events
  BY DEF ActorsOK, KeysHeld, ClaimOf, Keys, EventOf
<1>1. ASSUME exec'[x].pc \in {"idle", "verify"},
             \A y \in Executors : y # x => exec'[y] = exec[y],
             UNCHANGED <<inbox, completions>>
      PROVE  InboxInv'
  BY <1>1, ClaimsKeptInv DEF ClaimsKept, Claiming
<1>2. ASSUME NEW pc, GoTo(x, pc), pc \in {"handle", "complete", "release"} => Claiming(x),
             UNCHANGED <<inbox, completions>>
      PROVE  InboxInv'
  BY <1>2, GoToKeepsClaims, ClaimsKeptInv DEF ClaimsKept
<1>3. ASSUME NEW k \in Keys, Deliver(x, k)
      PROVE  InboxInv'
  <2>1. exec'[x].pc = "verify" /\ \A y \in Executors : y # x => exec'[y] = exec[y]
    BY <1>3 DEF Deliver, ActorsOK
  <2> QED
    BY <1>3, <2>1, <1>1 DEF Deliver
<1>4. CASE Verify(x)
  BY <1>4, <1>2 DEF Verify
<1>5. CASE ClaimEvent(x)
  <2>1. CASE Claim(e) /\ exec' = [exec EXCEPT ![x].pc = "handle", ![x].token = Claimed(e)]
    <3>1. e \in Events /\ inbox[e].status # "completed"
      BY <1>0, <1>5, <2>1 DEF ClaimEvent, Claim, Claimable
    <3>2. /\ inbox[e].claims \in Nat
          /\ inbox' = [inbox EXCEPT ![e] = [status    |-> "processing",
                                            token     |-> inbox[e].claims + 1,
                                            leaseOver |-> FALSE,
                                            claims    |-> inbox[e].claims + 1]]
      BY <2>1, <3>1 DEF InboxInv, InboxTypeOK, InboxRow, Claim, Claimed
    <3>3. InboxTypeOK'
      BY <3>1, <3>2 DEF InboxInv, InboxTypeOK, InboxRow
    <3>4. completions' = [f \in Events |-> IF inbox'[f].status = "completed" THEN 1 ELSE 0]
      <4>1. completions' = completions
        BY <1>5 DEF ClaimEvent
      <4>2. \A f \in Events : inbox'[f].status = "completed" <=> inbox[f].status = "completed"
        BY <3>1, <3>2 DEF InboxInv, InboxTypeOK
      <4> QED
        BY <4>1, <4>2 DEF InboxInv
    <3>5. /\ exec'[x].key = exec[x].key /\ exec'[x].token = inbox[e].claims + 1
          /\ \A y \in Executors : y # x => exec'[y] = exec[y]
      BY <2>1 DEF ActorsOK, ExecutorState, Claimed
    <3>6. \A y \in Executors : y # x /\ Claiming(y)' => Claiming(y) /\ ClaimOf(y)' = ClaimOf(y)
      BY <3>5 DEF Claiming, ClaimOf
    <3>7. ClaimOf(x)' = e
      BY <3>5 DEF ClaimOf
    <3>8. \A f \in Events : inbox'[f].claims = IF f = e THEN inbox[e].claims + 1 ELSE inbox[f].claims
      BY <3>1, <3>2 DEF InboxInv, InboxTypeOK
    <3>9. \A y \in Executors : Claiming(y) => ClaimOf(y) \in Events
      BY DEF ActorsOK, KeysHeld, Claiming, ClaimOf, Keys, EventOf
    <3>10. \A y \in Executors : Claiming(y)' => exec'[y].token \in 1..(inbox'[ClaimOf(y)'].claims)
      <4>1. \A f \in Events : inbox[f].claims \in Nat
        BY DEF InboxInv, InboxTypeOK, InboxRow
      <4> QED
        BY <3>1, <3>2, <3>5, <3>6, <3>7, <3>8, <3>9, <4>1 DEF InboxInv
    <3>11. ASSUME NEW y \in Executors, NEW z \in Executors,
                  Claiming(y)', Claiming(z)', ClaimOf(y)' = ClaimOf(z)', exec'[y].token = exec'[z].token
           PROVE  y = z
      <4>1. CASE y # x /\ z # x
        BY <4>1, <3>11, <3>5, <3>6 DEF InboxInv
      <4>2. ASSUME NEW w \in Executors, w # x, Claiming(w)', ClaimOf(w)' = e
            PROVE  exec'[w].token # inbox[e].claims + 1
        BY <4>2, <3>2, <3>5, <3>6 DEF InboxInv
      <4> QED
        BY <3>5, <3>7, <3>11, <4>1, <4>2
    <3> QED
      BY <3>3, <3>4, <3>10, <3>11 DEF InboxInv
  <2>2. CASE GoTo(x, IF inbox[e].status = "completed" THEN "acknowledge" ELSE "retry")
               /\ UNCHANGED <<inbox, completions>>
    BY <2>2, <1>2
  <2> QED
    BY <1>5, <2>1, <2>2 DEF ClaimEvent, ClaimOf
<1>6. CASE Handle(x)
  BY <1>6, <1>2 DEF Handle, Claiming
<1>7. CASE CompleteEvent(x)
  <2>1. CASE Complete(e, exec[x].token) /\ completions' = [completions EXCEPT ![e] = @ + 1]
               /\ GoTo(x, "acknowledge")
    <3>1. e \in Events /\ inbox[e] \in InboxRow /\ inbox[e].status = "processing"
      BY <1>0, <1>7, <2>1 DEF CompleteEvent, Complete, Holds, InboxInv, InboxTypeOK
    <3>2. /\ \A f \in Events : f # e => inbox'[f] = inbox[f]
          /\ inbox'[e].status = "completed" /\ inbox'[e].claims = inbox[e].claims
          /\ InboxTypeOK'
      BY <2>1, <3>1 DEF Complete, InboxInv, InboxTypeOK, InboxRow, NoToken
    <3>3. completions' = [f \in Events |-> IF inbox'[f].status = "completed" THEN 1 ELSE 0]
      BY <2>1, <3>1, <3>2 DEF InboxInv
    <3>4. \A y \in Executors :
             Claiming(y)' => Claiming(y) /\ exec'[y].key = exec[y].key /\ exec'[y].token = exec[y].token
      BY <2>1, GoToKeepsClaims
    <3>5. \A f \in Events : inbox'[f].claims = inbox[f].claims
      BY <3>2
    <3>6. \A y \in Executors : Claiming(y) => ClaimOf(y) \in Events
      BY DEF ActorsOK, KeysHeld, Claiming, ClaimOf, Keys, EventOf
    <3> QED
      BY <3>2, <3>3, <3>4, <3>5, <3>6 DEF InboxInv, ClaimOf
  <2>2. CASE GoTo(x, "release") /\ UNCHANGED <<inbox, completions>>
    BY <1>7, <2>2, <1>2 DEF CompleteEvent, Claiming
  <2> QED
    BY <1>7, <2>1, <2>2 DEF CompleteEvent, ClaimOf
<1>8. CASE ReleaseEvent(x)
  <2>1. CASE Release(e, exec[x].token)
    <3>1. e \in Events /\ inbox[e] \in InboxRow /\ inbox[e].status = "processing"
      BY <1>0, <1>8, <2>1 DEF ReleaseEvent, Release, Holds, InboxInv, InboxTypeOK
    <3>2. /\ \A f \in Events : inbox'[f].claims = inbox[f].claims /\ inbox'[f].status = inbox[f].status
          /\ InboxTypeOK'
      BY <2>1, <3>1 DEF Release, InboxInv, InboxTypeOK, InboxRow, NoToken
    <3>3. completions' = completions
      BY <1>8 DEF ReleaseEvent
    <3>4. \A y \in Executors :
             Claiming(y)' => Claiming(y) /\ exec'[y].key = exec[y].key /\ exec'[y].token = exec[y].token
      BY <1>8, GoToKeepsClaims DEF ReleaseEvent
    <3>6. \A y \in Executors : Claiming(y) => ClaimOf(y) \in Events
      BY DEF ActorsOK, KeysHeld, Claiming, ClaimOf, Keys, EventOf
    <3> QED
      BY <3>2, <3>3, <3>4, <3>6 DEF InboxInv, ClaimOf
  <2>2. CASE UNCHANGED inbox
    BY <1>8, <2>2, <1>2 DEF ReleaseEvent
  <2> QED
    BY <1>8, <2>1, <2>2 DEF ReleaseEvent, ClaimOf
<1>9. CASE Acknowledge(x) \/ Retry(x) \/ RejectEvent(x) \/ ExecutorStops(x)
  <2>1. exec' = [exec EXCEPT ![x] = IdleExecutor] /\ UNCHANGED <<inbox, completions>>
    BY <1>9 DEF Acknowledge, Retry, RejectEvent, ExecutorStops, Report
  <2>2. exec'[x].pc = "idle" /\ \A y \in Executors : y # x => exec'[y] = exec[y]
    BY <2>1 DEF ActorsOK, IdleExecutor
  <2> QED
    BY <2>1, <2>2, <1>1
<1> QED
  BY <1>3, <1>4, <1>5, <1>6, <1>7, <1>8, <1>9 DEF ExecutorStep

\* No other actor writes a claim; time only ends one.
LEMMA OtherStepClaims ==
    ASSUME ActorsOK, InboxInv, [Next]_vars, \A x \in Executors : ~ExecutorStep(x)
    PROVE  InboxInv'
<1> USE DEF inboxVars, runtimeVars
<1>1. ASSUME NEW e \in Events, ClaimRunsOut(e), UNCHANGED <<completions, exec>>
      PROVE  InboxInv'
  <2>1. InboxTypeOK'
    BY <1>1 DEF ClaimRunsOut, InboxInv, InboxTypeOK, InboxRow
  <2>2. \A f \in Events : inbox'[f].claims = inbox[f].claims /\ inbox'[f].status = inbox[f].status
    BY <1>1 DEF ClaimRunsOut, InboxInv, InboxTypeOK, InboxRow
  <2>3. \A y \in Executors : Claiming(y) => ClaimOf(y) \in Events
    BY DEF ActorsOK, KeysHeld, Claiming, ClaimOf, Keys, EventOf
  <2> QED
    BY <1>1, <2>1, <2>2, <2>3 DEF InboxInv, Claiming, ClaimOf
<1>2. CASE UNCHANGED <<inbox, completions, exec>>
  BY <1>2 DEF InboxInv, InboxTypeOK, Claiming, ClaimOf
<1>3. ASSUME NEW e \in Events, DatabaseStep(e)
      PROVE  InboxInv'
  <2>1. CASE ClaimTimeout(e)
    BY <2>1, <1>1 DEF ClaimTimeout
  <2>2. CASE ~ClaimTimeout(e)
    BY <1>2, <1>3, <2>2 DEF DatabaseStep, Commit, LeaseTimeout, LeaveWindow, Settle,
                            OperatorRedrive, PruneProvenance
  <2> QED
    BY <2>1, <2>2
<1>4. ASSUME NEW d \in Dispatchers, DispatcherStep(d)
      PROVE  InboxInv'
  BY <1>2, <1>4 DEF DispatcherStep, LeaseBatch, Publish, MarkSucceeded, MarkFailed, DispatcherStops
<1>5. ASSUME NEW k \in Keys, RuntimeStep(k)
      PROVE  InboxInv'
  BY <1>2, <1>5 DEF RuntimeStep, RunTimeout, RunLost, DeliverTwice
<1>6. CASE UNCHANGED vars
  BY <1>2, <1>6 DEF vars
<1> QED
  BY <1>3, <1>4, <1>5, <1>6 DEF Next

-----------------------------------------------------------------------------
(* Type correctness, and what follows from the claims. *)

BaseInv == DeliveryTypeOK /\ AttemptsCapped /\ KeysHeld /\ TriesLeft /\ InboxInv

\* The base invariant holds initially.
LEMMA BaseInvInit ==
    ASSUME Init
    PROVE  BaseInv
BY TypeInvInit DEF TypeInv, BaseInv, InboxInv, Init, InboxInit, DeliveryTypeOK, Claiming, IdleExecutor

\* Every step keeps the base invariant.
LEMMA BaseInvStep ==
    ASSUME BaseInv, [Next]_vars
    PROVE  BaseInv'
<1>1. OutboxTypeOK /\ AttemptsCapped /\ RunsOK /\ ActorsOK /\ InboxInv /\ KeysHeld
  BY DEF BaseInv, DeliveryTypeOK, RunsOK, ActorsOK
<1>2. [OutboxNext]_outboxVars
  BY <1>1, DeliveryStepsOutbox
<1>3. OutboxTypeOK' /\ AttemptsCapped'
  BY <1>1, <1>2, OutboxStepInv
<1>4. RunsOK'
  BY <1>1, RunsStep
<1>5. ActorsOK'
  <2>1. ASSUME NEW d \in Dispatchers, DispatcherStep(d)
        PROVE  ActorsOK'
    BY <1>1, <2>1, DispatcherStepActors
  <2>2. ASSUME NEW x \in Executors, ExecutorStep(x)
        PROVE  ActorsOK'
    BY <1>1, <2>2, ExecutorStepActors DEF InboxInv
  <2>3. CASE UNCHANGED <<disp, exec>>
    BY <1>1, <2>3 DEF ActorsOK, KeysHeld
  <2>4. ASSUME NEW e \in Events, DatabaseStep(e)
        PROVE  UNCHANGED <<disp, exec>>
    BY <2>4 DEF DatabaseStep, Commit, LeaseTimeout, ClaimTimeout, LeaveWindow, Settle,
                OperatorRedrive, PruneProvenance, runtimeVars
  <2>5. ASSUME NEW k \in Keys, RuntimeStep(k)
        PROVE  UNCHANGED <<disp, exec>>
    BY <2>5 DEF RuntimeStep, RunTimeout, RunLost, DeliverTwice
  <2> QED
    BY <2>1, <2>2, <2>3, <2>4, <2>5 DEF Next, vars
<1>6. InboxInv'
  BY <1>1, ExecutorStepClaims, OtherStepClaims
<1>7. /\ runtime' \in Runtimes /\ refused' \subseteq Events
      /\ window' \in [Events -> BOOLEAN]
  <2> USE DEF BaseInv, DeliveryTypeOK, inboxVars, deployment
  <2>1. CASE UNCHANGED <<window, deployment>>
    BY <2>1
  <2>2. ASSUME NEW e \in Events, DatabaseStep(e)
        PROVE  UNCHANGED deployment /\ window' \in [Events -> BOOLEAN]
    <3>1. CASE LeaveWindow(e)
      BY <3>1 DEF LeaveWindow
    <3>2. CASE ~LeaveWindow(e)
      BY <2>2, <3>2 DEF DatabaseStep, Commit, LeaseTimeout, ClaimTimeout, Settle,
                        OperatorRedrive, PruneProvenance
    <3> QED
      BY <3>1, <3>2
  <2>3. ASSUME NEW d \in Dispatchers, DispatcherStep(d)
        PROVE  UNCHANGED <<window, deployment>>
    BY <2>3 DEF DispatcherStep, LeaseBatch, Publish, MarkSucceeded, MarkFailed, DispatcherStops
  <2>4. ASSUME NEW k \in Keys, RuntimeStep(k)
        PROVE  UNCHANGED <<window, deployment>>
    BY <2>4 DEF RuntimeStep, RunTimeout, RunLost, DeliverTwice
  <2>5. ASSUME NEW x \in Executors, ExecutorStep(x)
        PROVE  UNCHANGED <<window, deployment>>
    BY <2>5 DEF ExecutorStep, Deliver, Verify, ClaimEvent, Handle, CompleteEvent,
                ReleaseEvent, Acknowledge, Retry, RejectEvent, ExecutorStops
  <2> QED
    BY <2>1, <2>2, <2>3, <2>4, <2>5 DEF Next, vars
<1>8. completions' \in [Events -> Nat]
  BY <1>6 DEF InboxInv
<1> QED
  BY <1>3, <1>4, <1>5, <1>6, <1>7, <1>8
     DEF BaseInv, DeliveryTypeOK, RunsOK, ActorsOK, InboxInv

\* Event delivery keeps its base invariant: types, the attempt cap, well-formed
\* runs and keys, and distinct claims.
THEOREM BaseInvariant == Spec => []BaseInv
<1>1. BaseInv /\ [Next]_vars => BaseInv'
  BY BaseInvStep
<1> QED
  BY BaseInvInit, <1>1, PTL DEF Spec

\* No event is completed twice, whatever is redelivered or taken over.
THEOREM CompletedAtMostOnce == Spec => []CompletedOnce
<1>1. BaseInv => CompletedOnce
  BY DEF BaseInv, InboxInv, CompletedOnce
<1> QED
  BY BaseInvariant, <1>1, PTL

\* At most one executor holds a claim the inbox would accept.
THEOREM OneHolder == Spec => []SoleHolder
<1>1. BaseInv => SoleHolder
  BY DEF BaseInv, InboxInv, SoleHolder, Holders, Holds, Claiming, ClaimOf
<1> QED
  BY BaseInvariant, <1>1, PTL

\* Only a redrive takes a row out of the dead letters.
THEOREM DeadLettersStay == Spec => DeadUntilRedriven
<1> DEFINE A == \A e \in Events :
                  row[e].status = "dead" /\ row'[e].status # "dead"
                    => redrives'[e] = redrives[e] + 1
<1>1. BaseInv /\ [Next]_vars => [A]_outboxVars
  <2> SUFFICES ASSUME BaseInv, [Next]_vars
               PROVE  A
    OBVIOUS
  <2>1. OutboxTypeOK /\ [OutboxNext]_outboxVars
    BY DeliveryStepsOutbox DEF BaseInv, DeliveryTypeOK
  <2> QED
    BY <2>1, OutboxStepDead
<1> QED
  BY BaseInvariant, <1>1, PTL DEF Spec, DeadUntilRedriven

\* Under clients that issue the store's statements in any order, the counted failures
\* and settlements of a row stay within the cap and its redrives.
THEOREM OutboxCountsAreCapped == OutboxSpec => [](OutboxTypeOK /\ AttemptsCapped)
<1>1. OutboxInit => OutboxTypeOK /\ AttemptsCapped
  BY OutboxAssumption DEF OutboxInit, OutboxTypeOK, AttemptsCapped, Row, Statuses
<1>2. OutboxTypeOK /\ AttemptsCapped /\ [OutboxNext]_outboxVars => OutboxTypeOK' /\ AttemptsCapped'
  BY OutboxStepInv
<1> QED
  BY <1>1, <1>2, PTL DEF OutboxSpec

\* And only a redrive takes a row out of the dead letters, whoever settles it.
THEOREM OutboxKeepsDead == OutboxSpec => DeadUntilRedriven
<1> DEFINE A == \A e \in Events :
                  row[e].status = "dead" /\ row'[e].status # "dead"
                    => redrives'[e] = redrives[e] + 1
<1>1. OutboxTypeOK /\ [OutboxNext]_outboxVars => [A]_outboxVars
  BY OutboxStepDead
<1> QED
  BY OutboxCountsAreCapped, <1>1, PTL DEF OutboxSpec, DeadUntilRedriven

\* Dispatchers, executors, the sweep and operators drive the outbox only by the
\* store's statements, so what is true of the outbox under any clients is true
\* here.
THEOREM DeliveryDrivesOutbox == Spec => OutboxSpec
<1>1. Init => OutboxInit
  BY DEF Init
<1>2. BaseInv /\ [Next]_vars => [OutboxNext]_outboxVars
  BY DeliveryStepsOutbox DEF BaseInv
<1> QED
  BY <1>1, <1>2, BaseInvariant, PTL DEF Spec, OutboxSpec

-----------------------------------------------------------------------------
(* Rows, sends and generations. *)

\* How a statement can change the status of one row.
LEMMA OutboxStepStatus ==
    ASSUME OutboxTypeOK, [OutboxNext]_outboxVars, NEW e \in Events
    PROVE  /\ row[e].status # "absent" => row'[e].status # "absent"
           /\ row[e].status = "succeeded" /\ row'[e].status = "pending" => SettleAgain(e)
           /\ row'[e].status \in {"succeeded", "pruned"} =>
                row[e].status \in {"succeeded", "pruned"} \/ Succeed(e)
<1> USE DEF OutboxTypeOK, Row, Statuses, InStatus
<1> DEFINE Goal == /\ row[e].status # "absent" => row'[e].status # "absent"
                   /\ row[e].status = "succeeded" /\ row'[e].status = "pending" => SettleAgain(e)
                   /\ row'[e].status \in {"succeeded", "pruned"} =>
                        row[e].status \in {"succeeded", "pruned"} \/ Succeed(e)
<1>1. CASE UNCHANGED outboxVars
  BY <1>1 DEF outboxVars
<1>2. ASSUME NEW batch \in SUBSET Events, LeaseRows(batch)
      PROVE  Goal
  BY <1>2 DEF LeaseRows, Leasable
<1>3. ASSUME NEW f \in Events,
             row' = [row EXCEPT ![f] = row'[f]],
             f = e => Goal
      PROVE  Goal
  BY <1>3
<1>4. ASSUME NEW f \in Events, Append(f) \/ LeaseRunsOut(f) \/ Fail(f) \/ SettleDead(f)
      PROVE  Goal
  BY <1>4, <1>3 DEF Append, LeaseRunsOut, Fail, MayFail, SettleDead
<1>5. ASSUME NEW f \in Events, Reject(f) \/ Redrive(f) \/ Prune(f)
      PROVE  Goal
  BY <1>5, <1>3 DEF Reject, Redrive, Prune
<1>6. ASSUME NEW f \in Events, Succeed(f)
      PROVE  Goal
  BY <1>6, <1>3 DEF Succeed
<1>7. ASSUME NEW f \in Events, SettleAgain(f)
      PROVE  Goal
  BY <1>7, <1>3 DEF SettleAgain
<1> QED
  BY <1>1, <1>2, <1>4, <1>5, <1>6, <1>7 DEF OutboxNext

HasRun(e) == \E k \in Keys : EventOf(k) = e /\ Started(k)

\* A dispatcher about to mark a row has sent its event.
SentInv ==
    /\ \A d \in Dispatchers : disp[d].pc = "succeed" => HasRun(EventOf(disp[d].cur))
    /\ DispatchedHasRun

\* Every step keeps the link between rows marked as sent and the runs.
LEMMA SentInvStep ==
    ASSUME BaseInv, SentInv, [Next]_vars
    PROVE  SentInv'
<1> USE DEF inboxVars, runtimeVars
<1>1. OutboxTypeOK /\ ActorsOK /\ [OutboxNext]_outboxVars
  BY DeliveryStepsOutbox DEF BaseInv, DeliveryTypeOK, ActorsOK
<1>2. \A e \in Events : HasRun(e) => HasRun(e)'
  <2>1. \A k \in Keys : Started(k) => Started(k)'
    BY RunsStep DEF BaseInv, DeliveryTypeOK, RunsOK
  <2> QED
    BY <2>1 DEF HasRun, EventOf
<1>3. \A d \in Dispatchers : disp[d].pc = "succeed" => EventOf(disp[d].cur) \in Events
  BY DEF BaseInv, KeysHeld, EventOf, Keys
<1>4. \A d \in Dispatchers : disp'[d].pc = "succeed" => HasRun(EventOf(disp[d].cur))'
  <2>1. CASE UNCHANGED disp
    <3>1. ASSUME NEW d \in Dispatchers, disp'[d].pc = "succeed"
          PROVE  HasRun(EventOf(disp[d].cur))'
      <4>1. HasRun(EventOf(disp[d].cur)) /\ EventOf(disp[d].cur) \in Events
        BY <2>1, <3>1, <1>3 DEF SentInv
      <4>2. EventOf(disp[d].cur)' = EventOf(disp[d].cur)
        BY <2>1 DEF EventOf
      <4> QED
        BY <1>2, <4>1, <4>2 DEF HasRun
    <3> QED
      BY <3>1
  <2>2. ASSUME NEW d \in Dispatchers, DispatcherStep(d)
        PROVE  disp'[d].pc = "succeed" => HasRun(EventOf(disp[d].cur))'
    <3>1. ASSUME NEW k \in Keys, Publish(d, k), disp'[d].pc = "succeed"
          PROVE  HasRun(EventOf(disp[d].cur))'
      <4>1. PICK slot \in SlotOf(k) : Accept(slot)
        BY <1>1, <3>1 DEF Publish, ActorsOK, DispatcherState
      <4>2. slot \in Keys /\ EventOf(slot) = EventOf(k)
        BY <4>1 DEF SlotOf
      <4>3. Started(slot)'
        BY <4>1, <4>2 DEF Accept, Started, BaseInv, DeliveryTypeOK
      <4>4. disp'[d].cur = k
        BY <1>1, <3>1 DEF Publish, ActorsOK, DispatcherState
      <4> QED
        BY <4>2, <4>3, <4>4 DEF HasRun, EventOf
    <3>2. ASSUME \A k \in Keys : ~Publish(d, k)
          PROVE  disp'[d].pc # "succeed"
      <4> USE DEF ActorsOK, DispatcherState, IdleDispatcher
      <4>1. CASE NextEntry(d)
        BY <1>1, <4>1 DEF NextEntry
      <4>2. CASE disp' = [disp EXCEPT ![d] = IdleDispatcher]
        BY <1>1, <4>2
      <4>3. CASE disp' = [disp EXCEPT ![d].pc = "fail"]
        BY <1>1, <4>3
      <4>4. ASSUME NEW batch \in SUBSET Events, LeaseBatch(d, batch)
            PROVE  disp'[d].pc # "succeed"
        BY <1>1, <4>4 DEF LeaseBatch
      <4> QED
        BY <2>2, <3>2, <4>1, <4>2, <4>3, <4>4
           DEF DispatcherStep, MarkSucceeded, MarkFailed, DispatcherStops
    <3> QED
      BY <3>1, <3>2
  <2>3. ASSUME NEW d \in Dispatchers, DispatcherStep(d), NEW c \in Dispatchers, c # d
        PROVE  disp'[c] = disp[c]
    BY <1>1, <2>3 DEF DispatcherStep, LeaseBatch, Publish, MarkSucceeded, MarkFailed,
       DispatcherStops, NextEntry, ActorsOK
  <2>4. ASSUME NEW e \in Events, DatabaseStep(e)
        PROVE  UNCHANGED disp
    BY <2>4 DEF DatabaseStep, Commit, LeaseTimeout, ClaimTimeout, LeaveWindow, Settle,
                OperatorRedrive, PruneProvenance
  <2>5. ASSUME NEW k \in Keys, RuntimeStep(k)
        PROVE  UNCHANGED disp
    BY <2>5 DEF RuntimeStep, RunTimeout, RunLost, DeliverTwice
  <2>6. ASSUME NEW x \in Executors, ExecutorStep(x)
        PROVE  UNCHANGED disp
    BY <2>6 DEF ExecutorStep, Deliver, Verify, ClaimEvent, Handle, CompleteEvent,
                ReleaseEvent, Acknowledge, Retry, RejectEvent, ExecutorStops
  <2> QED
    <3>1. CASE UNCHANGED disp
      BY <2>1, <3>1
    <3>2. CASE ~UNCHANGED disp
      <4>1. PICK d \in Dispatchers : DispatcherStep(d)
        BY <3>2, <2>4, <2>5, <2>6 DEF Next, vars
      <4>2. ASSUME NEW c \in Dispatchers, c # d, disp'[c].pc = "succeed"
            PROVE  HasRun(EventOf(disp[c].cur))'
        <5>1. HasRun(EventOf(disp[c].cur)) /\ EventOf(disp[c].cur) \in Events
          BY <4>1, <4>2, <2>3, <1>3 DEF SentInv
        <5>2. EventOf(disp[c].cur)' = EventOf(disp[c].cur)
          BY <4>1, <4>2, <2>3 DEF EventOf
        <5> QED
          BY <1>2, <5>1, <5>2 DEF HasRun
      <4> QED
        BY <4>1, <4>2, <2>2
    <3> QED
      BY <3>1, <3>2
<1>6. ASSUME NEW e \in Events, row'[e].status \in {"succeeded", "pruned"},
             row[e].status \notin {"succeeded", "pruned"}
      PROVE  \E d \in Dispatchers : disp[d].pc = "succeed" /\ EventOf(disp[d].cur) = e
  <2> USE DEF OutboxTypeOK, Row, InStatus
  <2>1. ASSUME NEW f \in Events, DatabaseStep(f)
        PROVE  FALSE
    BY <1>1, <1>6, <2>1 DEF DatabaseStep, Commit, LeaseTimeout, ClaimTimeout, LeaveWindow,
       Settle, OperatorRedrive, PruneProvenance, Append, LeaseRunsOut, SettleDead, SettleAgain,
       Redrive, Prune, outboxVars
  <2>2. ASSUME NEW d \in Dispatchers, DispatcherStep(d)
        PROVE  disp[d].pc = "succeed" /\ EventOf(disp[d].cur) = e
    <3>1. CASE MarkSucceeded(d)
      BY <1>1, <1>3, <1>6, <3>1 DEF MarkSucceeded, Succeed, outboxVars
    <3>2. CASE MarkFailed(d)
      BY <1>1, <1>6, <3>2 DEF MarkFailed, Fail, outboxVars
    <3>3. ASSUME NEW batch \in SUBSET Events, LeaseBatch(d, batch)
          PROVE  FALSE
      BY <1>1, <1>6, <3>3 DEF LeaseBatch, LeaseRows
    <3>4. CASE UNCHANGED outboxVars
      BY <1>6, <3>4 DEF outboxVars
    <3> QED
      BY <2>2, <3>1, <3>2, <3>3, <3>4 DEF DispatcherStep, Publish, DispatcherStops
  <2>3. ASSUME NEW k \in Keys, RuntimeStep(k)
        PROVE  FALSE
    BY <1>6, <2>3 DEF RuntimeStep, RunTimeout, RunLost, DeliverTwice, outboxVars
  <2>4. ASSUME NEW x \in Executors, ExecutorStep(x)
        PROVE  FALSE
    <3>1. CASE UNCHANGED outboxVars
      BY <1>6, <3>1 DEF outboxVars
    <3>2. ASSUME exec[x].pc # "idle", Reject(EventOf(exec[x].key))
          PROVE  FALSE
      BY <1>1, <1>6, <3>2 DEF Reject, ActorsOK, KeysHeld, Keys, EventOf
    <3> QED
      BY <2>4, <3>1, <3>2 DEF ExecutorStep, Deliver, Verify, ClaimEvent, Handle, CompleteEvent,
         ReleaseEvent, Acknowledge, Retry, RejectEvent, ExecutorStops
  <2>5. CASE UNCHANGED vars
    BY <1>6, <2>5 DEF vars
  <2> QED
    BY <2>1, <2>2, <2>3, <2>4, <2>5 DEF Next
<1>7. DispatchedHasRun'
  <2> SUFFICES ASSUME NEW e \in Events, row'[e].status \in {"succeeded", "pruned"}
               PROVE  HasRun(e)'
    BY DEF DispatchedHasRun, HasRun
  <2>1. CASE row[e].status \in {"succeeded", "pruned"}
    BY <1>2, <2>1 DEF SentInv, DispatchedHasRun, HasRun
  <2>2. CASE row[e].status \notin {"succeeded", "pruned"}
    BY <1>2, <1>6, <2>2 DEF SentInv
  <2> QED
    BY <2>1, <2>2
<1> QED
  BY <1>4, <1>7 DEF SentInv

\* A row recorded as dispatched has a run the runtime accepted.
THEOREM DispatchedRowsHaveRuns == Spec => []DispatchedHasRun
<1> DEFINE Inv == BaseInv /\ SentInv
<1>1. Init => Inv
  BY BaseInvInit DEF Init, OutboxInit, SentInv, DispatchedHasRun, IdleDispatcher
<1>2. Inv /\ [Next]_vars => Inv'
  BY BaseInvStep, SentInvStep
<1>3. Inv => DispatchedHasRun
  BY DEF SentInv
<1> QED
  BY <1>1, <1>2, <1>3, PTL DEF Spec

-----------------------------------------------------------------------------
(* Generations. *)

\* The row of k is committed and has reached its generation, which is below the cap.
Reached(k) ==
    /\ row[EventOf(k)].status # "absent" /\ k[2] <= row[EventOf(k)].attempts
    /\ k[2] < MaxAttempts + redrives[EventOf(k)]

GenerationInv ==
    /\ \A k \in Keys : Started(k) => row[EventOf(k)].status # "absent"
    /\ \A k \in Keys : Started(k) /\ Dedupes => Reached(k)
    /\ \A d \in Dispatchers : \A k \in disp[d].todo : Reached(k)
    /\ \A x \in Executors : exec[x].pc # "idle" => row[EventOf(exec[x].key)].status # "absent"
    /\ \A e \in Events : inbox[e].status # "none" => row[e].status # "absent"

\* A generation once reached stays reached: rows never disappear or go back.
LEMMA ReachedStays ==
    ASSUME BaseInv, [Next]_vars, NEW k \in Keys
    PROVE  /\ row[EventOf(k)].status # "absent" => row'[EventOf(k)].status # "absent"
           /\ Reached(k) => Reached(k)'
<1> DEFINE e == EventOf(k)
<1>1. e \in Events /\ k[2] \in Nat
  BY OutboxAssumption DEF Keys, EventOf, Generations
<1>2. OutboxTypeOK /\ OutboxTypeOK' /\ [OutboxNext]_outboxVars
  BY BaseInvStep, DeliveryStepsOutbox DEF BaseInv, DeliveryTypeOK
<1>3. row[e].status # "absent" => row'[e].status # "absent" /\ row'[e].attempts >= row[e].attempts
  BY <1>1, <1>2, OutboxStepStatus, OutboxStepGeneration
<1>4. row[e].attempts \in Nat /\ row'[e].attempts \in Nat
  BY <1>1, <1>2 DEF OutboxTypeOK, Row
<1>5. EventOf(k)' = EventOf(k)
  BY DEF EventOf
<1>6. redrives'[e] \in Nat /\ redrives[e] \in Nat /\ redrives'[e] >= redrives[e]
  BY <1>1, <1>2, OutboxStepRedrives
<1>7. ASSUME k[2] < MaxAttempts + redrives[e] PROVE k[2] < MaxAttempts + redrives'[e]
  BY <1>1, <1>6, <1>7, OutboxAssumption
<1> QED
  BY <1>1, <1>3, <1>4, <1>5, <1>7 DEF Reached

\* A step starts a run only for a generation some dispatcher reached.
LEMMA StartedStep ==
    ASSUME BaseInv, GenerationInv, [Next]_vars, NEW k \in Keys, ~Started(k), Started(k)'
    PROVE  row[EventOf(k)].status # "absent" /\ (Dedupes => Reached(k))
<1> USE DEF inboxVars, runtimeVars, Started
<1>1. runs' # runs /\ runs \in [Keys -> RunState]
  BY DEF BaseInv, DeliveryTypeOK
<1>2. ASSUME NEW j \in Keys, Started(j), NEW r, runs' = [runs EXCEPT ![j] = r] PROVE FALSE
  BY <1>1, <1>2
<1>3. ASSUME NEW d \in Dispatchers, NEW j \in Keys, Publish(d, j)
      PROVE  row[EventOf(k)].status # "absent" /\ (Dedupes => Reached(k))
  <2>1. PICK slot \in SlotOf(j) : Accept(slot)
    BY <1>1, <1>3 DEF Publish
  <2>2. slot = k
    BY <1>1, <2>1 DEF Accept, SlotOf
  <2>3. Reached(j)
    BY <1>3 DEF Publish, GenerationInv
  <2>4. EventOf(k) = EventOf(j) /\ (Dedupes => k = j)
    BY <2>1, <2>2 DEF SlotOf
  <2> QED
    BY <2>3, <2>4 DEF Reached
<1>4. ASSUME NEW j \in Keys, RuntimeStep(j)
      PROVE  FALSE
  <2>1. Started(j)
    BY <1>4 DEF RuntimeStep, RunTimeout, RunLost, DeliverTwice
  <2>2. runs' = [runs EXCEPT ![j] = runs'[j]]
    BY <1>1, <1>4 DEF RuntimeStep, RunTimeout, RunLost, DeliverTwice
  <2> QED
    BY <2>1, <2>2, <1>2
<1>5. ASSUME NEW x \in Executors, ExecutorStep(x)
      PROVE  FALSE
  <2>1. ASSUME NEW j \in Keys, Deliver(x, j)
        PROVE  FALSE
    <3>1. Started(j) /\ runs' = [runs EXCEPT ![j] = runs'[j]]
      BY <1>1, <2>1 DEF Deliver
    <3> QED
      BY <3>1, <1>2
  <2>2. ASSUME NEW result, exec[x].pc # "idle", Report(x, result)
        PROVE  FALSE
    BY <1>1, <1>2, <2>2 DEF Report, BaseInv, KeysHeld
  <2> QED
    BY <1>1, <1>5, <2>1, <2>2 DEF ExecutorStep, Verify, ClaimEvent, Handle, CompleteEvent,
       ReleaseEvent, Acknowledge, Retry, RejectEvent, ExecutorStops
<1>6. ASSUME NEW e \in Events, DatabaseStep(e)
      PROVE  FALSE
  BY <1>1, <1>6 DEF DatabaseStep, Commit, LeaseTimeout, ClaimTimeout, LeaveWindow, Settle,
                    OperatorRedrive, PruneProvenance
<1>7. ASSUME NEW d \in Dispatchers, DispatcherStep(d), \A j \in Keys : ~Publish(d, j)
      PROVE  FALSE
  BY <1>1, <1>7 DEF DispatcherStep, LeaseBatch, MarkSucceeded, MarkFailed, DispatcherStops
<1>8. CASE UNCHANGED vars
  BY <1>1, <1>8 DEF vars
<1> QED
  BY <1>3, <1>4, <1>5, <1>6, <1>7, <1>8 DEF Next

\* The actors only pick up keys that were reached.
LEMMA GenerationInvStep ==
    ASSUME BaseInv, GenerationInv, [Next]_vars
    PROVE  GenerationInv'
<1> USE DEF inboxVars, runtimeVars, deployment
<1>1. OutboxTypeOK /\ AttemptsCapped /\ ActorsOK /\ InboxTypeOK
  BY DEF BaseInv, DeliveryTypeOK, ActorsOK
<1>2. Dedupes' <=> Dedupes
  BY DEF Next, vars, Dedupes, DatabaseStep, Commit, LeaseTimeout, ClaimTimeout, LeaveWindow,
     Settle, OperatorRedrive, PruneProvenance, DispatcherStep, LeaseBatch, Publish, MarkSucceeded,
     MarkFailed, DispatcherStops, RuntimeStep, RunTimeout, RunLost, DeliverTwice, ExecutorStep,
     Deliver, Verify, ClaimEvent, Handle, CompleteEvent, ReleaseEvent, Acknowledge, Retry,
     RejectEvent, ExecutorStops
<1>3. ASSUME NEW k \in Keys, Started(k)'
      PROVE  row'[EventOf(k)].status # "absent" /\ (Dedupes' => Reached(k)')
  <2>1. row[EventOf(k)].status # "absent" /\ (Dedupes => Reached(k))
    <3>1. CASE Started(k)
      BY <3>1 DEF GenerationInv
    <3>2. CASE ~Started(k)
      BY <1>3, <3>2, StartedStep
    <3> QED
      BY <3>1, <3>2
  <2> QED
    BY <1>2, <2>1, ReachedStays
<1>4. ASSUME NEW d \in Dispatchers, NEW k \in disp'[d].todo
      PROVE  Reached(k)'
  <2>1. CASE k \in disp[d].todo
    <3>1. k \in Keys /\ Reached(k)
      BY <1>1, <2>1 DEF ActorsOK, DispatcherState, GenerationInv
    <3> QED
      BY <3>1, ReachedStays
  <2>2. CASE k \notin disp[d].todo
    <3>1. disp' # disp
      BY <1>4, <2>2
    <3>2. PICK c \in Dispatchers : DispatcherStep(c)
      BY <3>1 DEF Next, vars, DatabaseStep, Commit, LeaseTimeout, ClaimTimeout, LeaveWindow,
         Settle, OperatorRedrive, PruneProvenance, RuntimeStep, RunTimeout, RunLost, DeliverTwice,
         ExecutorStep, Deliver, Verify, ClaimEvent, Handle, CompleteEvent, ReleaseEvent,
         Acknowledge, Retry, RejectEvent, ExecutorStops
    <3>3. ASSUME NEW j \in Keys, Publish(c, j)
          PROVE  FALSE
      BY <1>1, <1>4, <2>2, <3>3 DEF Publish, ActorsOK, DispatcherState
    <3>4. ASSUME NextEntry(c) \/ disp' = [disp EXCEPT ![c] = IdleDispatcher]
                 \/ disp' = [disp EXCEPT ![c].pc = "fail"]
          PROVE  FALSE
      <4> USE DEF IdleDispatcher, ActorsOK, DispatcherState
      <4>1. CASE NextEntry(c)
        BY <1>1, <1>4, <2>2, <4>1 DEF NextEntry
      <4>2. CASE disp' = [disp EXCEPT ![c] = IdleDispatcher]
        BY <1>1, <1>4, <2>2, <4>2
      <4>3. CASE disp' = [disp EXCEPT ![c].pc = "fail"]
        BY <1>1, <1>4, <2>2, <4>3
      <4> QED
        BY <3>4, <4>1, <4>2, <4>3
    <3>5. PICK batch \in SUBSET Events : LeaseBatch(c, batch)
      BY <3>2, <3>3, <3>4 DEF DispatcherStep, MarkSucceeded, MarkFailed, DispatcherStops
    <3>6. d = c /\ disp'[d].todo = {<<e, row[e].attempts>> : e \in batch}
      BY <1>1, <1>4, <2>2, <3>5 DEF LeaseBatch, ActorsOK, DispatcherState
    <3>7. PICK e \in batch : k = <<e, row[e].attempts>>
      BY <1>4, <3>6
    <3>8. row'[e].status = "leased" /\ row'[e].attempts = row[e].attempts
          /\ row[e].attempts \in Nat
      BY <1>1, <3>5, <3>7 DEF LeaseBatch, LeaseRows, OutboxTypeOK, Row
    <3>9. row'[e].attempts < MaxAttempts + redrives'[e]
      <4>1. OutboxTypeOK' /\ AttemptsCapped'
        BY BaseInvStep DEF BaseInv, DeliveryTypeOK
      <4> QED
        BY <3>7, <3>8, <4>1 DEF AttemptsCapped
    <3> QED
      BY <3>7, <3>8, <3>9 DEF Reached, EventOf
  <2> QED
    BY <2>1, <2>2
<1>5. ASSUME NEW x \in Executors, exec'[x].pc # "idle"
      PROVE  row'[EventOf(exec[x].key)'].status # "absent"
  <2>1. CASE exec[x].pc # "idle" /\ exec'[x].key = exec[x].key
    <3>1. exec[x].key \in Keys /\ row[EventOf(exec[x].key)].status # "absent"
      BY <2>1 DEF BaseInv, KeysHeld, GenerationInv
    <3> QED
      BY <2>1, <3>1, ReachedStays DEF EventOf
  <2>2. ASSUME NEW k \in Keys, Deliver(x, k)
        PROVE  row'[EventOf(exec[x].key)'].status # "absent"
    <3>1. exec'[x].key = k
      BY <1>1, <2>2 DEF Deliver, ActorsOK
    <3>2. row[EventOf(k)].status # "absent"
      BY <2>2 DEF Deliver, GenerationInv, Started
    <3> QED
      BY <3>1, <3>2, ReachedStays DEF EventOf
  <2>3. ASSUME exec' # exec, \A k \in Keys : ~Deliver(x, k)
        PROVE  exec[x].pc # "idle" /\ exec'[x].key = exec[x].key
    <3>1. PICK y \in Executors : ExecutorStep(y)
      BY <2>3 DEF Next, vars, DatabaseStep, Commit, LeaseTimeout, ClaimTimeout, LeaveWindow,
         Settle, OperatorRedrive, PruneProvenance, RuntimeStep, RunTimeout, RunLost, DeliverTwice,
         DispatcherStep, LeaseBatch, Publish, MarkSucceeded, MarkFailed, DispatcherStops
    <3>2. CASE y # x
      BY <1>1, <1>5, <3>1, <3>2 DEF ActorsOK, ExecutorStep, Deliver, Verify, ClaimEvent, Handle,
         CompleteEvent, ReleaseEvent, Acknowledge, Retry, RejectEvent, ExecutorStops, GoTo, Report
    <3>3. CASE y = x
      <4>1. CASE exec' = [exec EXCEPT ![x] = IdleExecutor]
        BY <1>1, <1>5, <4>1 DEF IdleExecutor, ActorsOK
      <4>2. ASSUME NEW pc, GoTo(x, pc), exec[x].pc # "idle"
            PROVE  exec[x].pc # "idle" /\ exec'[x].key = exec[x].key
        BY <1>1, <4>2 DEF GoTo, ActorsOK, ExecutorState
      <4>3. CASE ClaimEvent(x)
        BY <1>1, <4>3, <4>2 DEF ClaimEvent, ActorsOK, ExecutorState
      <4> QED
        BY <2>3, <3>1, <3>3, <4>1, <4>2, <4>3 DEF ExecutorStep, Verify, Handle, CompleteEvent,
           ReleaseEvent, Acknowledge, Retry, RejectEvent, ExecutorStops, Report
    <3> QED
      BY <3>2, <3>3
  <2> QED
    BY <1>5, <2>1, <2>2, <2>3
<1>6. ASSUME NEW e \in Events, inbox'[e].status # "none"
      PROVE  row'[e].status # "absent"
  <2>1. row[e].status # "absent" => row'[e].status # "absent"
    BY <1>1, DeliveryStepsOutbox, OutboxStepStatus DEF BaseInv
  <2>2. CASE inbox[e].status # "none"
    BY <2>1, <2>2 DEF GenerationInv
  <2>3. CASE inbox[e].status = "none"
    <3>1. PICK x \in Executors : ClaimEvent(x) /\ EventOf(exec[x].key) = e
      <4>1. ASSUME NEW f \in Events, ClaimRunsOut(f)
            PROVE  FALSE
        BY <1>1, <1>6, <2>3, <4>1 DEF ClaimRunsOut, InboxTypeOK, InboxRow
      <4>2. ASSUME NEW f, NEW t, Complete(f, t) \/ Release(f, t)
            PROVE  FALSE
        BY <1>1, <1>6, <2>3, <4>2 DEF Complete, Release, Holds, InboxTypeOK, InboxRow
      <4>3. inbox' # inbox
        BY <1>6, <2>3
      <4>4. PICK x \in Executors : ClaimEvent(x)
        BY <4>1, <4>2, <4>3 DEF Next, vars, DatabaseStep, Commit, LeaseTimeout, ClaimTimeout,
           LeaveWindow, Settle, OperatorRedrive, PruneProvenance, RuntimeStep, RunTimeout, RunLost,
           DeliverTwice, DispatcherStep, LeaseBatch, Publish, MarkSucceeded, MarkFailed,
           DispatcherStops, ExecutorStep, Deliver, Verify, Handle, CompleteEvent, ReleaseEvent,
           Acknowledge, Retry, RejectEvent, ExecutorStops
      <4>5. Claim(EventOf(exec[x].key))
        BY <4>3, <4>4 DEF ClaimEvent
      <4>6. EventOf(exec[x].key) = e
        BY <1>1, <1>6, <2>3, <4>5 DEF Claim, InboxTypeOK
      <4> QED
        BY <4>4, <4>6
    <3>2. row[e].status # "absent"
      BY <3>1 DEF ClaimEvent, GenerationInv
    <3> QED
      BY <2>1, <3>2
  <2> QED
    BY <2>2, <2>3
<1> QED
  BY <1>3, <1>4, <1>5, <1>6 DEF GenerationInv

\* No run of a deduplicating runtime is ahead of the generation of its row.
LEMMA GenerationInvariant == Spec => [](BaseInv /\ GenerationInv)
<1>1. Init => BaseInv /\ GenerationInv
  BY BaseInvInit DEF Init, GenerationInv, Started, InboxInit, IdleDispatcher, IdleExecutor
<1>2. BaseInv /\ GenerationInv /\ [Next]_vars => BaseInv' /\ GenerationInv'
  BY BaseInvStep, GenerationInvStep
<1> QED
  BY <1>1, <1>2, PTL DEF Spec

\* The variables of event delivery keep their types, a row's counted failures and
\* settlements stay within the cap and its redrives, and so do the runs that a
\* deduplicating runtime starts for an event.
THEOREM CountsAndRunsAreCapped == Spec => []DeliveryInv
<1>1. BaseInv /\ GenerationInv => DeliveryInv
  BY DEF BaseInv, GenerationInv, Reached, DeliveryInv, RunsCapped
<1> QED
  BY GenerationInvariant, <1>1, PTL

\* Settlement re-dispatches only unconsumed events, under an unused generation.
THEOREM SettlementIsFresh == Spec => SettlementStartsAfresh
<1> DEFINE A == \A e \in Events :
                  row[e].status = "succeeded" /\ row'[e].status = "pending" =>
                    /\ inbox[e].status # "completed"
                    /\ ~Started(<<e, row'[e].attempts>>)
<1>1. BaseInv /\ GenerationInv /\ [Next]_vars => [A]_vars
  <2> SUFFICES ASSUME BaseInv, GenerationInv, [Next]_vars, NEW e \in Events,
                      row[e].status = "succeeded", row'[e].status = "pending"
               PROVE  inbox[e].status # "completed" /\ ~Started(<<e, row'[e].attempts>>)
    OBVIOUS
  <2>1. OutboxTypeOK /\ OutboxTypeOK' /\ AttemptsCapped' /\ [OutboxNext]_outboxVars /\ ActorsOK
    BY BaseInvStep, DeliveryStepsOutbox DEF BaseInv, DeliveryTypeOK, ActorsOK
  <2>2. SettleAgain(e)
    BY <2>1, OutboxStepStatus
  <2>3. row[e].attempts \in Nat /\ row'[e].attempts = row[e].attempts + 1
    BY <2>1, <2>2 DEF SettleAgain, OutboxTypeOK, Row
  <2>4. Settle(e)
    <3> USE <2>1, <2>2 DEF SettleAgain, InStatus, OutboxTypeOK, Row
    <3>1. row' # row
      BY <2>3
    <3>2. ASSUME NEW f \in Events, DatabaseStep(f)
          PROVE  Settle(e)
      BY <3>1, <3>2, <2>3 DEF DatabaseStep, Commit, LeaseTimeout, ClaimTimeout, LeaveWindow,
         Settle, OperatorRedrive, PruneProvenance, Append, LeaseRunsOut, Redrive, Prune, SettleDead,
         outboxVars
    <3>3. ASSUME NEW d \in Dispatchers, DispatcherStep(d)
          PROVE  FALSE
      <4>1. CASE MarkSucceeded(d)
        BY <3>1, <4>1 DEF MarkSucceeded, Succeed, outboxVars
      <4>2. CASE MarkFailed(d)
        BY <3>1, <4>2 DEF MarkFailed, Fail, MayFail, outboxVars
      <4>3. ASSUME NEW batch \in SUBSET Events, LeaseBatch(d, batch)
            PROVE  FALSE
        BY <4>3 DEF LeaseBatch, LeaseRows
      <4> QED
        BY <3>1, <3>3, <4>1, <4>2, <4>3 DEF DispatcherStep, Publish, DispatcherStops, outboxVars
    <3>4. ASSUME NEW k \in Keys, RuntimeStep(k)
          PROVE  FALSE
      BY <3>1, <3>4 DEF RuntimeStep, RunTimeout, RunLost, DeliverTwice, outboxVars
    <3>5. ASSUME NEW x \in Executors, ExecutorStep(x)
          PROVE  FALSE
      <4>1. CASE UNCHANGED outboxVars
        BY <3>1, <4>1 DEF outboxVars
      <4>2. ASSUME NEW f, Reject(f)
            PROVE  FALSE
        BY <4>2 DEF Reject
      <4> QED
        BY <3>5, <4>1, <4>2 DEF ExecutorStep, Deliver, Verify, ClaimEvent, Handle, CompleteEvent,
           ReleaseEvent, Acknowledge, Retry, RejectEvent, ExecutorStops
    <3> QED
      BY <3>1, <3>2, <3>3, <3>4, <3>5 DEF Next, vars
  <2>5. <<e, row'[e].attempts>> \in Keys
    <3>1. redrives'[e] \in 0..MaxRedrives /\ row'[e].attempts \in Nat
          /\ row'[e].attempts <= MaxAttempts + redrives'[e]
      BY <2>1 DEF OutboxTypeOK, AttemptsCapped, Row
    <3> QED
      BY <3>1, OutboxAssumption DEF Keys, Generations
  <2>6. Dedupes /\ inbox[e].status # "completed"
    BY <2>4 DEF Settle, Unconsumed
  <2>7. ~Started(<<e, row'[e].attempts>>)
    BY <2>3, <2>5, <2>6 DEF GenerationInv, Reached, EventOf
  <2> QED
    BY <2>6, <2>7
<1> QED
  BY GenerationInvariant, <1>1, PTL DEF Spec, SettlementStartsAfresh

-----------------------------------------------------------------------------
(* Events whose provenance is refused. *)

RefusedInv ==
    /\ \A x \in Executors : exec[x].pc = "claim" => EventOf(exec[x].key) \notin refused
    /\ RefusedLeavesNoClaim

\* A refused event stays out of the inbox: only Verify leads to the claim.
THEOREM RefusedNeverClaimed == Spec => []RefusedLeavesNoClaim
<1> DEFINE Inv == BaseInv /\ RefusedInv
<1>1. Init => Inv
  BY BaseInvInit DEF Init, RefusedInv, RefusedLeavesNoClaim, InboxInit, IdleExecutor
<1>2. Inv /\ [Next]_vars => Inv'
  <2> SUFFICES ASSUME BaseInv, RefusedInv, [Next]_vars
               PROVE  RefusedInv'
    BY BaseInvStep
  <2> USE DEF inboxVars, runtimeVars, deployment, RefusedInv, RefusedLeavesNoClaim
  <2>1. ActorsOK /\ InboxTypeOK /\ refused \subseteq Events
    BY DEF BaseInv, DeliveryTypeOK, ActorsOK
  <2>2. CASE UNCHANGED <<exec, inbox, refused>>
    BY <2>2
  <2>3. ASSUME NEW e \in Events, DatabaseStep(e)
        PROVE  RefusedInv'
    <3>1. CASE ClaimTimeout(e)
      BY <2>1, <3>1 DEF ClaimTimeout, ClaimRunsOut, InboxTypeOK, InboxRow
    <3>2. CASE ~ClaimTimeout(e)
      BY <2>2, <2>3, <3>2 DEF DatabaseStep, Commit, LeaseTimeout, LeaveWindow, Settle,
         OperatorRedrive, PruneProvenance
    <3> QED
      BY <3>1, <3>2
  <2>4. ASSUME NEW d \in Dispatchers, DispatcherStep(d)
        PROVE  RefusedInv'
    BY <2>2, <2>4 DEF DispatcherStep, LeaseBatch, Publish, MarkSucceeded, MarkFailed, DispatcherStops
  <2>5. ASSUME NEW k \in Keys, RuntimeStep(k)
        PROVE  RefusedInv'
    BY <2>2, <2>5 DEF RuntimeStep, RunTimeout, RunLost, DeliverTwice
  <2>6. ASSUME NEW x \in Executors, ExecutorStep(x)
        PROVE  RefusedInv'
    <3>1. ASSUME exec'[x].pc # "claim", \A y \in Executors : y # x => exec'[y] = exec[y],
                 UNCHANGED <<inbox, refused>>
          PROVE  RefusedInv'
      BY <3>1
    <3>2. ASSUME NEW pc, GoTo(x, pc)
          PROVE  /\ exec'[x].pc = pc /\ exec'[x].key = exec[x].key
                 /\ \A y \in Executors : y # x => exec'[y] = exec[y]
      BY <2>1, <3>2 DEF GoTo, ActorsOK, ExecutorState
    <3>3. ASSUME NEW k \in Keys, Deliver(x, k)
          PROVE  RefusedInv'
      BY <2>1, <3>1, <3>3 DEF Deliver, ActorsOK
    <3>4. CASE Verify(x)
      BY <3>2, <3>4 DEF Verify
    <3>5. CASE ClaimEvent(x)
      <4>1. EventOf(exec[x].key) \notin refused
        BY <3>5 DEF ClaimEvent
      <4>2. \A e \in refused : inbox'[e] = inbox[e]
        BY <2>1, <3>5, <4>1 DEF ClaimEvent, Claim, InboxTypeOK
      <4>3. exec'[x].pc # "claim" /\ \A y \in Executors : y # x => exec'[y] = exec[y]
        <5>1. CASE exec' = [exec EXCEPT ![x].pc = "handle", ![x].token = Claimed(EventOf(exec[x].key))]
          BY <2>1, <5>1 DEF ActorsOK, ExecutorState
        <5> QED
          BY <3>2, <3>5, <5>1 DEF ClaimEvent
      <4> QED
        BY <3>5, <4>2, <4>3 DEF ClaimEvent
    <3>6. CASE Handle(x)
      BY <3>1, <3>2, <3>6 DEF Handle
    <3>7. CASE CompleteEvent(x) \/ ReleaseEvent(x)
      <4>1. \A e \in refused : inbox'[e] = inbox[e]
        BY <2>1, <3>7 DEF CompleteEvent, ReleaseEvent, Complete, Release, Holds, InboxTypeOK
      <4> QED
        BY <3>2, <3>7, <4>1 DEF CompleteEvent, ReleaseEvent
    <3>8. CASE Acknowledge(x) \/ Retry(x) \/ RejectEvent(x) \/ ExecutorStops(x)
      BY <2>1, <3>1, <3>8 DEF Acknowledge, Retry, RejectEvent, ExecutorStops, Report, ActorsOK, IdleExecutor
    <3> QED
      BY <2>6, <3>3, <3>4, <3>5, <3>6, <3>7, <3>8 DEF ExecutorStep
  <2> QED
    BY <2>2, <2>3, <2>4, <2>5, <2>6 DEF Next, vars
<1>3. Inv => RefusedLeavesNoClaim
  BY DEF RefusedInv
<1> QED
  BY <1>1, <1>2, <1>3, PTL DEF Spec

-----------------------------------------------------------------------------
(* The contract. *)

PhaseOf(e) ==
    IF row[e].status = "absent" THEN "absent"
    ELSE IF inbox[e].status = "completed" THEN "completed"
    ELSE IF row[e].status = "dead" THEN "parked" ELSE "committed"

\* One event moving by a move of the contract is a step of the contract.
LEMMA PhaseMove ==
    ASSUME NEW e \in Events,
           \A f \in Events : f # e => PhaseOf(f)' = PhaseOf(f),
           \/ PhaseOf(e)' = PhaseOf(e)
           \/ PhaseOf(e) = "absent" /\ PhaseOf(e)' = "committed"
           \/ PhaseOf(e) \in {"committed", "parked"} /\ PhaseOf(e)' = "completed"
           \/ PhaseOf(e) = "committed" /\ PhaseOf(e)' = "parked"
           \/ PhaseOf(e) = "parked" /\ PhaseOf(e)' = "committed"
    PROVE  [Contract!Next]_phase
<1>1. phase = [f \in Events |-> PhaseOf(f)] /\ phase' = [f \in Events |-> PhaseOf(f)']
  BY DEF phase, PhaseOf
<1>2. phase' = [phase EXCEPT ![e] = PhaseOf(e)']
  BY <1>1
<1>3. phase[e] = PhaseOf(e)
  BY <1>1
<1> HIDE DEF phase, PhaseOf
<1>4. PhaseOf(e)' = PhaseOf(e) => UNCHANGED phase
  BY <1>1
<1> QED
  BY <1>2, <1>3, <1>4 DEF Contract!Next, Contract!Move, Contract!CommitEvent,
     Contract!CompleteEvent, Contract!ParkEvent, Contract!ReturnEvent

\* A step changes one event's phase by a move of the contract, or none.
MovesPhase(e) ==
    /\ \A f \in Events : f # e => PhaseOf(f)' = PhaseOf(f)
    /\ \/ PhaseOf(e)' = PhaseOf(e)
       \/ PhaseOf(e) = "absent" /\ PhaseOf(e)' = "committed"
       \/ PhaseOf(e) \in {"committed", "parked"} /\ PhaseOf(e)' = "completed"
       \/ PhaseOf(e) = "committed" /\ PhaseOf(e)' = "parked"
       \/ PhaseOf(e) = "parked" /\ PhaseOf(e)' = "committed"

\* Every statement against the outbox moves one event, the inbox unchanged.
LEMMA OutboxStepPhase ==
    ASSUME OutboxTypeOK, [OutboxNext]_outboxVars, UNCHANGED inbox,
           \A e \in Events : inbox[e].status # "none" => row[e].status # "absent"
    PROVE  (\A e \in Events : PhaseOf(e)' = PhaseOf(e)) \/ (\E e \in Events : MovesPhase(e))
<1> USE DEF OutboxTypeOK, Row, Statuses, InStatus, PhaseOf
<1>1. CASE UNCHANGED outboxVars
  BY <1>1 DEF outboxVars
<1>2. ASSUME NEW batch \in SUBSET Events, LeaseRows(batch)
      PROVE  \A e \in Events : PhaseOf(e)' = PhaseOf(e)
  BY <1>2 DEF LeaseRows, Leasable
<1>3. ASSUME NEW e \in Events, row' = [row EXCEPT ![e] = row'[e]]
      PROVE  \A f \in Events : f # e => PhaseOf(f)' = PhaseOf(f)
  BY <1>3
<1>4. ASSUME NEW e \in Events, Append(e)
      PROVE  MovesPhase(e)
  BY <1>4, <1>3 DEF Append, MovesPhase
<1>5. ASSUME NEW e \in Events, LeaseRunsOut(e) \/ Succeed(e) \/ SettleAgain(e) \/ Prune(e)
      PROVE  MovesPhase(e)
  BY <1>5, <1>3 DEF LeaseRunsOut, Succeed, MaySucceed, SettleAgain, Prune, MovesPhase
<1>6. ASSUME NEW e \in Events, Fail(e) \/ SettleDead(e) \/ Reject(e)
      PROVE  MovesPhase(e)
  <2>1. /\ row' = [row EXCEPT ![e] = row'[e]]
        /\ row[e].status \in {"pending", "leased", "succeeded"}
        /\ row'[e].status \in {"pending", "dead"}
    BY <1>6 DEF Fail, MayFail, SettleDead, Reject
  <2> QED
    BY <2>1, <1>3 DEF MovesPhase
<1>7. ASSUME NEW e \in Events, Redrive(e)
      PROVE  MovesPhase(e)
  BY <1>7, <1>3 DEF Redrive, MovesPhase
<1> QED
  BY <1>1, <1>2, <1>4, <1>5, <1>6, <1>7 DEF OutboxNext

\* A step writes the inbox by one of its statements and then leaves the rows
\* alone, or it does not write the inbox.
InboxStatement(e) ==
    \/ Claim(e) \/ ClaimRunsOut(e)
    \/ \E token : Complete(e, token) \/ Release(e, token)

\* One database statement is one action, so no step writes both tables.
LEMMA InboxOrOutbox ==
    ASSUME KeysHeld, [Next]_vars
    PROVE  UNCHANGED inbox \/ (UNCHANGED row /\ \E e \in Events : InboxStatement(e))
<1> USE DEF inboxVars, runtimeVars, outboxVars
<1> DEFINE Goal == UNCHANGED inbox \/ (UNCHANGED row /\ \E e \in Events : InboxStatement(e))
<1>1. CASE UNCHANGED vars
  BY <1>1 DEF vars
<1>2. ASSUME NEW e \in Events, DatabaseStep(e)
      PROVE  Goal
  BY <1>2 DEF DatabaseStep, Commit, LeaseTimeout, ClaimTimeout, LeaveWindow, Settle,
              OperatorRedrive, PruneProvenance, InboxStatement
<1>3. ASSUME NEW d \in Dispatchers, DispatcherStep(d)
      PROVE  UNCHANGED inbox
  BY <1>3 DEF DispatcherStep, LeaseBatch, Publish, MarkSucceeded, MarkFailed, DispatcherStops
<1>4. ASSUME NEW k \in Keys, RuntimeStep(k)
      PROVE  UNCHANGED inbox
  BY <1>4 DEF RuntimeStep, RunTimeout, RunLost, DeliverTwice
<1>5. ASSUME NEW x \in Executors, ExecutorStep(x)
      PROVE  Goal
  <2>1. CASE ClaimEvent(x) \/ CompleteEvent(x) \/ ReleaseEvent(x)
    <3>1. EventOf(exec[x].key) \in Events
      BY <2>1 DEF KeysHeld, Keys, EventOf, ClaimEvent, CompleteEvent, ReleaseEvent
    <3> QED
      BY <2>1, <3>1 DEF ClaimEvent, CompleteEvent, ReleaseEvent, InboxStatement
  <2>2. CASE ~(ClaimEvent(x) \/ CompleteEvent(x) \/ ReleaseEvent(x))
    BY <1>5, <2>2 DEF ExecutorStep, Deliver, Verify, Handle, Acknowledge, Retry,
                      RejectEvent, ExecutorStops
  <2> QED
    BY <2>1, <2>2
<1> QED
  BY <1>1, <1>2, <1>3, <1>4, <1>5 DEF Next

\* A claim moves its event only when it completes it.
LEMMA InboxStepPhase ==
    ASSUME InboxTypeOK, UNCHANGED row, NEW e \in Events, InboxStatement(e),
           inbox[e].status # "none" => row[e].status # "absent"
    PROVE  MovesPhase(e)
<1> USE DEF InboxTypeOK, InboxRow
<1>1. \A f \in Events : f # e => inbox'[f] = inbox[f]
  BY DEF InboxStatement, Claim, ClaimRunsOut, Complete, Release
<1>2. inbox'[e].status = "completed" =>
        inbox[e].status \in {"processing", "completed"}
  BY DEF InboxStatement, Claim, ClaimRunsOut, Complete, Release, Holds
<1>3. inbox[e].status # "completed"
  BY DEF InboxStatement, Claim, ClaimRunsOut, Complete, Release, Holds, Claimable
<1> QED
  BY <1>1, <1>2, <1>3 DEF MovesPhase, PhaseOf

\* Event delivery implements its contract: an event completes at most once and
\* for good, and leaves the dead letters only by being returned or completed.
THEOREM DeliveryImplementsContract == Spec => ImplementsContract
<1>1. Init => Contract!Init
  <2> SUFFICES ASSUME Init
               PROVE  Contract!Init
    OBVIOUS
  <2>1. \A e \in Events : row[e].status = "absent"
    BY DEF Init, OutboxInit
  <2> QED
    BY <2>1 DEF Contract!Init, phase
<1>2. BaseInv /\ GenerationInv /\ [Next]_vars => [Contract!Next]_phase
  <2> SUFFICES ASSUME BaseInv, GenerationInv, [Next]_vars
               PROVE  [Contract!Next]_phase
    OBVIOUS
  <2>1. OutboxTypeOK /\ InboxTypeOK /\ KeysHeld
    BY DEF BaseInv, DeliveryTypeOK
  <2>2. \A e \in Events : inbox[e].status # "none" => row[e].status # "absent"
    BY DEF GenerationInv
  <2>3. (\A e \in Events : PhaseOf(e)' = PhaseOf(e)) \/ (\E e \in Events : MovesPhase(e))
    <3>1. CASE UNCHANGED inbox
      BY <2>1, <2>2, <3>1, OutboxStepPhase, DeliveryStepsOutbox
    <3>2. CASE UNCHANGED row /\ \E e \in Events : InboxStatement(e)
      BY <2>1, <2>2, <3>2, InboxStepPhase
    <3> QED
      BY <2>1, <3>1, <3>2, InboxOrOutbox
  <2>4. ASSUME NEW e \in Events, MovesPhase(e)
        PROVE  [Contract!Next]_phase
    BY <2>4, PhaseMove DEF MovesPhase
  <2>5. ASSUME \A e \in Events : PhaseOf(e)' = PhaseOf(e)
        PROVE  UNCHANGED phase
    BY <2>5 DEF phase, PhaseOf
  <2> QED
    BY <2>3, <2>4, <2>5
<1> QED
  BY <1>1, <1>2, GenerationInvariant, PTL DEF Spec, ImplementsContract, Contract!Spec
=============================================================================
