# TrestleJS: formal models

TLA+ modules, TLC configurations and TLAPS proofs for the parts of TrestleJS that
promise work is not lost, not done twice and not done by two processes at once:
the background work of the generated application (`packages/create/template`, `T/`
below), and the infrastructure runner of the `trestle` CLI (`packages/cli`). The
repository is a project generator: what runs, and what is modelled, is the template
it generates and the CLI.

## 1. Inventory

| Component | State it keeps | Operations | What is hard |
|---|---|---|---|
| Transactional outbox (`T/packages/db/src/outbox.ts`) | `outbox_message` rows: status, attempts, lease | insert with the domain transaction, lease, succeed, fail, settle, reject, redrive, prune | settling by id without holding the lease; attempts double as the dispatch generation |
| Event inbox (`inbox.ts`) | `event_inbox` rows: status, token, lease | claim, complete, release | takeover of an expired claim while its holder still works |
| Event dispatch (`events/src/index.ts`, `apps/worker/src/scheduler-runtime.ts`) | a batch in memory | lease, then per entry send, succeed or fail | lost acknowledgements, stops between calls, several dispatchers |
| Job runtimes (Cloudflare Queue, trigger.dev, Inngest) | messages or runs, outside the repository | deliver, time out, lose, repeat | at-least-once delivery; deduplication by event and generation |
| Event consumers (`async-runtime.ts`, `job-runtime.ts`) | none of their own | verify, authorize, claim, handle, complete or release | redelivery, permanent refusals |
| Safety sweep (`scheduler-runtime.ts`) | none | settle, drain, re-record due work, every 15 minutes | repairs what a lost notification or run left behind |
| Due-work scheduler (`scheduler.ts`, `scheduler-object.ts`) | a Durable Object's storage: due time per key, failures, one alarm | schedule, alarm | schedules arrive while a run is awaited; death in the handler |
| Scheduled jobs (`scheduled-jobs.ts`, worker and db) | `scheduled_job` rows: lease, completed slot | notify, due, run (acquire, body, complete or fail, next) | object and minute tasks overlap; leases run out mid-run |
| Job runtime override (`job-runtime-config.ts`) | an override row, a 30 s cache per isolate | read, set, pause, migrate | stale choices during a migration |
| Email sequences (`sequence-runtime.ts`, `db/src/sequences.ts`) | `sequence_run`, `sequence_send` | start, step, send, exit | an exit racing a send; a crash between send and record |
| Outbound webhooks (`db/src/webhook-*.ts`) | deliveries, attempts, leases | project, claim, settle, expire, replay | capacity under concurrency; late attempts |
| Billing reconciliation (`billing-events.ts`) | receipts, a leased cursor with generations | request, claim, settle | reordered and repeated notifications |
| Infrastructure runner (`packages/cli/src/infra`) | reservations with fencing tokens, effects, bindings | reserve, mutate, complete, resume, rotate | effects with an unknown outcome; two operators |
| Others | see `PROJECT.json` | tenancy, access, support sessions, artifacts, regional settings, interfaces, CLI generators | mostly predicates of one request, file generation or I/O |

How they meet: a request commits its domain change and an outbox row in one
transaction and wakes the scheduler object. The object's alarm drains the outbox:
`dispatchOutbox` sends each row to the selected job runtime. The runtime runs a
consumer, which reloads the committed row, claims the inbox and handles the event.
The same object runs scheduled jobs. The sweep repeats all of it every 15 minutes
and, for an external runtime, returns dispatched rows nobody completed to the outbox.

`PROJECT.json` lists the components with their status, and every hazard found, at
the line where it bites, with the properties that cover it or the reason why none
does yet.

What makes each of the modelled ones correct:

- outbox and dispatch: a bounded number of counted failures and settlements, and so of
  an external runtime's runs (but not of sends: a dispatcher that stops after one counts
  nothing), nothing recorded as sent that was not, dead letters that stay, no committed
  event in flight for ever;
- inbox and consumers: one holder of a claim at a time, one completion per event,
  no claim of an event whose provenance is refused;
- due work: no request lost to a concurrent run, an alarm for whatever is stored,
  none when nothing is, and every due key eventually run;
- scheduled jobs: bodies that do not overlap inside their leases, a slot completed
  once, a lease ended only by its own run;
- job runtimes: a switch or pause reaches every drain within the cache time, no
  change overwrites an unseen one, no event lost between two runtimes;
- sequences: one active run per user, waits kept, nothing sent after an exit or a
  suppression but what had passed that check before, every run ended unless its engine
  gave up or its trigger's row was pruned;
- webhooks: capacity under concurrent claims, final ends, one active replay, nothing
  still to send once its payload is erased;
- billing: standing state that only moves forward, receipts settled exactly as far
  as state new enough was committed;
- infrastructure: a create in flight fences its target, nothing made is forgotten,
  a binding stays.

## 2. Modules

| Module | Models | Uses |
|---|---|---|
| `Outbox` | the outbox table and its statements, one action each | |
| `EventInbox` | the inbox table and its statements | |
| `EventDelivery` | dispatchers, job runtime, executors, sweep and operators around both tables | EXTENDS `Outbox`, instantiates `EventInbox` and `EventContract` |
| `EventContract` | what delivery promises of an event: absent, committed, parked, completed | |
| `JobRuntimes` | the override, its cache, drains to two runtimes, the Workflow consumer | EXTENDS `Outbox` |
| `DueWork` | the scheduler object | instantiates `DueWorkContract` |
| `DueWorkContract` | what the scheduler promises of a key: pending work moves only earlier, and leaves only by starting in time | |
| `ScheduledJobs` | job leases, the registry's run, the object's and the minute tasks' runs | EXTENDS `DueWork` |
| `EmailSequences` | trigger handlers, engines and step attempts of a marketing sequence | instantiates `SequenceContract` |
| `SequenceContract` | what a recipient is promised: one active run, steps in order, waits kept, an email only of a send that began while its run was active and found the address clear | |
| `WebhookDelivery` | native deliveries of one tenant, from projection to retention and replay | instantiates `WebhookContract` |
| `WebhookContract` | when a delivery may be attempted, answered, ended and replayed | |
| `BillingReconciliation` | requests, claims, lookups and fenced commits over the provider's subscriptions | instantiates `BillingContract` |
| `BillingContract` | what an organization is promised of its standing subscription | |
| `InfraRunner` | `applyPlan` and the control store around a provider that is not idempotent | instantiates `InfraContract` |
| `InfraContract` | what a target is promised: only journaled resources are made, once unless excused, and bound for good | |
| `*Proofs` | the theorems about the module they are named for | EXTENDS it (`ScheduledJobsProofs` also `DueWorkProofs`) |
| `MC*` | symmetry sets, constant values and state constraints for TLC | |

A contract has no code of its own: it is what its component promises, stated without
the component's workers, leases, locks and clocks, and its variables are functions of
the component's (`phase`, `standing`, or the variables named in the `INSTANCE`).

`PROJECT.json`'s `map` gives the source lines of each definition. A definition
marked *Defect* is a plausible bug, substituted for the definition that follows it
to show that a property notices; no specification uses one.

### Event delivery

`row[e]` is the `outbox_message` row: its status (`absent` before the commit,
`pruned` after retention deleted it), `attempts`, and `leaseOver`, which abstracts
`leased_until <= now()`. `inbox[e]` is the `event_inbox` row; a claim's random UUID
is the number of the claim. `window[e]` holds while the event is inside the 14-day
replay window. `refused` are the events whose provenance or authority every
execution refuses. Backoffs, grace periods and lease lengths are not counted: each
may end at any moment, which includes every real timing.

A dispatcher's `pc` is where `dispatchOutbox` is between two awaits: each call of
the store or the publisher is one step, so any number of other steps fits between.
`Publish` has three outcomes: accepted, accepted but thrown (a lost
acknowledgement), and not accepted. If `succeed` throws, the same `catch` calls
`fail`; if that throws, the loop ends and the rest of the batch stays leased.

A run is what a runtime starts for an accepted send. External runtimes key it by
`<event, generation>` (`trestle-event:<id>:<generation>`); a Queue carries every
send as a message of its own, which the model numbers with the next free key. There
are `MaxAttempts + MaxRedrives + 1` keys, and a send without a free key is not
taken, which bounds the Queue. `RunTimeout`, `RunLost` and `DeliverTwice` are the
runtime's own failures and are marked external in the map.

An executor's steps are `handleEventWithInbox` from verify to complete or release,
then what the runtime's adapter does with the result: `processQueueBatch` retries a
permanent refusal like any failure, `consumeCommittedEvent` dead-letters the row
and ends the run.

### Due work

`due`, `alarm` are the object's storage. `handler` is the alarm handler: the list it
read at the start, and the key it runs. A Durable Object delivers nothing while it
awaits its own storage, so `schedule()` is one step, and so is each stretch of
`alarm()` between two runner calls; while a run is awaited, schedules interleave.
`asked` is a history variable: the earliest time asked for a key since its last run
began. `Crash` kills the object in its handler, and the platform fires the alarm
again, as Durable Objects promise. The failure counter only chooses the length of a
retry delay, which is any time later than the alarm's start.

### Scheduled jobs

A job is a key of `DueWork`; the object's run of it and a minute task's run are
both a *runner* going through `ScheduledJobRegistry.run`. `lease[j]` is the
`scheduled_job` row; a lease is named by its runner instead of a random token,
which is exact while a runner remembers only the lease of its current run.
`work[j]` is what the application's `next()` reads. `TaskClock` selects which clock
the task compares with: trigger.dev's task reads it once before `due()`, Inngest's
for each item. One unit of time is `minimumRerunMs`.

### Job runtimes

`config` is the override part of the `job_runtime_config` row. `reviewed[o]` is what
an operator saw; `lockedRow` makes a change valid only at that version. `cache[i]` is
an isolate's `cachedOverride` with its age in ticks, and a drain that reads the row
is at three places: the time is taken (`Begin`), the query runs (`Read`), the answer
is cached under the time taken first (`ReadReturns`) or is lost (`ReadFails`).
`past` is a history variable: the version in force each of the last `CacheTime`
ticks, against which every cached or acted-on configuration is compared (`floor`).
The outbox is `Outbox`'s; a drain leases one row at a time, because a batch adds only
what `EventDelivery` already has. On Cloudflare a message becomes an instance keyed
by the event alone, on the external runtime a run keyed by event and generation.

### Email sequences

`run[t]` is the `sequence_run` row of trigger event `t`, `handler[t]` its consumer
between the conflicting insert, the lookup of the existing run and the engine's
start. `engine[t]` is the durable engine of `driveSequenceRun`; `attempt[x]` executes
one `runSequenceStep`, with a step between each two awaits, so that exits,
suppressions and other attempts fit between the check, the send and its record. The
provider accepts an idempotency key (run and step) once. `gone` are the triggers whose
outbox row was pruned: `Prune` takes it at any time after the trigger was handled, which
includes the code's 30 days. `elapsed` and `sendable` are history variables: the waits
that are over, and the steps whose email may still go out as the run's stops left them.
An exit leaves what was sent and what an attempt at its check or send may send, a
suppression only what an attempt at its send may. Only marketing sequences are
modelled; for them any suppression stops.

### Webhooks

`delivery[d]` is the `webhook_delivery` row; its time is only *ahead* or not. A
worker is `runNativeWebhookWakeup`, one delivery from expiry through claim, load and
settlement; its name is its lease token. The claim counts live leases under the
tenant's advisory lock (`claiming`), with an await between the lock and the lease.
The sweep's expiry, recovery of lost leases, retention's erasure, disabled endpoints
and an operator's replay, whose checks and insert are two steps (`replaying`), run
beside the workers.

### Billing

`provider` is the truth outside, `receipt`, `cursor`, `owner` and `projection` the
four tables. A worker claims a subscription up to the cursor's generation, reads the
provider outside any transaction (`lookup`), and commits while it still holds the
lease, or rejects, or releases; a pass that finds a newer generation goes again.
`errand[e]` stands for whatever makes workers run for a notification until one
reports success. A version of provider state is the number of the notification that
announced it, so freshness can be stated.

### Infrastructure runner

`run[r]` is one `applyPlan`; its name is its holder and stands for its fencing token.
`calls` are the creates sent; each is carried out, refused or still on its way
whether or not anybody waits for the answer. `reservation` is the target's row with
the in-flight mark and the uncertain flag; `started`, `completed` are the journal;
`binding` and `generation` are committed by compare-and-swap. An observation may be
partial. An operator's `--confirm-absent` is truthful about the creates the run could
know of. `stray` is a history variable: the calls whose mark a run removed that could
not know of them (section 5).

## 3. Runs

Deadlock is checked in `due_work`, where time and schedules go on to the
bound and the object always can be scheduled. It is not checked in the others: once
every event is resolved, or the last instant has passed, the system rests.

| Run | Bounds | States | Question |
|---|---|---|---|
| `event_race` | 1 event, 2 attempts, 1 redrive, 2 deliveries per run, both runtimes; either 2 dispatchers with 1 executor and settled rows, or 1 dispatcher with 2 executors | 2 270 180 | Do the outbox's promises survive dispatchers that settle each other's rows, is an event completed once, and does delivery implement `EventContract`? |
| `event_liveness` | 1 event, 1 dispatcher, 1 executor, 2 attempts, an external runtime with one try per run, fairness | 24 836 | Is a committed event ever stuck? |
| `event_redrive` (violated) | as `event_liveness`, with a redrive | | Does a redriven event start a fresh run? |
| `due_work` | 3 keys, 2 runs per alarm, times 0..2, 1 crash, fairness | 21 702 | Is anything asked for lost, uncovered by an alarm, or an alarm left over? Does due work start, and, as `DueWorkContract` says, none before its time? |
| `job_leases` | 1 job, object and 1 task, leases of 1, times 0..2, 1 crash | 1 457 520 | Do leases keep runs of a job apart and slots complete once? |
| `job_crash` (violated) | 1 job, times 0..3, 1 crash, no tasks | | Is an interrupted slot repeated? |
| `job_minute_task` (violated) | 1 job, 1 task, times 0..3, trigger.dev's clock | | Does the minute task run what is overdue? |
| `billing` | 3 notifications, 2 subscriptions, 2 organizations, 2 workers, 2 passes, 1 fault | 1 123 512 | Does reconciliation implement `BillingContract`, with receipts, cursor and events in step? |
| `webhooks` | 1 event, 2 endpoints, 2 replays, 2 workers, capacities 1, 2 attempts, 1 fault; see below | 1 797 490 | Do capacity and erasure hold under races, and do the deliveries implement `WebhookContract`? |
| `infra` | 2 resources, 2 runs of one operation, 1 of a rival, 2 creates, 3 faults | 3 600 647 | Is a create fenced while its outcome is open, nothing made lost, and each create, binding and completion one of `InfraContract`? |
| `email_sequences` | 2 triggers of 1 user, a wait and a send, 2 attempts at once, 1 fault, pruning at any time, fairness | 595 150 | Do waits and exits hold, do the runs implement `SequenceContract`, and does every run end that its engine does not lose? |
| `job_runtimes` | 1 event, 1 isolate, 2 drains, 2 operators, 2 changes, cache of 2 ticks; see below | 3 536 168 | Do switches and pauses take hold in time, unseen changes survive, and events outlive a switch? |

Why the bounds are enough. Events do not interact except by sharing a batch, whose
only coupling is that a throwing `fail` strands the rest as if the dispatcher had
stopped; a single event with a stopping dispatcher has that case. Two dispatchers
are needed, and enough, for a row to be settled by one that lost it, and two
executors for a claim to be taken over from one still working. Two attempts reach
both branches of the cap. Three keys with two runs per alarm leave work over; two
keys would too, but not with one of them running. A lease of one unit expires
inside a run.

Three runs have a state constraint, because the races they are about do not need each
other. In `webhooks` either operators race each other over an original and its replays
while the workers rest, or one operator at a time races the workers. In `event_race`
either several dispatchers race over a row while one executor takes each run's first
delivery, or several executors race over an event while one dispatcher makes its first
dispatch. In `job_runtimes` either no event is committed and drains and operators race
over the override, or one drain delivers an event while one operator makes one change.

Elsewhere: two notifications of one subscription and one of another are what a
replacement with a late notification takes. One tenant slot and one endpoint slot
make every second claim a full one; two replays race for one source. Two resources
show a plan resumed half way; the two creates may name one resource twice, and the
rival run is what a fence must stop. Two triggers of one user are a conflicting
start, two attempts of a step a timed out and a fresh one, and a single fault
already separates a send from its record. The cache needs two ticks so that an entry
can be old and still used. The proofs below drop the bounds for every safety
property of the passing runs.

Symmetry over dispatchers, executors and keys is used only in runs without liveness.

### Fairness

`event_liveness` assumes: the sweep keeps leasing what can be leased (a cron every
15 minutes), and an isolate does not die at the same call for ever (strong fairness
of leasing, publishing and marking); leases and claims run out; the sweep settles;
the runtime delivers queued runs and notices executors that are gone; an executor
that is not stopped continues. Nothing makes a send succeed, an operator act or an
event age. The conclusion is weak on purpose: the event completes, is dead-lettered
where an operator sees it, or leaves its window. The run has only an external runtime
whose runs try once; for the Queue the property also counts a message on the Queue's
own dead-letter queue as resolved, and that clause is not exercised.

`due_work` assumes time passes, the platform fires a due alarm, and each
awaited run ends. A crash is never required and is bounded.

`email_sequences` assumes the trigger's consumer is delivered again until it is
handled, an engine goes on and wakes once its wait is over, a step is executed
again after a failure, a started attempt goes on, and waits end. Engines retry a
step five times only; `GivesUp` leaves such a run active with no engine, and so does a
step executed after its trigger's row was pruned (section 5); the property excepts both,
and nothing else. The fault bound keeps failures from recurring for ever.

No liveness is claimed of the others: a billing errand or a webhook is retried by
platforms outside the model, an infrastructure run by a person, and `JobRuntimes`
repeats the outbox and the runs whose liveness `event_liveness` has.

## 4. Proofs

`tlapm` proves, for every value of the constants, all the safety properties of the
passing runs, with the refinements of the six contracts, and three facts of
composition: the jobs' object behaves as the object alone, and delivery and the job
runtimes behave as clients of the outbox. `EndIsFinal`, `ReplaysAreExclusive`,
`RunsOnlyGoForward` and `BoundForGood` prove in the components' own terms what runs
check as part of a contract. Assumptions are the named `ASSUME`s: the bounds are
natural numbers, attempts, tries, batches, runs per alarm, leases, capacities, passes,
creates and the cache time positive, the deliveries of a tenant finite, and that the
value for *nobody* is not the name of an actor (nor, for the runner, a row).

- **Event delivery.** The invariants are built in layers on `DeliveryTypeOK`, which
  needs the attempt cap to hold the generations in range, and the cap needs that a row
  still in flight is strictly below it: `BaseInvariant` proves the two together.
  `CompletedOnce` is not inductive: it needs that `completions[e]` is 1 exactly when
  the inbox row is completed. `SoleHolder` needs that an executor's token is the
  number of a claim already made of its event, and that no two executors of an event
  carry the same one (`InboxInv`). `DispatchedHasRun` needs that a dispatcher about to
  mark a row has sent its event (`SentInv`). `SettlementStartsAfresh` needs that no
  dispatcher holds and, under a deduplicating runtime, no run has a generation beyond
  the row's (`GenerationInv`), so the next one is unused; with the cap on the row's
  count, that also bounds the runs such a runtime starts. `RefusedLeavesNoClaim` needs
  that no executor reaches the claim of a refused event. `ImplementsContract` is a
  refinement: `phase` maps the initial state to the contract's, and every action to
  one of its moves or a stutter. `DeliveryDrivesOutbox` says that every client's step
  is a statement of `Outbox` or leaves the rows alone, so that `Outbox`'s own
  promises, proved for clients in any order (`OutboxCountsAreCapped`, `OutboxKeepsDead`),
  hold of delivery.
- **Due work.** The invariant (`ObjectInv`) is the conjunction of the run's invariants and
  one more: a key is on the running alarm's list at most once, so that deleting its
  entry cannot leave a second one that is no longer stored. The theorems project
  from it. `ObjectImplementsContract` is the one that says no work starts early: the
  alarm runs what a list says, and the list was made before the store changed again,
  so the step is a `Start` of the contract only because a listed key is still stored
  with a time no later than the one on the list, and that one has come.
- **Scheduled jobs.** `JobsInv` adds two facts to the types. A run that is inside
  its lease is the one the row names, and its slot is still to complete; that is
  the content of `acquire`'s `WHERE` clause, and what makes late completes and
  fails harmless. Every slot in use has come, hence completed slots never lie in
  the future; for the object's slots that rests on `ObjectInv`, which carries over
  because every step of the jobs is a step of the object or leaves it alone
  (`JobsImplementDueWork`), and so does the contract (`JobsImplementContract`). The
  three job properties follow from these without another induction.
- **Job runtimes.** `RecentInv` relates every kept configuration to `past`: a fresh
  cache entry of age `n` is at least the version of `n + 1` ticks ago, and a reading
  drain, whose time was taken first, is at least at its `floor`. That the entry a slow
  reader stores is still that recent is what stamping before the read gives.
  `HandedOver` needs that a drain about to mark a row has sent its event
  (`EntriesInv`); `ChangesAreReviewed` that a version names one configuration
  (`ReviewsInv`). The drains use the outbox as delivery does (`RuntimesDriveOutbox`),
  and keep its cap on counted failures and settlements (`SwitchesKeepTheCount`) and its
  dead letters across switches and pauses.
- **Email sequences.** `IInv` adds to the run's invariants how a run, its handler and
  its engine go together (`TriggerOK`: an active handled run has an engine, and a run
  that no longer waits has waited), and what each attempt knows: its
  step is not past the run's, from its check to its record the wait before it is over,
  and the step is in `sendable` at the send, as at the check unless the user was
  suppressed (`AttemptOK`). The refinement maps each attempt at its check or
  send to a send under way in the contract (`underway`): `Execute` is a `Begin`, which
  needs the run active at that step, the pass of the suppression check a `Clear`, and
  the provider's acceptance an `Email`, however late it comes. That a late attempt's
  record changes nothing is the fence of `advanceSequenceRun`, which makes the step a
  stutter.
- **Webhooks.** Counting live leases is exact because the worker between lock and
  lease has checked the count under the lock and nobody else adds one (`ClaimsInv`).
  An active delivery is below the attempt cap and has its payload (`RowsInv`), and a
  source whose replay passed its checks stays failed (`ReplayingInv`). The refinement
  of `WebhookContract` reads off these that a lease is an attempt with room, and that a
  settlement comes from the worker whose attempt it answers. The contract's replay
  starts from nothing, which adds one invariant: an unused row has no attempts (`Fresh`),
  carried over from the contract's own moves.
- **Billing.** `HolderInv` is the heart: the claim that could still commit is above
  the reconciled generation, and what its worker read is at least as new as every
  receipt up to its generation, because those were recorded before it claimed and it
  read after. `ClaimInv` types what workers remember, `StandingInv` relates ownership,
  projection and receipts. The refinement of `BillingContract` follows action by
  action.
- **Infrastructure runner.** `IInv` adds three facts to the fence. Of the calls for a
  resource all but the last were refused or are stray (`CallsOK`), which is what
  `NoDuplicate` needs; a new call keeps it because a run that is about to send one
  and holds the target has nothing in flight, and since its last check nothing of the
  name was made but by stray calls (`HoldOK`). What a run read was so and stays so,
  except a generation it will compare (`RunOK`): the listing and the binding it
  resumes from name resources that were made. And a run has the base of the
  generation it commits over, with the resource unbound in it, so the
  compare-and-swap cannot drop a binding. The refinement of `InfraContract` adds the
  journal (`Journaled`): what a run has in hand was approved, and from before the create
  to the end it is journaled. Nothing a run does can unjournal what another holds, so one
  run's step keeps the others' parts. That the provider's late answer is a `Make` which
  repeats no name rests on `CallsOK`, that a commit is a `Bind` on the base a run has.

Only model-checked: the liveness properties (fairness and ENABLED are out of
the prover's reach) and the violated ones.

## 5. Where code and documentation differ

- **Redrive repeats a generation** (`event_redrive`). `redrive` keeps `attempts`, so
  the runtime's idempotency key is the one of the last dispatch, and the runtime
  returns its ended run. Settlement later dead-letters the row again. The
  documentation says re-dispatches start fresh runs.
- **A crash does not repeat the slot** (`job_crash`). The alarm deletes the entry
  before the run; after a death the sweep re-records the job at a new time. A
  `job.dueAt`-derived idempotency key then differs from the interrupted run's.
- **The minute tasks skip what is due** (`job_minute_task`). `due()` rounds an
  overdue time up to a second after its own clock, and the task compares it with a
  clock read earlier, so nothing is ever due. Inngest's task compares with a later
  clock, but an overdue job is still skipped unless a second passes in between.

Met while modelling, without a run of their own:

- **A reconciliation can remove a mark it does not know.** A run that started before
  a create of another run began, and is given `--confirm-absent`, reconciles that
  create's in-flight mark away: the reconciliation compares neither operation nor
  token. Its own create then makes a second resource. `NoDuplicate` excepts exactly
  these *stray* calls. `docs/decisions/D-02-control-store.md`, rule 1,
  and `packages/cli/src/infra/store.ts:91` do not.
- **A replay can overtake a successful one.** `webhook-replay.ts` looks for a
  succeeded replay and then for an active one in two queries; a replay that succeeds
  in between is seen by neither, and a new one is created, although
  `docs/RELEASE_HISTORY.md:326` says already-successful replays fail closed.
  `OneActiveReplay` holds all the same.
- **After a switch to Cloudflare nothing settles what the old runtime lost.** The
  sweep settles only while the target is external; `docs/JOB_RUNTIMES.md:209-211`
  says the safety sweep re-dispatches those events after 30 minutes.
- **A Workflow instance has no generation.** A settled or redriven event whose
  instance ended finds it by its id and is acknowledged without a fresh run.
- **A run whose trigger's row was pruned stays active.** Without the committed row
  `runSequenceStep` throws `PermanentSequenceError` and marks nothing
  (`sequence-runtime.ts:191`), although the comments at lines 50-53 and 171-175 there
  say that the run is `failed` then. The 30 days of retention equal the longest
  `validForDays`, and migration 0033 does not spare the triggers of active runs. The
  engine ends, and the row keeps the user's later triggers from starting a run until an
  operator exits it. Lines 196 and 273 throw the same way for a run that is missing,
  which no step of the code makes it.
- **A resend after a lost acknowledgement may start a second run.**
  `T/packages/events/src/index.ts:127-131` says such a resend repeats the generation,
  and `T/apps/worker/src/job-runtime-trigger.ts:16-17` that it returns the existing run.
  That holds after a dispatcher stopped. A send that throws after it was accepted is
  counted by `fail`, so the resend has the next generation and starts another run. On
  the Queue each send is a message of its own.
- **A pause is ignored when the override cannot be read.** Dispatch then falls back to
  the deployed runtime, not paused; `TargetsAreRecent` excepts a failed read.

## 6. Not modelled, and why

- The wake of the outbox by a committing request or a finished job: the sweep and
  the scheduler may dispatch at any moment in `EventDelivery`, so a wake only makes
  an already possible step happen sooner.
- The in-memory stores and the calendar arithmetic of `every()` and `dailyAt()`.
- Clock skew between the database and a runner; runs share one clock.
- Job runtimes: the declared row, an override whose adapter is not installed, the
  validation of a target.
- Email: transactional sequences, exits by an operator, time zones and quiet hours,
  delivery receipts and lifting a suppression.
- Webhooks: local capture, signing and transport. Billing: checkout and invoice
  notifications, which project nothing, and `applyBillingProviderEvent`, which only
  tests call.
- Infrastructure: approvals, `--allow-duplicate`, provisioning of a resource's own
  plan, import of its credentials. `rotateCredential` has no caller but tests; by
  reading, a crash after it journals `new_issued` and before `commitSnapshot` makes a
  resume skip both the issuance and the commit.
- Access rules, regional settings, interfaces, generators and project creation:
  predicates of one request, formatting, file generation. They are most of the
  repository's lines, and have no interleaving or failure a model would add to.
- Everything listed `not_modelled` in `PROJECT.json`.

## 7. Plan

Done: outbox, inbox and delivery; due work and scheduled jobs; job runtimes; email
sequences; webhooks; billing; the infrastructure runner; contracts of all but the job
runtimes, whose promises over a switch are the outbox's and their own invariants;
proofs of all their safety properties. In order of what is left:

1. Credential rotation over the runner's store, once the CLI calls it.
2. Artifact retention and the orphan audit against object storage.
3. Step-up assurance and support sessions: expiry against use.
