---------------------------- MODULE JobRuntimes ----------------------------
(***************************************************************************)
(* Which job runtime committed events go to, and what happens to those in  *)
(* flight when an operator switches it.  Operators set, clear and pause    *)
(* the override in job_runtime_config on the version they reviewed.  A     *)
(* drain of the outbox asks dispatchJobRuntime for its target, which       *)
(* reuses its isolate's last read of the override for CacheTime, then      *)
(* leases rows and sends them there.  Both runtimes go on running what     *)
(* they accepted, behind one inbox.                                        *)
(*                                                                         *)
(* The external runtime keys a run by event and generation.  On Cloudflare *)
(* a Queue message becomes a Workflow instance keyed by the event alone.   *)
(* Module EventDelivery has the Queue's direct consumer, batches of rows   *)
(* the retries inside a run and redrives; here a drain leases one row at a *)
(* time, a run that fails has spent its retries, and events stay inside    *)
(* the replay window.                                                      *)
(***************************************************************************)
EXTENDS Outbox

CONSTANTS
    Isolates, Drains, Operators,
    Declared,    \* the runtime the Worker was deployed with
    CacheTime,   \* jobRuntimeOverrideCacheMs, in ticks
    MaxChanges   \* bound: changes operators make to the override

Runtimes == {"cloudflare", "external"}
None == "none"

ASSUME RuntimesAssumption ==
    /\ Declared \in Runtimes
    /\ CacheTime \in Nat \ {0}
    /\ MaxChanges \in Nat

VARIABLES
    config,       \* the override columns of the environment's job_runtime_config row
    past,         \* history: past[n] is config.version n ticks ago
    reviewed,     \* reviewed[o]: the configuration operator o looked at
    cache,        \* cache[i]: isolate i's cachedOverride
    drain,        \* drain[d]: a drain of the outbox
    messages,     \* messages on the Queue
    deadLetters,  \* events of messages on the Queue's dead-letter queue
    runs,         \* runs[k]: the external run or Workflow instance with key k
    completed     \* events whose inbox claim was completed

controls == <<config, past, reviewed, cache>>
work     == <<messages, deadLetters, runs, completed>>
vars     == <<row, redrives, controls, drain, work>>

Generations == 0..(MaxAttempts + MaxRedrives)
Sends == Events \X Generations
EventOf(s) == s[1]
NoGeneration == -1
Instance(e) == <<e, NoGeneration>>   \* createWorkflowQueueConsumer: the id is the event's
Keys == Sends \cup {Instance(e) : e \in Events}
NoSend == <<>>

Config == [runtime : Runtimes \cup {None}, settings : {None, "running", "paused"},
           version : 0..MaxChanges]
NoOverride == [runtime |-> None, settings |-> None, version |-> 0]
Unread == [NoOverride EXCEPT !.version = -1]

\* dispatchJobRuntime's answer from a configuration; without one (the read
\* failed) it is the deployed runtime, not paused.
Target(c) == IF c.runtime = None THEN Declared ELSE c.runtime
Paused(c) == c.settings = "paused"

Idle(i) == [pc |-> "idle", at |-> i, age |-> 0, floor |-> 0, read |-> Unread,
            to |-> None, cur |-> NoSend]
DrainState == [pc    : {"idle", "reading", "read", "decided", "settle", "lease",
                        "send", "succeed", "fail"},
               at    : Isolates,
               age   : 0..CacheTime,      \* ticks since the drain took its time
               floor : 0..MaxChanges,     \* history: the version CacheTime before it did
               read  : Config \cup {Unread},
               to    : Runtimes \cup {None},
               cur   : Sends \cup {NoSend}]

TypeOK ==
    /\ OutboxTypeOK
    /\ config \in Config
    /\ past \in [1..CacheTime -> 0..MaxChanges]
    /\ reviewed \in [Operators -> Config \cup {Unread}]
    /\ cache \in [Isolates -> [set : BOOLEAN, value : Config, age : 0..CacheTime]]
    /\ drain \in [Drains -> DrainState]
    /\ messages \subseteq Sends
    /\ deadLetters \subseteq Events
    /\ runs \in [Keys -> {"none", "going", "ended"}]
    /\ completed \subseteq Events

NoCache == [set |-> FALSE, value |-> NoOverride, age |-> 0]

Init ==
    /\ OutboxInit
    /\ config = NoOverride
    /\ past = [n \in 1..CacheTime |-> 0]
    /\ reviewed = [o \in Operators |-> Unread]
    /\ cache = [i \in Isolates |-> NoCache]
    /\ drain \in [Drains -> {Idle(i) : i \in Isolates}]
    /\ messages = {} /\ deadLetters = {}
    /\ runs = [k \in Keys |-> "none"]
    /\ completed = {}

-----------------------------------------------------------------------------
(* Time and the database on its own *)

Older(age) == IF age < CacheTime THEN age + 1 ELSE age

Tick ==
    /\ past' = [n \in 1..CacheTime |-> IF n = 1 THEN config.version ELSE past[n - 1]]
    /\ cache' = [i \in Isolates |-> IF cache[i].set THEN [cache[i] EXCEPT !.age = Older(@)]
                                                    ELSE cache[i]]
    /\ drain' = [d \in Drains |-> IF drain[d].pc \in {"reading", "read"}
                                  THEN [drain[d] EXCEPT !.age = Older(@)] ELSE drain[d]]
    /\ UNCHANGED <<outboxVars, config, reviewed, work>>

Commit(e) == Append(e) /\ UNCHANGED <<controls, drain, work>>
LeaseTimeout(e) == LeaseRunsOut(e) /\ UNCHANGED <<controls, drain, work>>

-----------------------------------------------------------------------------
(* Operators *)

\* jobRuntimeState, from which an operator reviews a change.
Review(o) ==
    /\ reviewed' = [reviewed EXCEPT ![o] = config]
    /\ UNCHANGED <<outboxVars, config, past, cache, drain, work>>

NextVersion(c) == [c EXCEPT !.version = @ + 1]

\* lockedRow: the row is locked, and its version must be the reviewed one.
Change(o, c) ==
    /\ reviewed[o].version = config.version
    /\ config.version < MaxChanges
    /\ config' = c
    /\ reviewed' = [reviewed EXCEPT ![o] = Unread]
    /\ UNCHANGED <<outboxVars, past, cache, drain, work>>

\* setJobRuntimeOverride; the target passed validateJobRuntimeTarget.
SetOverride(o, r) == Change(o, [NextVersion(config) EXCEPT !.runtime = r])

\* clearJobRuntimeOverride clears the settings too.
ClearOverride(o) ==
    /\ config.runtime # None \/ config.settings # None
    /\ Change(o, [NextVersion(config) EXCEPT !.runtime = None, !.settings = None])

\* Defect: a pause keeps the version.
SetPausedInPlace(o, settings) == Change(o, [config EXCEPT !.settings = settings])

\* setJobDispatchPaused pauses and resumes dispatch.
SetPaused(o, settings) == Change(o, [NextVersion(config) EXCEPT !.settings = settings])

Unconsumed(e) == e \notin completed

\* settleUnconsumedJobs from the admin, or trestle jobs migrate --settle.
OperatorSettle(e) ==
    /\ Unconsumed(e)
    /\ SettleDead(e) \/ SettleAgain(e)
    /\ UNCHANGED <<controls, drain, work>>

-----------------------------------------------------------------------------
(* dispatchJobRuntime *)

Fresh(i) == cache[i].set /\ cache[i].age < CacheTime

\* The time is taken first; a fresh cache answers at once, else the row is read.
Begin(d, i) ==
    /\ drain[d].pc = "idle"
    /\ drain' = [drain EXCEPT ![d] =
         IF Fresh(i)
         THEN [Idle(i) EXCEPT !.pc = "decided", !.floor = past[CacheTime],
                              !.read = cache[i].value]
         ELSE [Idle(i) EXCEPT !.pc = "reading", !.floor = past[CacheTime]]]
    /\ UNCHANGED <<outboxVars, controls, work>>

\* readJobRuntimeOverride's query runs.
Read(d) ==
    /\ drain[d].pc = "reading"
    /\ drain' = [drain EXCEPT ![d].pc = "read", ![d].read = config]
    /\ UNCHANGED <<outboxVars, controls, work>>

\* Defect: the answer is cached under the time it arrives.
ReadIsStamped(d) ==
    /\ drain[d].pc = "read"
    /\ cache' = [cache EXCEPT ![drain[d].at] =
                   [set |-> TRUE, value |-> drain[d].read, age |-> 0]]
    /\ drain' = [drain EXCEPT ![d].pc = "decided", ![d].age = 0]
    /\ UNCHANGED <<outboxVars, config, past, reviewed, work>>

\* Its answer arrives: it is cached under the time taken before the read.
ReadReturns(d) ==
    /\ drain[d].pc = "read"
    /\ cache' = [cache EXCEPT ![drain[d].at] =
                   [set |-> TRUE, value |-> drain[d].read, age |-> drain[d].age]]
    /\ drain' = [drain EXCEPT ![d].pc = "decided", ![d].age = 0]
    /\ UNCHANGED <<outboxVars, config, past, reviewed, work>>

\* The read throws: dispatch falls back to the deployed configuration.
ReadFails(d) ==
    /\ drain[d].pc \in {"reading", "read"}
    /\ drain' = [drain EXCEPT ![d].pc = "decided", ![d].age = 0, ![d].read = Unread]
    /\ UNCHANGED <<outboxVars, controls, work>>

-----------------------------------------------------------------------------
(* drainOutbox and the safety sweep *)

GoTo(d, pc) == drain' = [drain EXCEPT ![d] = [Idle(@.at) EXCEPT !.pc = pc, !.to = drain[d].to]]
Stop(d) == drain' = [drain EXCEPT ![d] = Idle(@.at)]

\* A paused drain ends; another one drains, and the sweep first settles when
\* the target is an external runtime.
Start(d, pc) ==
    /\ drain[d].pc = "decided"
    /\ ~Paused(drain[d].read)
    /\ pc = "settle" => Target(drain[d].read) # "cloudflare"
    /\ drain' = [drain EXCEPT ![d] =
                   [Idle(@.at) EXCEPT !.pc = pc, !.to = Target(drain[d].read)]]
    /\ UNCHANGED <<outboxVars, controls, work>>

EndPaused(d) ==
    /\ drain[d].pc = "decided" /\ Paused(drain[d].read)
    /\ Stop(d)
    /\ UNCHANGED <<outboxVars, controls, work>>

\* store.settleUnconsumed, in the sweep
SweepSettles(d, e) ==
    /\ drain[d].pc = "settle"
    /\ \/ Unconsumed(e) /\ (SettleDead(e) \/ SettleAgain(e))
       \/ /\ ~(Unconsumed(e) /\ InStatus(e, {"succeeded"}))
          /\ UNCHANGED outboxVars
    /\ GoTo(d, "lease")
    /\ UNCHANGED <<controls, work>>

Lease(d, e) ==
    /\ drain[d].pc = "lease"
    /\ LeaseRows({e})
    /\ drain' = [drain EXCEPT ![d].pc = "send", ![d].cur = <<e, row[e].attempts>>]
    /\ UNCHANGED <<controls, work>>

\* publisher.send to the drain's target.  It is accepted or not, and an
\* accepted send may still throw.
StartRun(k) == IF runs[k] = "none" THEN [runs EXCEPT ![k] = "going"] ELSE runs

Accepted(to, s) ==
    IF to = "cloudflare"
    THEN messages' = messages \cup {s} /\ UNCHANGED runs
    ELSE /\ runs' = StartRun(s)
         /\ UNCHANGED messages

Send(d) ==
    /\ drain[d].pc = "send"
    /\ \/ \E pc \in {"succeed", "fail"} :
            Accepted(drain[d].to, drain[d].cur) /\ drain' = [drain EXCEPT ![d].pc = pc]
       \/ drain' = [drain EXCEPT ![d].pc = "fail"] /\ UNCHANGED <<messages, runs>>
    /\ UNCHANGED <<outboxVars, controls, deadLetters, completed>>

\* store.succeed or store.fail, as in module EventDelivery
MarkSucceeded(d) ==
    /\ drain[d].pc = "succeed"
    /\ LET e == EventOf(drain[d].cur) IN
         \/ Succeed(e) /\ GoTo(d, "lease")
         \/ ~MaySucceed(e) /\ drain' = [drain EXCEPT ![d].pc = "fail"] /\ UNCHANGED outboxVars
    /\ UNCHANGED <<controls, work>>

MarkFailed(d) ==
    /\ drain[d].pc = "fail"
    /\ LET e == EventOf(drain[d].cur) IN
         \/ Fail(e) /\ GoTo(d, "lease")
         \/ ~MayFail(e) /\ Stop(d) /\ UNCHANGED outboxVars
    /\ UNCHANGED <<controls, work>>

\* The drain is done, or throws.
End(d) ==
    /\ drain[d].pc # "idle"
    /\ Stop(d)
    /\ UNCHANGED <<outboxVars, controls, work>>

\* The isolate goes, with its cache and its drains.
Evict(i) ==
    /\ cache' = [cache EXCEPT ![i] = NoCache]
    /\ drain' = [d \in Drains |-> IF drain[d].at = i THEN Idle(i) ELSE drain[d]]
    /\ UNCHANGED <<outboxVars, config, past, reviewed, work>>

-----------------------------------------------------------------------------
(* createWorkflowQueueConsumer *)

\* Defect: a delivery is acknowledged whatever create returned.
DeliverAnyway(m) ==
    /\ m \in messages
    /\ messages' = messages \ {m}
    /\ UNCHANGED <<outboxVars, controls, drain, deadLetters, runs, completed>>

\* A delivered message creates its event's instance, or finds it exists, and is
\* acknowledged; the acknowledgement may be lost.
Deliver(m) ==
    /\ m \in messages
    /\ runs' = StartRun(Instance(EventOf(m)))
    /\ messages' \in {messages, messages \ {m}}
    /\ UNCHANGED <<outboxVars, controls, drain, deadLetters, completed>>

\* create and get keep failing: the message is retried, and at last dead-lettered.
DeadLetter(m) ==
    /\ m \in messages
    /\ messages' = messages \ {m}
    /\ deadLetters' = deadLetters \cup {EventOf(m)}
    /\ UNCHANGED <<outboxVars, controls, drain, runs, completed>>

-----------------------------------------------------------------------------
(* Runs: consumeCommittedEvent *)

\* A permanent refusal dead-letters the row, best effort.
RunRejects(k) ==
    /\ runs[k] = "going"
    /\ runs' = [runs EXCEPT ![k] = "ended"]
    /\ Reject(EventOf(k))
    /\ UNCHANGED <<controls, drain, messages, deadLetters, completed>>

\* A run ends with its event's claim completed, by itself or before it, or
\* without: it failed, was cancelled, or was lost.
RunCompletes(k) ==
    /\ runs[k] = "going"
    /\ runs' = [runs EXCEPT ![k] = "ended"]
    /\ completed' = completed \cup {EventOf(k)}
    /\ UNCHANGED <<outboxVars, controls, drain, messages, deadLetters>>

RunEnds(k) ==
    /\ runs[k] = "going"
    /\ runs' = [runs EXCEPT ![k] = "ended"]
    /\ UNCHANGED <<outboxVars, controls, drain, messages, deadLetters, completed>>

-----------------------------------------------------------------------------
OperatorStep(o) ==
    \/ Review(o) \/ ClearOverride(o)
    \/ \E r \in Runtimes : SetOverride(o, r)
    \/ \E s \in {"running", "paused"} : SetPaused(o, s)

EventStep(e) == Commit(e) \/ LeaseTimeout(e) \/ OperatorSettle(e)

DrainStep(d) ==
    \/ \E i \in Isolates : Begin(d, i)
    \/ Read(d) \/ ReadReturns(d) \/ ReadFails(d)
    \/ \E pc \in {"settle", "lease"} : Start(d, pc)
    \/ EndPaused(d) \/ End(d)
    \/ \E e \in Events : SweepSettles(d, e) \/ Lease(d, e)
    \/ Send(d) \/ MarkSucceeded(d) \/ MarkFailed(d)

RunStep(k) == RunCompletes(k) \/ RunRejects(k) \/ RunEnds(k)

Next ==
    \/ Tick
    \/ \E o \in Operators : OperatorStep(o)
    \/ \E e \in Events : EventStep(e)
    \/ \E d \in Drains : DrainStep(d)
    \/ \E i \in Isolates : Evict(i)
    \/ \E m \in Sends : Deliver(m) \/ DeadLetter(m)
    \/ \E k \in Keys : RunStep(k)

Spec == Init /\ [][Next]_vars

-----------------------------------------------------------------------------
(* Properties *)

\* History: past versions never go back.
PastInv ==
    /\ \A n \in 1..CacheTime : past[n] <= config.version
    /\ \A m, n \in 1..CacheTime : m <= n => past[n] <= past[m]

\* A cached override is at most as old as its age says, although it is stored
\* some time after it was read and another drain may have stored a newer one
\* meanwhile (the time is taken before the read).
CachesAreRecent ==
    \A i \in Isolates : Fresh(i) => cache[i].value.version >= past[cache[i].age + 1]
ReadsAreRecent ==
    \A d \in Drains :
        /\ drain[d].floor <= config.version
        /\ drain[d].pc = "read" =>
             /\ drain[d].read.version \in drain[d].floor..config.version
             /\ drain[d].age < CacheTime => drain[d].read.version >= past[drain[d].age + 1]

\* A switch or a pause reaches every drain that starts CacheTime after it: the
\* configuration a drain acts on was still in force that long before it began,
\* however slow the reads of the drains sharing a cache were, unless its own
\* read failed ("read at most every 30 seconds per isolate").
TargetsAreRecent ==
    \A d \in Drains :
        drain[d].pc = "decided" /\ drain[d].read # Unread => drain[d].read.version >= drain[d].floor

\* Types, and the bound on every configuration a drain or an isolate keeps.
RuntimesInv == TypeOK /\ PastInv /\ CachesAreRecent /\ ReadsAreRecent /\ TargetsAreRecent

Handed(e) ==
    \/ \E m \in messages : EventOf(m) = e
    \/ e \in deadLetters
    \/ \E k \in Keys : EventOf(k) = e /\ runs[k] # "none"

\* Whatever the switches between the two runtimes, an event recorded as
\* dispatched is somewhere: on the Queue or its dead-letter queue, or as a run
\* or an instance that was started.  An acknowledged message has its instance,
\* because only an existing one excuses a failed create.
HandedOver == \A e \in Events : row[e].status = "succeeded" => Handed(e)

\* A change takes effect only on the very configuration its operator reviewed:
\* a switch, a pause or a revert another operator made meanwhile is never
\* overwritten unseen (lockedRow's version).
ChangeOf(o) == reviewed[o] # Unread /\ reviewed'[o] = Unread
ChangesAreReviewed == [][\A o \in Operators : ChangeOf(o) => reviewed[o] = config]_vars
=============================================================================
