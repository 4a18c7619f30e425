---------------------------- MODULE ScheduledJobs ----------------------------
(***************************************************************************)
(* Scheduled jobs: application work the scheduler object runs when a job's *)
(* next() says it is due, under a PostgreSQL lease.  The minute tasks of   *)
(* trigger.dev and Inngest run the same jobs under the same lease.         *)
(*                                                                         *)
(* A job is a key of module DueWork, and the object's run of it is a       *)
(* runner like any task's.  work[j] is what next() reads in the            *)
(* application's own tables: when j's pending work is due.  A lease is     *)
(* named by its runner, which is as fresh as the random token: a runner    *)
(* remembers only the lease of the run it is in.  One unit of time is      *)
(* minimumRerunMs; database and runners read the same clock.               *)
(***************************************************************************)
EXTENDS DueWork

CONSTANTS
    Tasks,      \* the minute tasks of an external runtime that may overlap
    LeaseTime,  \* leaseMs
    TaskClock   \* when a task compares due times: "start" (trigger.dev), "now" (Inngest)

ASSUME JobsAssumption ==
    /\ LeaseTime \in Nat \ {0}
    /\ TaskClock \in {"start", "now"}
    /\ {"object", "nobody"} \cap Tasks = {}

VARIABLES
    lease,       \* lease[j]: the scheduled_job row of j
    work,        \* work[j]: when j's pending work is due
    runner,      \* runner[r]: the run r is in
    interrupted  \* history: the slot of a run of j cut off in its body

jobVars == <<lease, work, runner, interrupted>>
allVars == <<dueWorkVars, jobVars>>

Runners == {"object"} \cup Tasks
Nobody == "nobody"
NoSlot == -1

Later(s, t) == IF s >= t THEN s ELSE t

LeaseRow == [holder : Runners \cup {Nobody}, until : 0..(MaxTime + LeaseTime), completed : {NoSlot} \cup Times]
RunnerState ==
    [pc      : {"idle", "listed", "acquire", "resolve", "body", "complete", "fail", "next", "done", "throws"},
     job     : Keys \cup {NoKey},
     slot    : {NoSlot} \cup WhenDue,
     started : Times,
     until   : 0..(MaxTime + LeaseTime),
     more    : BOOLEAN,
     next    : WhenDue]
NotRunning == [pc |-> "idle", job |-> NoKey, slot |-> NoSlot, started |-> 0, until |-> 0,
               more |-> FALSE, next |-> Never]

JobsTypeOK ==
    /\ DueWorkTypeOK
    /\ lease \in [Keys -> LeaseRow]
    /\ work \in [Keys -> WhenDue]
    /\ runner \in [Runners -> RunnerState]
    /\ interrupted \in [Keys -> {NoSlot} \cup WhenDue]

JobsInit ==
    /\ DueWorkInit
    /\ lease = [j \in Keys |-> [holder |-> Nobody, until |-> 0, completed |-> NoSlot]]
    /\ work = [j \in Keys |-> Never]
    /\ runner = [r \in Runners |-> NotRunning]
    /\ interrupted = [j \in Keys |-> NoSlot]

\* floor: a next time is never sooner than minimumRerunMs from now.
Floor(t) == IF t = Never THEN Never ELSE Later(t, now + 1)

AskFor(j, t) == Schedule([k \in Keys |-> IF k = j THEN t ELSE Never])

-----------------------------------------------------------------------------
(* The application, the sweep and time *)

PassTime == Tick /\ UNCHANGED jobVars

\* A transaction makes j's work due at t.
WorkArrives(j, t) ==
    /\ work[j] = Never /\ t >= now
    /\ work' = [work EXCEPT ![j] = t]
    /\ UNCHANGED <<dueWorkVars, lease, runner, interrupted>>

\* notify, which the application may call once the work has committed.
Notify(j) ==
    /\ work[j] # Never
    /\ AskFor(j, work[j])
    /\ UNCHANGED jobVars

\* The safety sweep records every job's next due time.
SweepRecords(j) ==
    /\ work[j] # Never
    /\ AskFor(j, Floor(work[j]))
    /\ UNCHANGED jobVars

-----------------------------------------------------------------------------
(* One run of a job: ScheduledJobRegistry.run *)

RunStep(r, fields) == runner' = [runner EXCEPT ![r] = fields]
At(r, pc) == runner[r].pc = pc
JobOf(r) == runner[r].job
Started(j, slot) == [NotRunning EXCEPT !.pc = "acquire", !.job = j, !.slot = slot, !.started = now]

\* Defect: the lease is given back whoever holds it now.
HeldByAnyone(r) == lease[JobOf(r)].holder # Nobody

\* complete and fail change the row only for the run that holds it, in time.
Held(r) == lease[JobOf(r)].holder = r /\ lease[JobOf(r)].until > now

\* Defects: a takeover that ignores the running lease, or the completed slot.
AvailableAnyLease(j, slot) == lease[j].completed < slot
AvailableAnySlot(j, slot) == lease[j].holder = Nobody \/ lease[j].until <= now

\* acquire's insert, or its update of a free row whose slot is not complete.
Available(j, slot) ==
    /\ lease[j].holder = Nobody \/ lease[j].until <= now
    /\ lease[j].completed < slot

Acquire(r) ==
    /\ At(r, "acquire")
    /\ LET j == JobOf(r) IN
         IF Available(j, runner[r].slot)
         THEN /\ lease' = [lease EXCEPT ![j].holder = r, ![j].until = now + LeaseTime]
              /\ RunStep(r, [runner[r] EXCEPT !.pc = "body", !.until = now + LeaseTime])
         ELSE RunStep(r, [runner[r] EXCEPT !.pc = "resolve"]) /\ UNCHANGED lease
    /\ UNCHANGED <<dueWorkVars, work, interrupted>>

\* acquire's second statement reads why: the slot is complete, or someone is
\* running and the run is put off until that lease ends.
Resolve(r) ==
    /\ At(r, "resolve")
    /\ LET held == lease[JobOf(r)] IN
         IF held.completed >= runner[r].slot
         THEN RunStep(r, [runner[r] EXCEPT !.pc = "next", !.slot = held.completed])
         ELSE RunStep(r, [runner[r] EXCEPT !.pc = "done",
                            !.next = IF held.holder = Nobody THEN now ELSE Earlier(held.until, Never)])
    /\ UNCHANGED <<dueWorkVars, lease, work, interrupted>>

\* The application's run: it does the work that is due, or a bounded part of
\* it, or throws.
Body(r) ==
    /\ At(r, "body")
    /\ \/ /\ RunStep(r, [runner[r] EXCEPT !.pc = "complete"])
          /\ work' = [work EXCEPT ![JobOf(r)] = IF @ <= now THEN Never ELSE @]
       \/ RunStep(r, [runner[r] EXCEPT !.pc = "complete", !.more = TRUE]) /\ UNCHANGED work
       \/ RunStep(r, [runner[r] EXCEPT !.pc = "fail"]) /\ UNCHANGED work
    /\ UNCHANGED <<dueWorkVars, lease, interrupted>>

GiveBack(r, completed) ==
    lease' = [lease EXCEPT ![JobOf(r)] = [holder |-> Nobody, until |-> 0, completed |-> completed]]

\* complete: the slot is complete unless more is left; a lost lease runs again.
Complete(r) ==
    /\ At(r, "complete")
    /\ LET j == JobOf(r)
           again == [runner[r] EXCEPT !.pc = "done", !.next = now]
       IN IF ~Held(r)
          THEN RunStep(r, again) /\ UNCHANGED <<lease, interrupted>>
          ELSE IF runner[r].more
          THEN RunStep(r, again) /\ GiveBack(r, lease[j].completed) /\ UNCHANGED interrupted
          ELSE /\ RunStep(r, [runner[r] EXCEPT !.pc = "next"])
               /\ GiveBack(r, Later(lease[j].completed, runner[r].slot))
               /\ interrupted' = [interrupted EXCEPT ![j] = NoSlot]
    /\ UNCHANGED <<dueWorkVars, work>>

\* fail: whether or not the lease was still held, the job is retried later.
Fail(r) ==
    /\ At(r, "fail")
    /\ IF Held(r) THEN GiveBack(r, lease[JobOf(r)].completed) ELSE UNCHANGED lease
    /\ \E retry \in WhenDue :
         retry > now /\ RunStep(r, [runner[r] EXCEPT !.pc = "done", !.next = retry])
    /\ UNCHANGED <<dueWorkVars, work, interrupted>>

\* nextAfter: next(), after the completed slot and not at once.
ComputeNext(r) ==
    /\ At(r, "next")
    /\ LET next == work[JobOf(r)] IN
         RunStep(r, [runner[r] EXCEPT !.pc = "done",
                       !.next = IF next = Never THEN Never
                                ELSE Earlier(Never, Floor(Later(next, runner[r].slot + 1)))])
    /\ UNCHANGED <<dueWorkVars, lease, work, interrupted>>

\* A statement or next() throws out of the run.
RunBreaks(r) ==
    /\ runner[r].pc \in {"acquire", "resolve", "complete", "fail", "next"}
    /\ RunStep(r, [runner[r] EXCEPT !.pc = "throws"])
    /\ UNCHANGED <<dueWorkVars, lease, work, interrupted>>

\* A run that is cut off in its body leaves its lease to run out.
CutOff(r) ==
    /\ RunStep(r, NotRunning)
    /\ interrupted' = IF At(r, "body")
                      THEN [interrupted EXCEPT ![JobOf(r)] = runner[r].slot] ELSE interrupted
    /\ UNCHANGED <<lease, work>>

-----------------------------------------------------------------------------
(* The scheduler object runs jobs from its alarm. *)

ObjectFires(batch) == AlarmFires(batch) /\ UNCHANGED jobVars

ObjectBegins(j, t) ==
    /\ BeginRun(j, t)
    /\ RunStep("object", Started(j, t))
    /\ UNCHANGED <<lease, work, interrupted>>

ObjectEnds ==
    /\ \/ At("object", "done") /\ RunReturns(runner["object"].next, {})
       \/ At("object", "throws") /\ \E retry \in WhenDue : RunThrows(retry)
    /\ RunStep("object", NotRunning)
    /\ UNCHANGED <<lease, work, interrupted>>

ObjectRearms == Rearm /\ UNCHANGED jobVars

ObjectDies == Crash /\ CutOff("object")

-----------------------------------------------------------------------------
(* The minute tasks list the due jobs, and run those whose time has come. *)

TaskLists(t, j) ==
    /\ At(t, "idle")
    /\ work[j] # Never
    /\ RunStep(t, [NotRunning EXCEPT !.pc = "listed", !.job = j, !.started = now,
                     !.slot = Earlier(Never, Floor(work[j])), !.next = work[j]])
    /\ UNCHANGED <<dueWorkVars, lease, work, interrupted>>

\* Defect: a task runs every job it lists.
TimeHasComeAlways(t) == TRUE

TimeHasCome(t) ==
    runner[t].slot <= (IF TaskClock = "start" THEN runner[t].started ELSE now)

TaskBegins(t) ==
    /\ At(t, "listed")
    /\ TimeHasCome(t)
    /\ RunStep(t, Started(JobOf(t), runner[t].slot))
    /\ UNCHANGED <<dueWorkVars, lease, work, interrupted>>

TaskSkips(t) ==
    /\ At(t, "listed")
    /\ ~TimeHasCome(t)
    /\ RunStep(t, NotRunning)
    /\ UNCHANGED <<dueWorkVars, lease, work, interrupted>>

TaskEnds(t) ==
    /\ runner[t].pc \in {"done", "throws"}
    /\ RunStep(t, NotRunning)
    /\ UNCHANGED <<dueWorkVars, lease, work, interrupted>>

TaskDies(t) ==
    /\ ~At(t, "idle")
    /\ CutOff(t)
    /\ UNCHANGED dueWorkVars

-----------------------------------------------------------------------------
JobStep(j) ==
    \/ \E t \in Times : WorkArrives(j, t) \/ ObjectBegins(j, t)
    \/ Notify(j) \/ SweepRecords(j)
    \/ \E t \in Tasks : TaskLists(t, j)

RunnerStep(r) ==
    \/ Acquire(r) \/ Resolve(r) \/ Body(r) \/ Complete(r) \/ Fail(r) \/ ComputeNext(r)
    \/ RunBreaks(r)

ObjectStep ==
    \/ \E batch \in SUBSET Keys : ObjectFires(batch)
    \/ ObjectEnds \/ ObjectRearms \/ ObjectDies

JobsNext ==
    \/ PassTime
    \/ \E j \in Keys : JobStep(j)
    \/ \E r \in Runners : RunnerStep(r)
    \/ ObjectStep
    \/ \E t \in Tasks : TaskBegins(t) \/ TaskSkips(t) \/ TaskEnds(t) \/ TaskDies(t)

JobsSpec == JobsInit /\ [][JobsNext]_allVars

-----------------------------------------------------------------------------
(* Properties *)

\* No slot is recorded complete before its time has come, by whichever runner:
\* the runs of that slot would be swallowed as already complete.
CompletedSlotsHaveCome == \A j \in Keys : lease[j].completed <= now

Working(r) == runner[r].pc \in {"body", "complete", "fail"}
InRun(r) == runner[r].pc \notin {"idle", "listed"}

\* A run inside the lease it took is the one the row names, and a run the row
\* names has its slot still to complete.
LeaseInv ==
    \A r \in Runners : Working(r) =>
        /\ runner[r].until > now =>
             lease[JobOf(r)].holder = r /\ lease[JobOf(r)].until = runner[r].until
        /\ Held(r) => lease[JobOf(r)].completed < runner[r].slot

\* Every run is of a job, for a slot whose time has come.
SlotInv ==
    /\ CompletedSlotsHaveCome
    /\ \A r \in Runners :
         /\ runner[r].started <= now
         /\ InRun(r) => JobOf(r) \in Keys /\ runner[r].slot \in Times /\ runner[r].slot <= now
         /\ At(r, "listed") => JobOf(r) \in Keys /\ runner[r].slot \in WhenDue

\* The types, and what a lease and a slot guarantee the run they belong to.
JobsInv == JobsTypeOK /\ LeaseInv /\ SlotInv

\* The bodies of two runs of one job never overlap inside their leases,
\* whichever of the object and the tasks started them and however late one of
\* them is (acquire's takeover condition; "one run of a job proceed at a time").
LeasesDoNotOverlap ==
    \A r, s \in Runners :
        /\ At(r, "body") /\ At(s, "body") /\ JobOf(r) = JobOf(s)
        /\ runner[r].until > now /\ runner[s].until > now
        => r = s

\* A slot is recorded complete once: a run that records one never finds it, or
\* a later one, complete already ("a due slot that completed is never run
\* again").
SlotsCompleteOnce ==
    [][\A r \in Runners :
         At(r, "complete") /\ runner'[r].pc = "next" =>
            lease[JobOf(r)].completed < runner[r].slot]_allVars

\* A run whose lease ran out while it worked neither ends nor shortens the
\* lease of the run that took over (complete's and fail's token and expiry).
LeaseEndsWithItsRun ==
    [][\A j \in Keys :
         lease[j].holder # Nobody /\ lease'[j].holder = Nobody =>
            /\ lease[j].until > now
            /\ JobOf(lease[j].holder) = j
            /\ runner[lease[j].holder].pc \in {"complete", "fail"}]_allVars

\* What the README says of a crash: a run that repeats an interrupted one
\* serves the same slot, so idempotency keys derived from it match.
CrashRepeatsTheSlot ==
    [][\A r \in Runners :
         At(r, "acquire") /\ runner'[r].pc = "body" /\ interrupted[JobOf(r)] # NoSlot =>
            runner[r].slot = interrupted[JobOf(r)]]_allVars

\* What the minute task's comment says: it runs each job whose next due time
\* has passed, so it skips none whose next() was in the past when it started.
TaskSkipsNoDueJob ==
    [][\A t \in Tasks : TaskSkips(t) => runner[t].next > runner[t].started]_allVars
=============================================================================
