------------------------- MODULE ScheduledJobsProofs -------------------------
(***************************************************************************)
(* Proofs about the job lease for every set of jobs and tasks, every lease *)
(* time and horizon.                                                       *)
(***************************************************************************)
EXTENDS ScheduledJobs, DueWorkProofs

\* What the object guarantees, and what the leases and slots add.
JobsStrong ==
    /\ ObjectInv
    /\ JobsInv

\* Every step of the jobs is a step of the scheduler object, or leaves it alone.
LEMMA JobsStepDueWork ==
    ASSUME DueWorkTypeOK, JobsTypeOK, [JobsNext]_allVars
    PROVE  [DueWorkNext]_dueWorkVars
<1>1. CASE UNCHANGED allVars
  BY <1>1 DEF allVars
<1>2. CASE PassTime
  BY <1>2 DEF PassTime, DueWorkNext
<1>3. ASSUME NEW j \in Keys, JobStep(j)
      PROVE  [DueWorkNext]_dueWorkVars
  <2>1. ASSUME NEW t \in Times, WorkArrives(j, t)
        PROVE  UNCHANGED dueWorkVars
    BY <2>1 DEF WorkArrives
  <2>2. ASSUME NEW t \in Times, ObjectBegins(j, t)
        PROVE  DueWorkNext
    BY <2>2 DEF ObjectBegins, DueWorkNext
  <2>3. CASE Notify(j)
    <3>1. [k \in Keys |-> IF k = j THEN work[j] ELSE Never] \in [Keys -> WhenDue]
      BY DEF JobsTypeOK, WhenDue
    <3> QED
      BY <2>3, <3>1 DEF Notify, AskFor, DueWorkNext
  <2>4. CASE SweepRecords(j)
    <3> DEFINE want == [k \in Keys |-> IF k = j THEN Floor(work[j]) ELSE Never]
    <3>1. want \in [Keys -> WhenDue]
      BY <2>4, DueWorkAssumption DEF SweepRecords, Floor, Later, JobsTypeOK, DueWorkTypeOK, WhenDue, Times, Never
    <3> QED
      BY <2>4, <3>1 DEF SweepRecords, AskFor, DueWorkNext
  <2>5. ASSUME NEW t \in Tasks, TaskLists(t, j)
        PROVE  UNCHANGED dueWorkVars
    BY <2>5 DEF TaskLists
  <2> QED
    BY <1>3, <2>1, <2>2, <2>3, <2>4, <2>5 DEF JobStep
<1>4. ASSUME NEW r \in Runners, RunnerStep(r)
      PROVE  UNCHANGED dueWorkVars
  BY <1>4 DEF RunnerStep, Acquire, Resolve, Body, Complete, Fail, ComputeNext, RunBreaks
<1>5. CASE ObjectStep
  <2>1. CASE ObjectEnds
    <3>1. runner["object"].next \in WhenDue
      BY DEF JobsTypeOK, Runners, RunnerState
    <3> QED
      BY <2>1, <3>1 DEF ObjectEnds, DueWorkNext
  <2> QED
    BY <1>5, <2>1 DEF ObjectStep, ObjectFires, ObjectRearms, ObjectDies, DueWorkNext
<1>6. ASSUME NEW t \in Tasks, TaskBegins(t) \/ TaskSkips(t) \/ TaskEnds(t) \/ TaskDies(t)
      PROVE  UNCHANGED dueWorkVars
  BY <1>6 DEF TaskBegins, TaskSkips, TaskEnds, TaskDies
<1> QED
  BY <1>1, <1>2, <1>3, <1>4, <1>5, <1>6 DEF JobsNext

\* Time that passes, and steps that leave rows and runs alone, keep the leases
\* and the slots.
LEMMA OthersKeepJobs ==
    ASSUME JobsInv, DueWorkTypeOK', now' >= now, UNCHANGED <<lease, runner, interrupted>>,
           work' \in [Keys -> WhenDue]
    PROVE  JobsInv'
<1> USE DueWorkAssumption, JobsAssumption
<1>1. now \in Times /\ now' \in Times
  BY DEF JobsInv, JobsTypeOK, DueWorkTypeOK
<1>2. JobsTypeOK'
  BY DEF JobsInv, JobsTypeOK
<1>3. LeaseInv'
  <2> SUFFICES ASSUME NEW r \in Runners, Working(r)
               PROVE  /\ runner[r].until > now' =>
                           lease[JobOf(r)].holder = r /\ lease[JobOf(r)].until = runner[r].until
                      /\ Held(r)' => lease[JobOf(r)].completed < runner[r].slot
    BY DEF LeaseInv, Working, JobOf
  <2>1. runner[r].until \in Int /\ JobOf(r) \in Keys /\ lease[JobOf(r)].until \in Int
    BY DEF JobsInv, SlotInv, InRun, Working, JobOf, JobsTypeOK, RunnerState, LeaseRow, Times
  <2>2. Held(r)' => Held(r)
    BY <1>1, <2>1 DEF Held, JobOf, Times
  <2>3. runner[r].until > now' => runner[r].until > now
    BY <1>1, <2>1 DEF Times
  <2> QED
    BY <2>2, <2>3 DEF JobsInv, LeaseInv
<1>4. SlotInv'
  <2>1. \A j \in Keys : lease[j].completed <= now'
    <3> TAKE j \in Keys
    <3>1. lease[j].completed \in Int /\ lease[j].completed <= now
      BY DEF JobsInv, SlotInv, CompletedSlotsHaveCome, JobsTypeOK, LeaseRow, NoSlot, Times
    <3> QED
      BY <1>1, <3>1 DEF Times
  <2>2. ASSUME NEW r \in Runners
        PROVE  /\ runner[r].started <= now'
               /\ InRun(r) => runner[r].slot <= now'
    <3>1. runner[r].started \in Int /\ runner[r].slot \in Int
      BY DEF JobsInv, JobsTypeOK, RunnerState, NoSlot, Times, WhenDue, Never
    <3>2. runner[r].started <= now /\ (InRun(r) => runner[r].slot <= now)
      BY DEF JobsInv, SlotInv
    <3> QED
      BY <1>1, <3>1, <3>2 DEF Times
  <2> QED
    BY <2>1, <2>2 DEF JobsInv, SlotInv, CompletedSlotsHaveCome, InRun, At, JobOf
<1> QED
  BY <1>2, <1>3, <1>4 DEF JobsInv

\* What a runner may become: anything a run can be whose slot has come.
RunnerMay(f) ==
    /\ f \in RunnerState
    /\ f.started <= now
    /\ f.pc \notin {"idle", "listed"} => f.job \in Keys /\ f.slot \in Times /\ f.slot <= now
    /\ f.pc = "listed" => f.job \in Keys /\ f.slot \in WhenDue

\* A runner that changes keeps the slots of all.
LEMMA RunnerKeepsSlots ==
    ASSUME JobsInv, now' = now, CompletedSlotsHaveCome',
           NEW r \in Runners, NEW f, RunnerMay(f), RunStep(r, f)
    PROVE  /\ SlotInv' /\ runner' \in [Runners -> RunnerState] /\ runner'[r] = f
           /\ \A s \in Runners \ {r} : runner'[s] = runner[s]
<1>1. /\ runner \in [Runners -> RunnerState] /\ runner' = [runner EXCEPT ![r] = f]
  BY DEF JobsInv, JobsTypeOK, RunStep
<1>2. /\ runner'[r] = f /\ \A s \in Runners \ {r} : runner'[s] = runner[s]
      /\ runner' \in [Runners -> RunnerState]
  BY <1>1 DEF RunnerMay
<1> SUFFICES ASSUME NEW s \in Runners
             PROVE  /\ runner'[s].started <= now'
                    /\ InRun(s)' => JobOf(s)' \in Keys /\ runner'[s].slot \in Times /\ runner'[s].slot <= now'
                    /\ At(s, "listed")' => JobOf(s)' \in Keys /\ runner'[s].slot \in WhenDue
  BY <1>2 DEF SlotInv
<1>3. CASE s = r
  BY <1>2, <1>3 DEF InRun, JobOf, At, RunnerMay
<1>4. CASE s # r
  BY <1>2, <1>4 DEF JobsInv, SlotInv, InRun, JobOf, At
<1> QED
  BY <1>3, <1>4

\* A runner that leaves its row alone keeps the leases, if a run that works on
\* keeps its job, its slot and its lease.
LEMMA RunnerKeepsJobs ==
    ASSUME JobsInv, DueWorkTypeOK', now' = now, lease' = lease,
           work' \in [Keys -> WhenDue], interrupted' \in [Keys -> {NoSlot} \cup WhenDue],
           NEW r \in Runners, NEW f, RunnerMay(f), RunStep(r, f),
           f.pc \in {"body", "complete", "fail"} =>
             /\ Working(r) /\ f.job = JobOf(r) /\ f.slot = runner[r].slot
             /\ f.until = runner[r].until
    PROVE  JobsInv'
<1>1. CompletedSlotsHaveCome'
  BY DEF JobsInv, SlotInv, CompletedSlotsHaveCome
<1>2. /\ SlotInv' /\ runner' \in [Runners -> RunnerState] /\ runner'[r] = f
      /\ \A s \in Runners \ {r} : runner'[s] = runner[s]
  BY <1>1, RunnerKeepsSlots
<1>3. JobsTypeOK'
  BY <1>2 DEF JobsInv, JobsTypeOK
<1>4. LeaseInv'
  <2>1. ASSUME NEW s \in Runners, Working(s)'
        PROVE  /\ Working(s) /\ JobOf(s)' = JobOf(s) /\ runner'[s].slot = runner[s].slot
               /\ runner'[s].until = runner[s].until
    <3>1. CASE s = r
      BY <1>2, <2>1, <3>1 DEF Working, JobOf
    <3>2. CASE s # r
      BY <1>2, <2>1, <3>2 DEF Working, JobOf
    <3> QED
      BY <3>1, <3>2
  <2> QED
    BY <2>1 DEF JobsInv, LeaseInv, Held
<1> QED
  BY <1>2, <1>3, <1>4 DEF JobsInv

\* Taking a free row's lease, and giving back one that is held, leave every
\* other run of the job outside its lease.
LEMMA RunnerChangesLease ==
    ASSUME JobsInv, DueWorkTypeOK', now' = now, work' \in [Keys -> WhenDue],
           interrupted' \in [Keys -> {NoSlot} \cup WhenDue],
           NEW r \in Runners, NEW f, RunnerMay(f), RunStep(r, f),
           InRun(r), f.job = JobOf(r),
           Available(JobOf(r), runner[r].slot) \/ Held(r),
           NEW held \in LeaseRow, held.completed <= now, held.holder \in {Nobody, r},
           lease' = [lease EXCEPT ![JobOf(r)] = held],
           f.pc \in {"body", "complete", "fail"} =>
             f.until = held.until /\ held.holder = r /\ held.completed < f.slot
    PROVE  JobsInv'
<1> USE JobsAssumption
<1> DEFINE j == JobOf(r)
<1>1. /\ j \in Keys /\ lease \in [Keys -> LeaseRow] /\ lease'[j] = held
      /\ \A k \in Keys \ {j} : lease'[k] = lease[k]
      /\ lease' \in [Keys -> LeaseRow]
  BY DEF JobsInv, JobsTypeOK, SlotInv
<1>2. CompletedSlotsHaveCome'
  BY <1>1 DEF JobsInv, SlotInv, CompletedSlotsHaveCome
<1>3. /\ SlotInv' /\ runner' \in [Runners -> RunnerState] /\ runner'[r] = f
      /\ \A s \in Runners \ {r} : runner'[s] = runner[s]
  BY <1>2, RunnerKeepsSlots
<1>4. JobsTypeOK'
  BY <1>1, <1>3 DEF JobsInv, JobsTypeOK
<1>5. LeaseInv'
  <2> SUFFICES ASSUME NEW s \in Runners, Working(s)'
               PROVE  /\ runner'[s].until > now =>
                           lease'[JobOf(s)'].holder = s /\ lease'[JobOf(s)'].until = runner'[s].until
                      /\ Held(s)' => lease'[JobOf(s)'].completed < runner'[s].slot
    BY DEF LeaseInv
  <2>1. CASE s = r
    BY <1>1, <1>3, <2>1 DEF Working, JobOf, Held
  <2>2. CASE s # r
    <3>1. Working(s) /\ JobOf(s)' = JobOf(s) /\ runner'[s] = runner[s] /\ JobOf(s) \in Keys
      BY <1>3, <2>2 DEF Working, JobOf, JobsInv, SlotInv, InRun
    <3>2. CASE JobOf(s) # j
      BY <1>1, <3>1, <3>2 DEF JobsInv, LeaseInv, Held
    <3>3. CASE JobOf(s) = j
      <4>1. s # Nobody /\ held.holder # s
        BY <2>2 DEF Runners, Nobody
      <4>2. ~Held(s)'
        BY <1>1, <3>1, <3>3, <4>1 DEF Held
      <4>3. ~(runner[s].until > now)
        <5> SUFFICES ASSUME runner[s].until > now PROVE FALSE
          OBVIOUS
        <5>1. lease[j].holder = s /\ lease[j].until > now
          BY <3>1, <3>3 DEF JobsInv, LeaseInv
        <5>2. lease[j].until \in Int /\ now \in Int
          BY <1>1 DEF LeaseRow, JobsInv, JobsTypeOK, DueWorkTypeOK, Times
        <5> QED
          BY <2>2, <4>1, <5>1, <5>2 DEF Available, Held
      <4> QED
        BY <3>1, <4>2, <4>3
    <3> QED
      BY <3>2, <3>3
  <2> QED
    BY <2>1, <2>2
<1> QED
  BY <1>3, <1>4, <1>5 DEF JobsInv
\* The jobs start idle, with nothing leased.
LEMMA JobsStart ==
    ASSUME JobsInit
    PROVE  JobsStrong
<1> USE DueWorkAssumption, JobsAssumption
<1>1. ObjectInv
  BY ObjectInvInit DEF JobsInit
<1>2. now = 0 /\ DueWorkTypeOK
  BY <1>1 DEF ObjectInv, DueWorkInv, JobsInit, DueWorkInit
<1>3. NotRunning \in RunnerState
  BY DEF NotRunning, RunnerState, NoSlot, Times, WhenDue, Never
<1>4. JobsTypeOK
  BY <1>2, <1>3 DEF JobsInit, JobsTypeOK, LeaseRow, NoSlot, Times, WhenDue, Never
<1>5. LeaseInv /\ SlotInv
  BY <1>2 DEF JobsInit, LeaseInv, SlotInv, CompletedSlotsHaveCome, Working, InRun, At, NotRunning, NoSlot
<1> QED
  BY <1>1, <1>4, <1>5 DEF JobsStrong, JobsInv

\* A runner may stop, and may start a job whose slot has come.
LEMMA RunnerStopsOrStarts ==
    ASSUME JobsInv
    PROVE  /\ RunnerMay(NotRunning)
           /\ \A j \in Keys, t \in Times : t <= now => RunnerMay(Started(j, t))
<1> USE DueWorkAssumption, JobsAssumption
<1>1. now \in Times
  BY DEF JobsInv, JobsTypeOK, DueWorkTypeOK
<1>2. /\ 0 \in Times /\ 0 \in 0..(MaxTime + LeaseTime) /\ Never \in WhenDue /\ Times \subseteq WhenDue
      /\ 0 <= now
  BY <1>1 DEF Times, WhenDue, Never
<1>3. RunnerMay(NotRunning)
  BY <1>1, <1>2 DEF RunnerMay, NotRunning, RunnerState
<1>4. ASSUME NEW j \in Keys, NEW t \in Times, t <= now
      PROVE  RunnerMay(Started(j, t))
  <2> DEFINE f == Started(j, t)
  <2>1. /\ NotRunning \in RunnerState
        /\ f = [NotRunning EXCEPT !.pc = "acquire", !.job = j, !.slot = t, !.started = now]
    BY <1>3 DEF RunnerMay, Started
  <2>2. f \in RunnerState /\ f.job = j /\ f.slot = t /\ f.started = now /\ f.pc = "acquire"
    BY <1>1, <1>2, <2>1 DEF RunnerState
  <2>3. now <= now
    BY <1>1 DEF Times
  <2> QED
    BY <1>4, <2>1, <2>2, <2>3 DEF RunnerMay
<1> QED
  BY <1>3, <1>4

\* What a runner is.
LEMMA RunnerIs ==
    ASSUME JobsInv, NEW r \in Runners
    PROVE  /\ runner[r] \in RunnerState /\ runner[r].started <= now
           /\ InRun(r) => JobOf(r) \in Keys /\ runner[r].slot \in Times /\ runner[r].slot <= now
           /\ InRun(r) => lease[JobOf(r)] \in LeaseRow /\ lease[JobOf(r)].completed <= now
                          /\ work[JobOf(r)] \in WhenDue
BY DEF JobsInv, JobsTypeOK, SlotInv, CompletedSlotsHaveCome

\* Each statement of a run keeps the leases and the slots.
LEMMA RunnerStepKeepsJobs ==
    ASSUME JobsInv, NEW r \in Runners, RunnerStep(r)
    PROVE  JobsInv'
<1> USE DueWorkAssumption, JobsAssumption, RunnerIs DEF At, InRun
<1>0. /\ now' = now /\ DueWorkTypeOK' /\ now \in Times
      /\ work \in [Keys -> WhenDue] /\ interrupted \in [Keys -> {NoSlot} \cup WhenDue]
      /\ lease \in [Keys -> LeaseRow]
  BY DEF RunnerStep, Acquire, Resolve, Body, Complete, Fail, ComputeNext, RunBreaks, dueWorkVars,
     JobsInv, JobsTypeOK, DueWorkTypeOK
<1> DEFINE j == JobOf(r)
<1>1. CASE Acquire(r)
  <2>1. CASE Available(j, runner[r].slot)
    <3> DEFINE held == [lease[j] EXCEPT !.holder = r, !.until = now + LeaseTime]
               f == [runner[r] EXCEPT !.pc = "body", !.until = now + LeaseTime]
    <3>1. RunStep(r, f) /\ lease' = [lease EXCEPT ![j] = held] /\ UNCHANGED <<work, interrupted>>
      BY <1>0, <1>1, <2>1 DEF Acquire
    <3>2. now + LeaseTime \in 0..(MaxTime + LeaseTime)
      BY <1>0 DEF Times
    <3>3. RunnerMay(f) /\ f.job = j /\ f.until = now + LeaseTime /\ f.slot = runner[r].slot
      BY <1>1, <3>2 DEF Acquire, RunnerMay, RunnerState, JobOf
    <3>4. /\ held \in LeaseRow /\ held.holder = r /\ held.until = now + LeaseTime
          /\ held.completed = lease[j].completed
      BY <1>1, <3>2 DEF Acquire, LeaseRow
    <3>5. held.completed <= now /\ held.completed < f.slot
      BY <1>1, <2>1, <3>3, <3>4 DEF Acquire, Available
    <3> HIDE DEF held, f
    <3> QED
      BY <1>0, <1>1, <2>1, <3>1, <3>3, <3>4, <3>5, RunnerChangesLease DEF Acquire
  <2>2. CASE ~Available(j, runner[r].slot)
    <3> DEFINE f == [runner[r] EXCEPT !.pc = "resolve"]
    <3>1. RunStep(r, f) /\ UNCHANGED <<lease, work, interrupted>>
      BY <1>1, <2>2 DEF Acquire
    <3>2. RunnerMay(f) /\ f.pc = "resolve"
      BY <1>1 DEF Acquire, RunnerMay, RunnerState, JobOf
    <3> HIDE DEF f
    <3> QED
      BY <1>0, <3>1, <3>2, RunnerKeepsJobs
  <2> QED
    BY <2>1, <2>2
<1>2. CASE Resolve(r)
  <2> DEFINE held == lease[j]
             f == IF held.completed >= runner[r].slot
                  THEN [runner[r] EXCEPT !.pc = "next", !.slot = held.completed]
                  ELSE [runner[r] EXCEPT !.pc = "done",
                          !.next = IF held.holder = Nobody THEN now ELSE Earlier(held.until, Never)]
  <2>1. RunStep(r, f) /\ UNCHANGED <<lease, work, interrupted>>
    BY <1>2 DEF Resolve
  <2>2. /\ held \in LeaseRow /\ held.completed <= now /\ j \in Keys
        /\ runner[r].slot \in Times /\ runner[r].slot <= now /\ runner[r] \in RunnerState
    BY <1>2 DEF Resolve
  <2>3. held.completed >= runner[r].slot => held.completed \in Times
    BY <2>2 DEF LeaseRow, NoSlot, Times
  <2>4. now \in WhenDue /\ Earlier(held.until, Never) \in WhenDue
    BY <1>0, <2>2 DEF LeaseRow, Earlier, WhenDue, Times, Never
  <2>5. RunnerMay(f) /\ f.pc \in {"next", "done"}
    <3>1. CASE held.completed >= runner[r].slot
      BY <2>2, <2>3, <3>1 DEF RunnerMay, RunnerState, JobOf, WhenDue
    <3>2. CASE ~(held.completed >= runner[r].slot)
      BY <1>2, <2>2, <2>4, <3>2 DEF Resolve, RunnerMay, RunnerState, JobOf
    <3> QED
      BY <3>1, <3>2
  <2> HIDE DEF f
  <2> QED
    BY <1>0, <2>1, <2>5, RunnerKeepsJobs
<1>3. CASE Body(r)
  <2>1. PICK f \in {[runner[r] EXCEPT !.pc = "complete"],
                    [runner[r] EXCEPT !.pc = "complete", !.more = TRUE],
                    [runner[r] EXCEPT !.pc = "fail"]} : RunStep(r, f)
    BY <1>3 DEF Body
  <2>2. /\ RunnerMay(f) /\ f.job = j /\ f.slot = runner[r].slot /\ f.until = runner[r].until
    BY <1>3, <2>1 DEF Body, RunnerMay, RunnerState, JobOf
  <2>3. work' \in [Keys -> WhenDue] /\ lease' = lease /\ interrupted' = interrupted /\ Working(r)
    BY <1>0, <1>3 DEF Body, Working, WhenDue
  <2> QED
    BY <1>0, <2>1, <2>2, <2>3, RunnerKeepsJobs
<1>4. CASE Complete(r)
  <2>1. /\ At(r, "complete") /\ InRun(r) /\ j \in Keys /\ UNCHANGED work
        /\ interrupted' \in [Keys -> {NoSlot} \cup WhenDue]
    BY <1>0, <1>4 DEF Complete
  <2>2. now \in WhenDue
    BY <1>0 DEF WhenDue
  <2>3. CASE ~Held(r)
    <3> DEFINE f == [runner[r] EXCEPT !.pc = "done", !.next = now]
    <3>1. RunStep(r, f) /\ UNCHANGED lease
      BY <1>4, <2>3 DEF Complete
    <3>2. RunnerMay(f) /\ f.pc = "done"
      BY <2>1, <2>2 DEF RunnerMay, RunnerState, JobOf
    <3> HIDE DEF f
    <3> QED
      BY <1>0, <2>1, <3>1, <3>2, RunnerKeepsJobs
  <2>4. CASE Held(r)
    <3> DEFINE f == IF runner[r].more THEN [runner[r] EXCEPT !.pc = "done", !.next = now]
                                      ELSE [runner[r] EXCEPT !.pc = "next"]
               completed == IF runner[r].more THEN lease[j].completed
                                              ELSE Later(lease[j].completed, runner[r].slot)
               held == [holder |-> Nobody, until |-> 0, completed |-> completed]
    <3>1. RunStep(r, f) /\ lease' = [lease EXCEPT ![j] = held]
      BY <1>4, <2>4 DEF Complete, GiveBack
    <3>2. RunnerMay(f) /\ f.pc \in {"done", "next"} /\ f.job = j
      BY <2>1, <2>2 DEF RunnerMay, RunnerState, JobOf
    <3>3. /\ lease[j].completed \in {NoSlot} \cup Times /\ lease[j].completed <= now
          /\ runner[r].slot \in Times /\ runner[r].slot <= now
      BY <2>1 DEF LeaseRow
    <3>4. completed \in {NoSlot} \cup Times /\ completed <= now
      BY <3>3 DEF Later, NoSlot, Times
    <3>5. held \in LeaseRow /\ held.completed <= now /\ held.holder = Nobody
      BY <3>4 DEF LeaseRow
    <3> HIDE DEF f, held
    <3> QED
      BY <1>0, <2>1, <2>4, <3>1, <3>2, <3>5, RunnerChangesLease
  <2> QED
    BY <2>3, <2>4
<1>5. CASE Fail(r)
  <2>1. PICK retry \in WhenDue : RunStep(r, [runner[r] EXCEPT !.pc = "done", !.next = retry])
    BY <1>5 DEF Fail
  <2> DEFINE f == [runner[r] EXCEPT !.pc = "done", !.next = retry]
             held == [holder |-> Nobody, until |-> 0, completed |-> lease[j].completed]
  <2>2. /\ RunnerMay(f) /\ f.pc = "done" /\ f.job = j /\ RunStep(r, f)
        /\ InRun(r) /\ j \in Keys /\ UNCHANGED <<work, interrupted>>
    BY <1>5, <2>1 DEF Fail, RunnerMay, RunnerState, JobOf
  <2>3. held \in LeaseRow /\ held.completed <= now /\ held.holder = Nobody
    BY <2>2 DEF LeaseRow
  <2>4. IF Held(r) THEN lease' = [lease EXCEPT ![j] = held] ELSE lease' = lease
    BY <1>5 DEF Fail, GiveBack
  <2> HIDE DEF f, held
  <2>5. CASE Held(r)
    BY <1>0, <2>2, <2>3, <2>4, <2>5, RunnerChangesLease
  <2>6. CASE ~Held(r)
    BY <1>0, <2>2, <2>4, <2>6, RunnerKeepsJobs
  <2> QED
    BY <2>5, <2>6
<1>6. CASE ComputeNext(r)
  <2> DEFINE next == IF work[j] = Never THEN Never
                     ELSE Earlier(Never, Floor(Later(work[j], runner[r].slot + 1)))
             f == [runner[r] EXCEPT !.pc = "done", !.next = next]
  <2>1. RunStep(r, f) /\ UNCHANGED <<lease, work, interrupted>>
    BY <1>6 DEF ComputeNext
  <2>2. InRun(r) /\ work[j] \in WhenDue /\ runner[r].slot \in Times
    BY <1>6 DEF ComputeNext
  <2>3. next \in WhenDue
    BY <1>0, <2>2 DEF Earlier, Floor, Later, WhenDue, Times, Never
  <2>4. RunnerMay(f) /\ f.pc = "done"
    BY <2>2, <2>3 DEF RunnerMay, RunnerState, JobOf
  <2> HIDE DEF f
  <2> QED
    BY <1>0, <2>1, <2>4, RunnerKeepsJobs
<1>7. CASE RunBreaks(r)
  <2> DEFINE f == [runner[r] EXCEPT !.pc = "throws"]
  <2>1. RunStep(r, f) /\ UNCHANGED <<lease, work, interrupted>>
    BY <1>7 DEF RunBreaks
  <2>2. RunnerMay(f) /\ f.pc = "throws"
    BY <1>7 DEF RunBreaks, RunnerMay, RunnerState, JobOf
  <2> HIDE DEF f
  <2> QED
    BY <1>0, <2>1, <2>2, RunnerKeepsJobs
<1> QED
  BY <1>1, <1>2, <1>3, <1>4, <1>5, <1>6, <1>7 DEF RunnerStep

\* A runner that is cut off keeps the leases and the slots.
LEMMA CutOffKeepsJobs ==
    ASSUME JobsInv, DueWorkTypeOK', now' = now, NEW r \in Runners, CutOff(r)
    PROVE  JobsInv'
<1>1. RunStep(r, NotRunning) /\ UNCHANGED <<lease, work>> /\ NotRunning.pc = "idle"
  BY DEF CutOff, NotRunning
<1>2. work' \in [Keys -> WhenDue] /\ interrupted' \in [Keys -> {NoSlot} \cup WhenDue]
  BY <1>1, RunnerIs DEF CutOff, JobsInv, JobsTypeOK, RunnerState
<1> QED
  BY <1>1, <1>2, RunnerStopsOrStarts, RunnerKeepsJobs
\* Every step of the jobs keeps what they guarantee.
LEMMA JobsStep ==
    ASSUME JobsStrong, [JobsNext]_allVars
    PROVE  JobsStrong'
<1> USE DueWorkAssumption, JobsAssumption
<1>1. JobsInv /\ DueWorkTypeOK /\ JobsTypeOK /\ now \in Times
  BY DEF JobsStrong, JobsInv, JobsTypeOK, DueWorkTypeOK
<1>2. ObjectInv'
  BY <1>1, JobsStepDueWork, ObjectInvStep DEF JobsStrong
<1>3. DueWorkTypeOK' /\ now' \in Times
  BY <1>2 DEF ObjectInv, DueWorkInv, DueWorkTypeOK
<1>4. /\ work \in [Keys -> WhenDue] /\ interrupted \in [Keys -> {NoSlot} \cup WhenDue]
      /\ "object" \in Runners /\ Tasks \subseteq Runners
  <2>1. work \in [Keys -> WhenDue] /\ interrupted \in [Keys -> {NoSlot} \cup WhenDue]
    BY <1>1 DEF JobsTypeOK
  <2>2. "object" \in Runners /\ Tasks \subseteq Runners
    BY DEF Runners
  <2> QED
    BY <2>1, <2>2
<1> SUFFICES JobsInv'
  BY <1>2 DEF JobsStrong
<1>5. CASE UNCHANGED allVars
  <2>1. UNCHANGED <<now, lease, runner, interrupted, work>>
    BY <1>5 DEF allVars, jobVars, dueWorkVars
  <2> QED
    BY <1>1, <1>3, <1>4, <2>1, OthersKeepJobs DEF Times
<1>6. CASE PassTime
  BY <1>1, <1>3, <1>4, <1>6, OthersKeepJobs DEF PassTime, Tick, jobVars, Times
<1>7. ASSUME NEW j \in Keys, JobStep(j)
      PROVE  JobsInv'
  <2>1. ASSUME NEW t \in Times, WorkArrives(j, t)
        PROVE  JobsInv'
    <3>1. work' \in [Keys -> WhenDue]
      BY <1>4, <2>1 DEF WorkArrives, WhenDue
    <3> QED
      BY <1>1, <1>3, <2>1, <3>1, OthersKeepJobs DEF WorkArrives, dueWorkVars, Times
  <2>2. ASSUME NEW t \in Times, ObjectBegins(j, t)
        PROVE  JobsInv'
    <3>1. t <= now
      BY <2>2 DEF ObjectBegins, BeginRun, JobsStrong, ObjectInv, DueWorkInv, ListStillStored
    <3>2. RunnerMay(Started(j, t)) /\ Started(j, t).pc = "acquire"
      BY <1>1, <3>1, RunnerStopsOrStarts DEF Started, NotRunning
    <3> QED
      BY <1>1, <1>3, <1>4, <2>2, <3>2, RunnerKeepsJobs DEF ObjectBegins, BeginRun
  <2>3. CASE Notify(j) \/ SweepRecords(j)
    <3>1. UNCHANGED <<now, lease, runner, interrupted, work>>
      BY <2>3 DEF Notify, SweepRecords, AskFor, Schedule, jobVars
    <3> QED
      BY <1>1, <1>3, <1>4, <3>1, OthersKeepJobs DEF Times
  <2>4. ASSUME NEW t \in Tasks, TaskLists(t, j)
        PROVE  JobsInv'
    <3> DEFINE f == [NotRunning EXCEPT !.pc = "listed", !.job = j, !.started = now,
                       !.slot = Earlier(Never, Floor(work[j])), !.next = work[j]]
    <3>1. Earlier(Never, Floor(work[j])) \in WhenDue
      BY <1>1, <1>4, <2>4 DEF TaskLists, Earlier, Floor, Later, WhenDue, Times, Never
    <3>3. NotRunning \in RunnerState /\ work[j] \in WhenDue /\ now <= now
      BY <1>1, <1>4, RunnerStopsOrStarts DEF RunnerMay, Times
    <3>4. /\ f \in RunnerState /\ f.pc = "listed" /\ f.job = j /\ f.started = now
          /\ f.slot = Earlier(Never, Floor(work[j]))
      BY <1>1, <3>1, <3>3 DEF RunnerState
    <3>5. RunnerMay(f)
      BY <3>1, <3>3, <3>4 DEF RunnerMay
    <3>6. RunStep(t, f) /\ UNCHANGED <<now, lease, work, interrupted>>
      BY <2>4 DEF TaskLists, dueWorkVars
    <3> HIDE DEF f
    <3> QED
      BY <1>1, <1>3, <1>4, <3>4, <3>5, <3>6, RunnerKeepsJobs
  <2> QED
    BY <1>7, <2>1, <2>2, <2>3, <2>4 DEF JobStep
<1>8. ASSUME NEW r \in Runners, RunnerStep(r)
      PROVE  JobsInv'
  BY <1>1, <1>8, RunnerStepKeepsJobs
<1>9. CASE ObjectStep
  <2>1. CASE (\E batch \in SUBSET Keys : ObjectFires(batch)) \/ ObjectRearms
    <3>1. UNCHANGED <<now, lease, runner, interrupted, work>>
      BY <2>1 DEF ObjectFires, AlarmFires, ObjectRearms, Rearm, jobVars
    <3> QED
      BY <1>1, <1>3, <1>4, <3>1, OthersKeepJobs DEF Times
  <2>2. CASE ObjectEnds
    <3>1. now' = now
      BY <2>2 DEF ObjectEnds, RunReturns, RunThrows, EndRun
    <3>2. NotRunning.pc = "idle" /\ RunnerMay(NotRunning)
      BY <1>1, RunnerStopsOrStarts DEF NotRunning
    <3>3. RunStep("object", NotRunning) /\ UNCHANGED <<lease, work, interrupted>>
      BY <2>2 DEF ObjectEnds
    <3> QED
      BY <1>1, <1>3, <1>4, <3>1, <3>2, <3>3, RunnerKeepsJobs
  <2>3. CASE ObjectDies
    <3>1. CutOff("object") /\ now' = now
      BY <2>3 DEF ObjectDies, Crash
    <3> QED
      BY <1>1, <1>3, <1>4, <3>1, CutOffKeepsJobs
  <2> QED
    BY <1>9, <2>1, <2>2, <2>3 DEF ObjectStep
<1>10. ASSUME NEW t \in Tasks, TaskBegins(t) \/ TaskSkips(t) \/ TaskEnds(t) \/ TaskDies(t)
       PROVE  JobsInv'
  <2>1. now' = now
    BY <1>10 DEF TaskBegins, TaskSkips, TaskEnds, TaskDies, dueWorkVars
  <2>2. CASE TaskBegins(t)
    <3>1. JobOf(t) \in Keys /\ runner[t].slot \in WhenDue /\ runner[t].started <= now
          /\ runner[t].started \in Times
      BY <1>1, <1>4, <2>2 DEF TaskBegins, JobsInv, JobsTypeOK, RunnerState, SlotInv
    <3>2. runner[t].slot \in Times /\ runner[t].slot <= now
      BY <1>1, <2>2, <3>1 DEF TaskBegins, TimeHasCome, WhenDue, Times, Never
    <3>3. RunnerMay(Started(JobOf(t), runner[t].slot)) /\ Started(JobOf(t), runner[t].slot).pc = "acquire"
      BY <1>1, <3>1, <3>2, RunnerStopsOrStarts DEF Started, NotRunning
    <3> QED
      BY <1>1, <1>3, <1>4, <2>1, <2>2, <3>3, RunnerKeepsJobs DEF TaskBegins
  <2>3. CASE TaskSkips(t) \/ TaskEnds(t)
    <3>1. NotRunning.pc = "idle"
      BY DEF NotRunning
    <3> QED
      BY <1>1, <1>3, <1>4, <2>1, <2>3, <3>1, RunnerStopsOrStarts, RunnerKeepsJobs DEF TaskSkips, TaskEnds
  <2>4. CASE TaskDies(t)
    BY <1>1, <1>3, <1>4, <2>1, <2>4, CutOffKeepsJobs DEF TaskDies
  <2> QED
    BY <1>10, <2>2, <2>3, <2>4
<1> QED
  BY <1>5, <1>6, <1>7, <1>8, <1>9, <1>10 DEF JobsNext

\* The jobs keep what they guarantee, and so does the object that runs them.
LEMMA JobsInvariant == JobsSpec => []JobsStrong
BY JobsStart, JobsStep, PTL DEF JobsSpec

\* A run inside its lease is the one its job's row names, and no slot is
\* recorded complete before its time has come.
THEOREM JobsAreLeased == JobsSpec => []JobsInv
<1>1. JobsStrong => JobsInv
  BY DEF JobsStrong
<1> QED
  BY <1>1, JobsInvariant, PTL

\* However late runs are, the bodies of two runs of a job never overlap inside
\* their leases: the row would name them both.
THEOREM OneRunOfAJob == JobsSpec => []LeasesDoNotOverlap
<1>1. JobsStrong => LeasesDoNotOverlap
  BY DEF JobsStrong, JobsInv, LeaseInv, LeasesDoNotOverlap, Working, At
<1> QED
  BY <1>1, JobsInvariant, PTL

\* A step is a statement of one run, or leaves the rows alone and at most
\* lists, starts or stops one run.
Restarts(r) == \E f : RunStep(r, f) /\ f.pc \in {"idle", "listed", "acquire"}

LEMMA WhatStepsDo ==
    ASSUME [JobsNext]_allVars
    PROVE  \/ \E r \in Runners : RunnerStep(r)
           \/ UNCHANGED lease /\ (UNCHANGED runner \/ \E r \in Runners : Restarts(r))
<1>1. NotRunning.pc = "idle" /\ \A j, t : Started(j, t).pc = "acquire"
  BY DEF NotRunning, Started
<1>2. "object" \in Runners /\ Tasks \subseteq Runners
  BY DEF Runners
<1>3. CASE UNCHANGED allVars \/ PassTime
  BY <1>3 DEF allVars, jobVars, PassTime
<1>4. ASSUME NEW j \in Keys, JobStep(j)
      PROVE  UNCHANGED lease /\ (UNCHANGED runner \/ \E r \in Runners : Restarts(r))
  <2>1. CASE (\E t \in Times : WorkArrives(j, t)) \/ Notify(j) \/ SweepRecords(j)
    BY <2>1 DEF WorkArrives, Notify, SweepRecords, jobVars
  <2>2. ASSUME NEW t \in Times, ObjectBegins(j, t)
        PROVE  UNCHANGED lease /\ Restarts("object")
    BY <1>1, <2>2 DEF ObjectBegins, Restarts
  <2>3. ASSUME NEW t \in Tasks, TaskLists(t, j)
        PROVE  UNCHANGED lease /\ Restarts(t)
    <3> DEFINE f == [NotRunning EXCEPT !.pc = "listed", !.job = j, !.started = now,
                       !.slot = Earlier(Never, Floor(work[j])), !.next = work[j]]
    <3>1. RunStep(t, f) /\ UNCHANGED lease
      BY <2>3 DEF TaskLists
    <3>2. f.pc = "listed"
      BY DEF NotRunning
    <3> QED
      BY <3>1, <3>2 DEF Restarts
  <2> QED
    BY <1>2, <1>4, <2>1, <2>2, <2>3 DEF JobStep
<1>5. CASE ObjectStep
  BY <1>1, <1>2, <1>5 DEF ObjectStep, ObjectFires, ObjectEnds, ObjectRearms, ObjectDies, CutOff, jobVars, Restarts
<1>6. ASSUME NEW t \in Tasks, TaskBegins(t) \/ TaskSkips(t) \/ TaskEnds(t) \/ TaskDies(t)
      PROVE  UNCHANGED lease /\ Restarts(t)
  BY <1>1, <1>6 DEF TaskBegins, TaskSkips, TaskEnds, TaskDies, CutOff, Restarts
<1> QED
  BY <1>2, <1>3, <1>4, <1>5, <1>6 DEF JobsNext

\* A step that takes a run past recording its slot is its own complete, and the
\* lease it held says the slot was not complete before.
THEOREM SlotsOnce == JobsSpec => SlotsCompleteOnce
<1>1. ASSUME JobsStrong, [JobsNext]_allVars, NEW r \in Runners,
             At(r, "complete"), runner'[r].pc = "next"
      PROVE  lease[JobOf(r)].completed < runner[r].slot
  <2>1. runner \in [Runners -> RunnerState] /\ runner[r].pc = "complete"
    BY <1>1 DEF JobsStrong, JobsInv, JobsTypeOK, At
  <2>2. ASSUME NEW s \in Runners, Restarts(s)
        PROVE  FALSE
    <3>1. PICK f : runner' = [runner EXCEPT ![s] = f] /\ f.pc \in {"idle", "listed", "acquire"}
      BY <2>2 DEF Restarts, RunStep
    <3>2. CASE s = r
      BY <1>1, <2>1, <3>1, <3>2
    <3>3. CASE s # r
      BY <1>1, <2>1, <3>1, <3>3
    <3> QED
      BY <3>2, <3>3
  <2>3. PICK s \in Runners : RunnerStep(s)
    BY <1>1, <2>1, <2>2, WhatStepsDo
  <2>4. s = r
    <3>1. \E f : runner' = [runner EXCEPT ![s] = f]
      BY <2>3 DEF RunnerStep, Acquire, Resolve, Body, Complete, Fail, ComputeNext, RunBreaks, RunStep
    <3>2. PICK f : runner' = [runner EXCEPT ![s] = f]
      BY <3>1
    <3> QED
      BY <1>1, <2>1, <3>2
  <2>5. Complete(r)
    <3>1. RunnerStep(r)
      BY <2>3, <2>4
    <3>2. ~RunBreaks(r)
      BY <1>1, <2>1 DEF RunBreaks, RunStep, RunnerState
    <3> QED
      BY <2>1, <3>1, <3>2 DEF RunnerStep, Acquire, Resolve, Body, Fail, ComputeNext, At
  <2>6. Held(r)
    BY <1>1, <2>1, <2>5 DEF Complete, RunStep, RunnerState
  <2> QED
    BY <1>1, <2>6 DEF JobsStrong, JobsInv, LeaseInv, Working, At
<1>2. JobsStrong /\ [JobsNext]_allVars =>
        [\A r \in Runners : At(r, "complete") /\ runner'[r].pc = "next" =>
           lease[JobOf(r)].completed < runner[r].slot]_allVars
  BY <1>1
<1> QED
  BY <1>2, JobsInvariant, PTL DEF JobsSpec, SlotsCompleteOnce

\* A lease ends early only by the complete or the fail of the run that holds it.
THEOREM LeasesEndWithTheirRuns == JobsSpec => LeaseEndsWithItsRun
<1>1. ASSUME JobsStrong, [JobsNext]_allVars, NEW j \in Keys,
             lease[j].holder # Nobody, lease'[j].holder = Nobody
      PROVE  /\ lease[j].until > now
             /\ JobOf(lease[j].holder) = j
             /\ runner[lease[j].holder].pc \in {"complete", "fail"}
  <2>1. lease \in [Keys -> LeaseRow] /\ lease' # lease
    BY <1>1 DEF JobsStrong, JobsInv, JobsTypeOK
  <2>2. PICK r \in Runners : RunnerStep(r)
    BY <1>1, <2>1, WhatStepsDo
  <2>3. Acquire(r) \/ Complete(r) \/ Fail(r)
    BY <2>1, <2>2 DEF RunnerStep, Resolve, Body, ComputeNext, RunBreaks
  <2>4. InRun(r)
    BY <2>3 DEF InRun, Acquire, Complete, Fail, At
  <2>5. JobOf(r) \in Keys
    BY <1>1, <2>4, RunnerIs DEF JobsStrong
  <2>6. ~Acquire(r)
    <3>1. r # Nobody
      BY JobsAssumption DEF Runners, Nobody
    <3>2. ASSUME Acquire(r), lease' # lease
          PROVE  lease'[j].holder \in {lease[j].holder, r}
      BY <2>1, <2>5, <3>2 DEF Acquire, LeaseRow
    <3> QED
      BY <1>1, <2>1, <3>1, <3>2
  <2>7. Held(r) /\ JobOf(r) = j
    BY <1>1, <2>1, <2>3, <2>5, <2>6 DEF Complete, Fail, GiveBack
  <2> QED
    BY <2>3, <2>6, <2>7 DEF Held, Complete, Fail, At
<1>2. JobsStrong /\ [JobsNext]_allVars =>
        [\A j \in Keys : lease[j].holder # Nobody /\ lease'[j].holder = Nobody =>
            /\ lease[j].until > now
            /\ JobOf(lease[j].holder) = j
            /\ runner[lease[j].holder].pc \in {"complete", "fail"}]_allVars
  BY <1>1
<1> QED
  BY <1>2, JobsInvariant, PTL DEF JobsSpec, LeaseEndsWithItsRun

\* The jobs use the scheduler object as it is: each of their steps is a step of
\* the object's own specification or leaves the object alone, so all that is
\* proved of the object alone holds while jobs, sweep and tasks work with it.
THEOREM JobsImplementDueWork == JobsSpec => DueWorkSpec
<1>1. JobsInit => DueWorkInit
  BY DEF JobsInit
<1>2. JobsStrong /\ [JobsNext]_allVars => [DueWorkNext]_dueWorkVars
  BY JobsStepDueWork DEF JobsStrong, JobsInv, JobsTypeOK
<1> QED
  BY <1>1, <1>2, JobsInvariant, PTL DEF JobsSpec, DueWorkSpec

\* So the object that runs the jobs keeps the promise of the abstract scheduler:
\* no job is started before the time stored for it, and none is forgotten.
THEOREM JobsImplementContract == JobsSpec => ImplementsContract
BY JobsImplementDueWork, ObjectImplementsContract, PTL
=============================================================================
