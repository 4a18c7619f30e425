---------------------------- MODULE EmailSequences ----------------------------
(***************************************************************************)
(* Runs of one marketing email sequence: a trigger event's handler starts  *)
(* a run and its engine, the engine drives it step by step through durable *)
(* waits, repeating what fails, and exits, suppressions and lost authority *)
(* end it.  Each attempt of a step reloads the run, and the database fences *)
(* each change on the run's status and current step.                       *)
(*                                                                         *)
(* A trigger event names its run: it starts at most one.  An idempotency   *)
(* key is a run's step, and the provider accepts it once.  Lifting a       *)
(* suppression is left out.                                                *)
(***************************************************************************)
EXTENDS Naturals, Sequences, FiniteSets

CONSTANTS
    Triggers,  \* committed trigger events, each with its run
    Users,
    UserOf,    \* UserOf[t]: the recipient of t's run
    Steps,     \* the sequence: "wait" and "send"
    Attempts,  \* what can execute a step
    MaxFaults, \* deaths, timeouts, restarts, early wakes and quiet hours
    Nobody

ASSUME SequenceAssumption ==
    /\ UserOf \in [Triggers -> Users]
    /\ Steps \in Seq({"wait", "send"}) /\ Steps # <<>>
    /\ Nobody \notin Attempts
    /\ MaxFaults \in Nat

VARIABLES
    run,        \* run[t]: the sequence_run row
    handler,    \* handler[t]: where the trigger's consumer is
    engine,     \* engine[t]: the durable run of driveSequenceRun
    attempt,    \* attempt[x]: where runSequenceStep is
    suppressed, \* users whose address is suppressed
    accepted,   \* accepted[t]: steps whose email the provider accepted
    recorded,   \* recorded[t]: the sequence_send rows
    elapsed,    \* elapsed[t]: steps of which the time to wait for has passed
    sendable,   \* sendable[t]: steps whose email may go out, as t's stops left them
    gone,       \* triggers whose outbox row was pruned
    faults

rows == <<run, recorded>>
outside == <<suppressed, sendable, gone>>
vars == <<rows, handler, engine, attempt, outside, accepted, elapsed, faults>>

Length == Len(Steps)
Index == 0..Length
Free == [pc |-> "idle", on |-> Nobody, index |-> 0]

TypeOK ==
    /\ run \in [Triggers ->
         [status : {"none", "active", "completed", "exited", "failed"},
          step : Index, waiting : BOOLEAN]]      \* waiting: nextAt is ahead
    /\ handler \in [Triggers -> {"insert", "select", "start", "done"}]
    /\ engine \in [Triggers ->
         [state : {"none", "ready", "busy", "asleep", "over", "lost"}, index : Index, by : Attempts \cup {Nobody}]]
    /\ attempt \in [Attempts ->
         [pc : {"idle", "wait", "defer", "check", "skip", "send", "record", "fail", "exit"},
          on : Triggers \cup {Nobody}, index : Index]]
    /\ suppressed \subseteq Users
    /\ accepted \in [Triggers -> SUBSET Index]
    /\ recorded \in [Triggers -> SUBSET Index]
    /\ elapsed \in [Triggers -> SUBSET Index]
    /\ sendable \in [Triggers -> SUBSET Index]
    /\ gone \subseteq Triggers
    /\ faults \in 0..MaxFaults

Init ==
    /\ run = [t \in Triggers |-> [status |-> "none", step |-> 0, waiting |-> FALSE]]
    /\ handler = [t \in Triggers |-> "insert"]
    /\ engine = [t \in Triggers |-> [state |-> "none", index |-> 0, by |-> Nobody]]
    /\ attempt = [x \in Attempts |-> Free]
    /\ suppressed = {} /\ gone = {}
    /\ accepted = [t \in Triggers |-> {}] /\ recorded = accepted /\ elapsed = accepted
    /\ sendable = [t \in Triggers |-> Index]
    /\ faults = 0

Active(t) == run[t].status = "active"
Ended(t) == run[t].status \in {"completed", "exited", "failed"}
Rivals(t) == {s \in Triggers : UserOf[s] = UserOf[t] /\ Active(s)}
Fault == faults < MaxFaults /\ faults' = faults + 1
\* Steps of t that were sent, or that an attempt has yet to send.
Left(t, pcs) ==
    accepted[t] \cup {attempt[x].index : x \in {y \in Attempts : attempt[y].on = t /\ attempt[y].pc \in pcs}}

-----------------------------------------------------------------------------
(* The trigger's consumer, and what ends a run from outside *)

\* Defect: the index of active runs is missing.
InsertAlways(t) ==
    /\ handler[t] = "insert"
    /\ IF run[t].status = "none"
         THEN /\ run' = [run EXCEPT ![t].status = "active"]
              /\ handler' = [handler EXCEPT ![t] = "start"]
         ELSE handler' = [handler EXCEPT ![t] = "select"] /\ UNCHANGED run
    /\ UNCHANGED <<recorded, engine, attempt, outside, accepted, elapsed, faults>>
\* startSequenceRun inserts a row unless the trigger has one or the user an active one.
Insert(t) ==
    /\ handler[t] = "insert"
    /\ IF run[t].status = "none" /\ Rivals(t) = {}
         THEN /\ run' = [run EXCEPT ![t].status = "active"]
              /\ handler' = [handler EXCEPT ![t] = "start"]
         ELSE handler' = [handler EXCEPT ![t] = "select"] /\ UNCHANGED run
    /\ UNCHANGED <<recorded, engine, attempt, outside, accepted, elapsed, faults>>

\* Defect: only a run that this delivery inserted goes on to the engine.
FoundSkips(t) == IF Rivals(t) # {} \/ Ended(t) THEN "done" ELSE "insert"
\* It then finds the active run, or the trigger's own; only the trigger's own active run
\* goes on to the engine, and finding none fails the delivery, which comes again.
Found(t) ==
    IF Rivals(t) # {} THEN IF t \in Rivals(t) THEN "start" ELSE "done"
    ELSE IF Ended(t) THEN "done" ELSE "insert"

Select(t) ==
    /\ handler[t] = "select"
    /\ handler' = [handler EXCEPT ![t] = Found(t)]
    /\ UNCHANGED <<rows, engine, attempt, outside, accepted, elapsed, faults>>

\* The engine's start finds a run it already has.
StartEngine(t) ==
    /\ handler[t] = "start"
    /\ handler' = [handler EXCEPT ![t] = "done"]
    /\ engine' = IF engine[t].state = "none" THEN [engine EXCEPT ![t].state = "ready"] ELSE engine
    /\ UNCHANGED <<rows, attempt, outside, accepted, elapsed, faults>>

HandlerFails(t) ==
    /\ handler[t] # "insert" /\ t \notin gone /\ Fault
    /\ handler' = [handler EXCEPT ![t] = "insert"]
    /\ UNCHANGED <<rows, engine, attempt, outside, accepted, elapsed>>

\* The outbox row of a handled trigger is pruned, whatever its run is waiting for.
Prune(t) ==
    /\ handler[t] = "done" /\ t \notin gone
    /\ gone' = gone \cup {t}
    /\ UNCHANGED <<rows, handler, engine, attempt, suppressed, sendable, accepted, elapsed, faults>>

\* exitSequenceRuns, for an exit event of the user or of a suppressed recipient.
Exit(u) ==
    LET exits(t) == UserOf[t] = u /\ Active(t)
    IN  /\ \E t \in Triggers : exits(t)
        /\ run' = [t \in Triggers |-> IF exits(t) THEN [run[t] EXCEPT !.status = "exited", !.waiting = FALSE]
                                                  ELSE run[t]]
        /\ sendable' = [t \in Triggers |->
             IF exits(t) THEN sendable[t] \cap Left(t, {"check", "send"}) ELSE sendable[t]]
        /\ UNCHANGED <<recorded, handler, engine, attempt, suppressed, gone, accepted, elapsed, faults>>

\* The cancellation that follows an exit, at its own time if at all.
Cancel(t) ==
    /\ run[t].status = "exited" /\ engine[t].state \notin {"none", "over", "lost"}
    /\ engine' = [engine EXCEPT ![t] = [@ EXCEPT !.state = "over", !.by = Nobody]]
    /\ UNCHANGED <<rows, handler, attempt, outside, accepted, elapsed, faults>>

\* A permanent bounce, a complaint or an unsubscribe.
Suppress(u) ==
    /\ u \notin suppressed
    /\ suppressed' = suppressed \cup {u}
    /\ sendable' = [t \in Triggers |->
         IF UserOf[t] = u THEN sendable[t] \cap Left(t, {"send"}) ELSE sendable[t]]
    /\ UNCHANGED <<rows, handler, engine, attempt, gone, accepted, elapsed, faults>>

-----------------------------------------------------------------------------
(* The engine *)

\* The engine gives an attempt up for lost and repeats the step; the attempt may go on.
TimesOut(t) ==
    /\ engine[t].state = "busy" /\ Fault
    /\ engine' = [engine EXCEPT ![t].state = "ready", ![t].by = Nobody]
    /\ UNCHANGED <<rows, handler, attempt, outside, accepted, elapsed>>

\* An engine that memoizes nothing drives the run again from its first step.
Restarts(t) ==
    /\ engine[t].state \in {"ready", "busy", "asleep"} /\ Fault
    /\ engine' = [engine EXCEPT ![t] = [state |-> "ready", index |-> 0, by |-> Nobody]]
    /\ UNCHANGED <<rows, handler, attempt, outside, accepted, elapsed>>

\* The engine's retries or its budget of turns are spent; the row stays as it is.
GivesUp(t) ==
    /\ engine[t].state \in {"ready", "busy"} /\ Fault
    /\ engine' = [engine EXCEPT ![t].state = "lost", ![t].by = Nobody]
    /\ UNCHANGED <<rows, handler, attempt, outside, accepted, elapsed>>

WaitEnds(t) ==
    /\ run[t].waiting
    /\ run' = [run EXCEPT ![t].waiting = FALSE]
    /\ elapsed' = [elapsed EXCEPT ![t] = @ \cup {run[t].step}]
    /\ UNCHANGED <<recorded, handler, engine, attempt, outside, accepted, faults>>

Wake(t) ==
    /\ engine[t].state = "asleep"
    /\ IF run[t].waiting THEN Fault ELSE UNCHANGED faults
    /\ engine' = [engine EXCEPT ![t].state = "ready"]
    /\ UNCHANGED <<rows, handler, attempt, outside, accepted, elapsed>>

-----------------------------------------------------------------------------
(* An attempt of a step *)

Goto(x, pc) == attempt' = [attempt EXCEPT ![x].pc = pc] /\ UNCHANGED engine

\* The attempt returns; only the one the engine waits for moves it.
Return(x, state, next) ==
    LET t == attempt[x].on
    IN  /\ attempt' = [attempt EXCEPT ![x] = Free]
        /\ engine' = IF engine[t].by = x
                       THEN [engine EXCEPT ![t] = [state |-> state, index |-> next, by |-> Nobody]]
                       ELSE engine
Finish(x) == Return(x, "over", attempt[x].index)
Continue(x, next, waits) == Return(x, IF waits THEN "asleep" ELSE "ready", next)
\* reloaded: the outcome the row holds.
Replay(x) ==
    LET t == attempt[x].on IN IF Active(t) THEN Continue(x, run[t].step, run[t].waiting) ELSE Finish(x)

\* Defect: an engine that woke early is taken at its word.
DueEarly(t, pc) ==
    LET sends == Steps[run[t].step + 1] = "send"
    IN  \/ pc = "wait" /\ ~sends /\ UNCHANGED faults
        \/ pc = "check" /\ sends /\ UNCHANGED faults
\* The due step of an active run, up to its first effect: where the attempt goes on, or
\* "sleep".  A send inside quiet hours is put off.
Due(t, pc) ==
    LET sends == Steps[run[t].step + 1] = "send"
    IN  \/ pc = "wait" /\ ~sends /\ UNCHANGED faults
        \/ pc = "sleep" /\ sends /\ run[t].waiting /\ UNCHANGED faults
        \/ pc = "check" /\ sends /\ ~run[t].waiting /\ UNCHANGED faults
        \/ pc = "defer" /\ sends /\ ~run[t].waiting /\ Fault

\* Defect: a run is driven on whatever became of it.
MayRunAny(t) == run[t].status # "none" /\ run[t].step < Length
MayRun(t) == Active(t)

\* The engine executes its step: the committed row and the run are read.  Without the
\* row the step throws for good and no one marks the run: the engine is lost to it.
\* Provenance that is expired or of another event fails the run; a step before the
\* run's own returns what the row holds (replayed).
Execute(x, t) ==
    LET i == engine[t].index
        goesTo(pc) ==
          /\ attempt' = [attempt EXCEPT ![x] = [pc |-> pc, on |-> t, index |-> i]]
          /\ engine' = [engine EXCEPT ![t].state = "busy", ![t].by = x]
        returns(state, next) ==
          /\ engine' = [engine EXCEPT ![t].state = state, ![t].index = next]
          /\ UNCHANGED attempt
        asleep == IF run[t].waiting THEN "asleep" ELSE "ready"
        continues ==
          \/ goesTo("fail") /\ UNCHANGED faults
          \/ i < run[t].step /\ returns(asleep, run[t].step) /\ UNCHANGED faults
          \/ i = run[t].step /\ \E pc \in {"wait", "check", "defer"} : Due(t, pc) /\ goesTo(pc)
          \/ i = run[t].step /\ Due(t, "sleep") /\ returns("asleep", i)
    IN  /\ engine[t].state = "ready" /\ attempt[x].pc = "idle"
        /\ \/ t \in gone /\ returns("lost", i) /\ UNCHANGED faults
           \/ t \notin gone /\ ~MayRun(t) /\ returns("over", i) /\ UNCHANGED faults
           \/ t \notin gone /\ MayRun(t) /\ continues
        /\ UNCHANGED <<rows, handler, outside, accepted, elapsed>>

\* advanceSequenceRun's condition and change.
Current(x) == Active(attempt[x].on) /\ run[attempt[x].on].step = attempt[x].index
Last(x) == attempt[x].index + 1 = Length
Advance(x, waits) ==
    run' = [run EXCEPT ![attempt[x].on] =
              [status |-> IF Last(x) THEN "completed" ELSE "active",
               step |-> attempt[x].index + 1, waiting |-> waits /\ ~Last(x)]]
Then(x, waits) == IF Last(x) THEN Finish(x) ELSE Continue(x, attempt[x].index + 1, waits)

\* Defect: the change is not fenced on the run's status and step.
MoveOnUnfenced(x) ==
    /\ attempt[x].pc \in {"wait", "skip"}
    /\ LET waits == attempt[x].pc = "wait" IN Advance(x, waits) /\ Then(x, waits)
    /\ UNCHANGED <<recorded, handler, outside, accepted, elapsed, faults>>
\* A wait, or a send that `unless` skips, moves the run on, or finds it moved already.
MoveOn(x) ==
    /\ attempt[x].pc \in {"wait", "skip"}
    /\ LET waits == attempt[x].pc = "wait"
       IN  IF Current(x) THEN Advance(x, waits) /\ Then(x, waits)
                         ELSE Replay(x) /\ UNCHANGED run
    /\ UNCHANGED <<recorded, handler, outside, accepted, elapsed, faults>>

Defer(x) ==
    /\ attempt[x].pc = "defer"
    /\ run' = IF Current(x) THEN [run EXCEPT ![attempt[x].on].waiting = TRUE] ELSE run
    /\ Continue(x, attempt[x].index, TRUE)
    /\ UNCHANGED <<recorded, handler, outside, accepted, elapsed, faults>>

\* Authority, suppression and `unless`, as they are now.
Check(x) ==
    /\ attempt[x].pc = "check"
    /\ \/ Goto(x, "fail")
       \/ UserOf[attempt[x].on] \in suppressed /\ Goto(x, "exit")
       \/ UserOf[attempt[x].on] \notin suppressed /\ \E pc \in {"skip", "send"} : Goto(x, pc)
    /\ UNCHANGED <<rows, handler, outside, accepted, elapsed, faults>>

\* endSequenceRun leaves an ended run as it is; it asks for no step.
EndRun(x) ==
    LET t == attempt[x].on
        status == IF attempt[x].pc = "exit" THEN "exited" ELSE "failed"
    IN  /\ attempt[x].pc \in {"fail", "exit"}
        /\ IF Active(t)
             THEN /\ run' = [run EXCEPT ![t].status = status, ![t].waiting = FALSE]
                  /\ sendable' = [sendable EXCEPT ![t] = @ \cap Left(t, {"check", "send"})]
             ELSE UNCHANGED <<run, sendable>>
        /\ Finish(x)
        /\ UNCHANGED <<recorded, handler, suppressed, gone, accepted, elapsed, faults>>

\* The provider accepts an email once per key, and rejects an address or a message
\* that differs from the one it has under the key.
Send(x) ==
    /\ attempt[x].pc = "send"
    /\ \/ /\ accepted' = [accepted EXCEPT ![attempt[x].on] = @ \cup {attempt[x].index}]
          /\ Goto(x, "record")
       \/ Goto(x, "fail") /\ UNCHANGED accepted
    /\ UNCHANGED <<rows, handler, outside, elapsed, faults>>

\* Defect: the send is recorded and the run moved on by two transactions, and the
\* process dies between them; a retry finds the record and leaves the run alone.
RecordAlone(x) ==
    LET t == attempt[x].on
    IN  /\ attempt[x].pc = "record"
        /\ recorded' = [recorded EXCEPT ![t] = @ \cup {attempt[x].index}]
        /\ UNCHANGED run
        /\ Then(x, FALSE)
        /\ UNCHANGED <<handler, outside, accepted, elapsed, faults>>
\* recordSequenceSend: the send is recorded whatever became of the run.
Record(x) ==
    LET t == attempt[x].on
    IN  /\ attempt[x].pc = "record"
        /\ recorded' = [recorded EXCEPT ![t] = @ \cup {attempt[x].index}]
        /\ IF Current(x) THEN Advance(x, FALSE) ELSE UNCHANGED run
        /\ Then(x, FALSE)
        /\ UNCHANGED <<handler, outside, accepted, elapsed, faults>>

\* An attempt dies or throws; the engine repeats the step.
Dies(x) ==
    /\ attempt[x].pc # "idle" /\ Fault
    /\ Return(x, "ready", attempt[x].index)
    /\ UNCHANGED <<rows, handler, outside, accepted, elapsed>>

-----------------------------------------------------------------------------
AttemptStep(x) ==
    \/ MoveOn(x) \/ Defer(x) \/ Check(x) \/ EndRun(x) \/ Send(x) \/ Record(x)

Next ==
    \/ \E t \in Triggers :
         \/ Insert(t) \/ Select(t) \/ StartEngine(t) \/ HandlerFails(t) \/ Prune(t)
         \/ Cancel(t) \/ TimesOut(t) \/ Restarts(t) \/ GivesUp(t) \/ WaitEnds(t) \/ Wake(t)
         \/ \E x \in Attempts : Execute(x, t)
    \/ \E u \in Users : Exit(u) \/ Suppress(u)
    \/ \E x \in Attempts : AttemptStep(x) \/ Dies(x)

\* Deliveries of an unhandled trigger come again, an engine goes on with a run it has,
\* and time passes; exits, suppressions, pruning and faults need not happen.
Spec ==
    /\ Init /\ [][Next]_vars
    /\ \A t \in Triggers :
         /\ WF_vars(Insert(t)) /\ WF_vars(Select(t)) /\ WF_vars(StartEngine(t))
         /\ WF_vars(WaitEnds(t)) /\ WF_vars(Wake(t) /\ ~run[t].waiting)
         /\ WF_vars(\E x \in Attempts : Execute(x, t))
    /\ \A x \in Attempts : WF_vars(AttemptStep(x))

-----------------------------------------------------------------------------
\* Types; one active run for a user; no engine or attempt is ahead of an active run, so
\* that none fails as out of order; and only what the provider accepted is recorded
\* (sequences.ts, startSequenceRun and recordSequenceSend; sequence-runtime.ts:210).
OneActive == \A s, t \in Triggers : UserOf[s] = UserOf[t] /\ Active(s) /\ Active(t) => s = t
NeverAhead ==
    /\ \A t \in Triggers : Active(t) => engine[t].index <= run[t].step
    /\ \A x \in Attempts : LET t == attempt[x].on IN
         attempt[x].pc # "idle" /\ Active(t) => attempt[x].index <= run[t].step
SequenceInv ==
    /\ TypeOK /\ OneActive /\ NeverAhead
    /\ \A t \in Triggers : recorded[t] \subseteq accepted[t]

\* A handled trigger whose run is active has an engine run, though its delivery failed
\* between the insert and the engine's start (SequenceRegistry.start).
ActiveIsDriven ==
    \A t \in Triggers : handler[t] = "done" /\ Active(t) => engine[t].state # "none"

\* After an exit or a failure only what attempts had found active goes out, and after a
\* suppression only what had passed that check too, whichever step and however many
\* attempts and engines are under way (runSequenceStep's checks before every send).
StopsWhereItIs == \A t \in Triggers : accepted[t] \subseteq sendable[t]

\* No email goes out before the wait ahead of it is over, however often and early an
\* engine runs the step, or was skipped over (run.nextAt).
WaitsAreKept ==
    \A t \in Triggers : \A i \in accepted[t] : i > 0 /\ Steps[i] = "wait" => i \in elapsed[t]

\* A run only moves forward, a step at a time, and an ended run stays as it is.
RunsForward ==
    [][\A t \in Triggers :
         /\ run'[t].step \in {run[t].step, run[t].step + 1}
         /\ Ended(t) => run'[t] = run[t]]_vars

\* Attempts that died, timed out or came late act on a run others have moved on, and
\* still each change to the run and each email is one the contract allows: one active
\* run of a user, steps in order, waits kept, and no email but of a send that began
\* while the run was active and that found the address not suppressed
\* (runSequenceStep, advanceSequenceRun, recordSequenceSend).
standing == [t \in Triggers |-> [status |-> run[t].status, step |-> run[t].step]]
SendOf(a) == [run |-> a.on, step |-> a.index, cleared |-> a.pc = "send"]
underway == {SendOf(attempt[x]) : x \in {y \in Attempts : attempt[y].pc \in {"check", "send"}}}
Contract == INSTANCE SequenceContract WITH Runs <- Triggers, sent <- accepted, over <- elapsed
ImplementsContract == Contract!Spec

\* Every trigger is handled, and every run ends unless its engine gave up or came back
\* to it after its trigger's row was pruned: either leaves the row active for good.
RunsEnd ==
    \A t \in Triggers :
      /\ <>(handler[t] = "done")
      /\ Active(t) ~> (Ended(t) \/ engine[t].state = "lost")
=============================================================================
