------------------------------- MODULE DueWork -------------------------------
(***************************************************************************)
(* The due-time scheduler object: for every key of future work the time it *)
(* is due, and one alarm for the earliest of them.  The alarm runs the due *)
(* work, oldest first and at most RunsPerAlarm keys of it, then arms       *)
(* itself for what remains.                                                *)
(*                                                                         *)
(* The object's calls between two awaits of other services are atomic: the *)
(* platform delivers nothing to it while it waits for its own storage.     *)
(* While a run is awaited, schedule() calls arrive.  One alarm handler     *)
(* runs at a time; when the object dies in it, the platform fires the      *)
(* alarm again.                                                            *)
(*                                                                         *)
(* Never stands for "no entry", "no alarm" and any time after the last     *)
(* instant considered.  The failure counts only choose how long a retry    *)
(* waits; here it may wait for any time.                                   *)
(***************************************************************************)
EXTENDS Integers, FiniteSets

CONSTANTS
    Keys,          \* the keys of future work
    MaxTime,       \* bound: the last instant considered
    RunsPerAlarm,  \* keys one alarm runs
    MaxCrashes     \* bound: deaths of the object

ASSUME DueWorkAssumption ==
    /\ MaxTime \in Nat
    /\ RunsPerAlarm \in Nat \ {0}
    /\ MaxCrashes \in Nat

VARIABLES
    now,      \* the clock
    due,      \* due[k]: the stored due time of k
    alarm,    \* when the alarm fires
    handler,  \* the alarm handler: its position, its start, its list, its key
    asked,    \* history: the earliest time asked for k since k last started
    crashes   \* how often the object died

dueWorkVars == <<now, due, alarm, handler, asked, crashes>>

Times == 0..MaxTime
Never == MaxTime + 1
WhenDue == Times \cup {Never}

Earlier(s, t) == IF s <= t THEN s ELSE t
EarlierOf(f, g) == [k \in Keys |-> Earlier(f[k], g[k])]

\* t is the earliest of the times f gives.
IsEarliest(t, f) ==
    /\ \A k \in Keys : t <= f[k]
    /\ t = Never \/ \E k \in Keys : t = f[k]

NoKey == "none"
Idle == [pc |-> "idle", started |-> 0, todo |-> {}, cur |-> NoKey]
HandlerState ==
    [pc      : {"idle", "next", "run"},
     started : Times,
     todo    : SUBSET (Keys \X Times),
     cur     : Keys \cup {NoKey}]

DueWorkTypeOK ==
    /\ now \in Times
    /\ due \in [Keys -> WhenDue]
    /\ alarm \in WhenDue
    /\ handler \in HandlerState
    /\ asked \in [Keys -> WhenDue]
    /\ crashes \in 0..MaxCrashes

DueWorkInit ==
    /\ now = 0
    /\ due = [k \in Keys |-> Never]
    /\ alarm = Never
    /\ handler = Idle
    /\ asked = [k \in Keys |-> Never]
    /\ crashes = 0

-----------------------------------------------------------------------------
Tick ==
    /\ now < MaxTime
    /\ now' = now + 1
    /\ UNCHANGED <<due, alarm, handler, asked, crashes>>

\* Record the times want gives: each key keeps its earliest.
Record(want) ==
    /\ due' = EarlierOf(due, want)
    /\ asked' = EarlierOf(asked, want)

\* Defect: an alarm that is already set is left where it is.
ScheduleKeepsAlarm(want) ==
    \E t \in Times :
      /\ IsEarliest(t, want)
      /\ Record(want)
      /\ alarm' = IF alarm = Never THEN t ELSE alarm
      /\ UNCHANGED <<now, handler, crashes>>

\* schedule: merge every item, then move the alarm, only ever earlier.
Schedule(want) ==
    \E t \in Times :
      /\ IsEarliest(t, want)
      /\ Record(want)
      /\ alarm' = Earlier(alarm, t)
      /\ UNCHANGED <<now, handler, crashes>>

\* The entries the alarm takes: the oldest due ones, at most RunsPerAlarm.
IsBatch(batch) ==
    LET late == {k \in Keys : due[k] <= now}
        size == Cardinality(late)
    IN /\ batch \subseteq late
       /\ Cardinality(batch) = (IF size <= RunsPerAlarm THEN size ELSE RunsPerAlarm)
       /\ \A k \in batch : \A other \in late \ batch : due[k] <= due[other]

\* The platform calls alarm(), which consumes the alarm.
AlarmFires(batch) ==
    /\ handler.pc = "idle" /\ alarm <= now
    /\ IsBatch(batch)
    /\ alarm' = Never
    /\ handler' = [pc |-> "next", started |-> now, todo |-> {<<k, due[k]>> : k \in batch}, cur |-> NoKey]
    /\ UNCHANGED <<now, due, asked, crashes>>

\* Defect: the entry is run and deleted, but stays on the list.
BeginRunKeepsListed(k, t) ==
    /\ handler.pc = "next" /\ <<k, t>> \in handler.todo
    /\ due' = [due EXCEPT ![k] = Never]
    /\ asked' = [asked EXCEPT ![k] = Never]
    /\ handler' = [handler EXCEPT !.pc = "run", !.cur = k]
    /\ UNCHANGED <<now, alarm, crashes>>

\* The oldest entry left on the list is deleted and its run begins, for the
\* time the list holds.
BeginRun(k, t) ==
    /\ handler.pc = "next" /\ <<k, t>> \in handler.todo
    /\ \A entry \in handler.todo : t <= entry[2]
    /\ due' = [due EXCEPT ![k] = Never]
    /\ asked' = [asked EXCEPT ![k] = Never]
    /\ handler' = [handler EXCEPT !.pc = "run", !.todo = @ \ {<<k, t>>}, !.cur = k]
    /\ UNCHANGED <<now, alarm, crashes>>

\* Defect: what the run reports replaces the entry.
EndRunOverwrites(report) ==
    /\ handler.pc = "run"
    /\ due' = [EarlierOf(due, report) EXCEPT ![handler.cur] = report[handler.cur]]
    /\ asked' = EarlierOf(asked, report)
    /\ handler' = [handler EXCEPT !.pc = "next", !.cur = NoKey]
    /\ UNCHANGED <<now, alarm, crashes>>

\* A run ends, with the times of its report merged as schedule() merges them.
EndRun(report) ==
    /\ handler.pc = "run"
    /\ Record(report)
    /\ handler' = [handler EXCEPT !.pc = "next", !.cur = NoKey]
    /\ UNCHANGED <<now, alarm, crashes>>

\* The run returns when its key is next due, and the keys it made due now.
RunReturns(next, wake) ==
    EndRun([k \in Keys |-> Earlier(IF k = handler.cur THEN next ELSE Never,
                                   IF k \in wake THEN now ELSE Never)])

\* The run throws, and is retried some time after the alarm began.
RunThrows(retry) ==
    /\ retry > handler.started
    /\ EndRun([k \in Keys |-> IF k = handler.cur THEN retry ELSE Never])

\* Defect: the alarm is deleted when the list is done, whatever else is stored.
RearmClears ==
    /\ handler.pc = "next" /\ handler.todo = {}
    /\ alarm' = Never
    /\ handler' = Idle
    /\ UNCHANGED <<now, due, asked, crashes>>

\* arm: the alarm moves to the earliest entry, or is deleted when none is left.
Rearm ==
    /\ handler.pc = "next" /\ handler.todo = {}
    /\ \E t \in WhenDue : IsEarliest(t, due) /\ alarm' = t
    /\ handler' = Idle
    /\ UNCHANGED <<now, due, asked, crashes>>

\* The object dies inside its handler: the alarm will fire again.
Crash ==
    /\ handler.pc # "idle" /\ crashes < MaxCrashes
    /\ crashes' = crashes + 1
    /\ alarm' = Earlier(alarm, now)
    /\ handler' = Idle
    /\ UNCHANGED <<now, due, asked>>

DueWorkNext ==
    \/ Tick
    \/ \E want \in [Keys -> WhenDue] : Schedule(want)
    \/ \E batch \in SUBSET Keys : AlarmFires(batch)
    \/ \E k \in Keys, t \in Times : BeginRun(k, t)
    \/ \E next \in WhenDue, wake \in SUBSET Keys : RunReturns(next, wake)
    \/ \E retry \in WhenDue : RunThrows(retry)
    \/ Rearm
    \/ Crash

DueWorkSpec == DueWorkInit /\ [][DueWorkNext]_dueWorkVars

\* Time passes, the platform fires the alarm, and the handler goes on until
\* each run it awaits ends.
DueWorkFairness ==
    /\ WF_dueWorkVars(Tick)
    /\ WF_dueWorkVars(\E batch \in SUBSET Keys : AlarmFires(batch))
    /\ WF_dueWorkVars(\/ \E k \in Keys, t \in Times : BeginRun(k, t)
                      \/ \E next \in WhenDue, wake \in SUBSET Keys : RunReturns(next, wake)
                      \/ \E retry \in WhenDue : RunThrows(retry)
                      \/ Rearm)

FairDueWork == DueWorkSpec /\ DueWorkFairness

-----------------------------------------------------------------------------
(* Properties *)

\* The list an alarm works through stays true to the store while schedule()
\* calls change it: an entry still to be run is still stored, no later than
\* the list says, so no run is for work that another run already took.
ListStillStored ==
    \A entry \in handler.todo : due[entry[1]] <= entry[2] /\ entry[2] <= now

\* Work recorded while the same key runs, or while the alarm works through
\* its list, is not lost with the entry the run consumed: whatever was asked
\* of a key since its last run began is still stored, no later than asked
\* (alarm's delete before the run and merge after it).
NothingAskedIsLost == \A k \in Keys : due[k] <= asked[k]

\* The types, and what the object's list and its store owe its callers.
DueWorkInv == DueWorkTypeOK /\ ListStillStored /\ NothingAskedIsLost

\* While no alarm handler runs, no stored work waits without an alarm that
\* fires at or before its time or is already late, whatever was scheduled
\* during the last handler or lost with it (schedule and arm: "the object
\* keeps one alarm for the earliest due time").
AlarmCoversWork ==
    handler.pc = "idle" => \A k \in Keys : alarm <= due[k] \/ alarm <= now

\* With nothing pending there is no alarm, so an idle project stays idle:
\* neither wakes during a run nor repeated schedules leave one behind.
NothingPendingNoAlarm ==
    handler.pc = "idle" /\ crashes = 0 /\ (\A k \in Keys : due[k] = Never) => alarm = Never

\* Between handlers the alarm matches the work: it covers the earliest, and
\* unless a handler died there is none when nothing is stored.
AlarmMatchesWork == AlarmCoversWork /\ NothingPendingNoAlarm

\* Work that is due starts, however its key and the others are rescheduled,
\* fail, or die with the object meanwhile, unless as many others as an alarm
\* takes are due no later (they are what the alarm takes first).
Crowded(k) ==
    Cardinality({other \in Keys \ {k} : due[other] <= due[k]}) >= RunsPerAlarm

DueWorkStarts ==
    \A k \in Keys : due[k] # Never ~> (handler.pc = "run" /\ handler.cur = k) \/ Crowded(k)

\* What the alarm works through is a list taken earlier, and the store it
\* deletes from has changed since; still the object implements the abstract
\* scheduler: no work is started before its time, and none leaves the store,
\* or moves to a later time, but by being started.
Contract == INSTANCE DueWorkContract WITH clock <- now, pending <- due
ImplementsContract == Contract!Spec
=============================================================================
