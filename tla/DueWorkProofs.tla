---------------------------- MODULE DueWorkProofs ----------------------------
(***************************************************************************)
(* Proofs about the scheduler object for every set of keys, every horizon, *)
(* every batch size and any number of deaths.                              *)
(***************************************************************************)
EXTENDS DueWork, TLAPS

\* The earlier of two times is a time, and no later than either.
LEMMA EarlierTimes ==
    ASSUME NEW f \in [Keys -> WhenDue], NEW g \in [Keys -> WhenDue]
    PROVE  /\ EarlierOf(f, g) \in [Keys -> WhenDue]
           /\ \A k \in Keys : /\ EarlierOf(f, g)[k] <= f[k]
                              /\ EarlierOf(f, g)[k] <= g[k]
                              /\ EarlierOf(f, g)[k] \in {f[k], g[k]}
BY DueWorkAssumption DEF EarlierOf, Earlier, WhenDue, Times, Never

\* The report of a run gives every key a time.
LEMMA ReportTimes ==
    ASSUME DueWorkTypeOK, NEW next \in WhenDue, NEW wake \in SUBSET Keys
    PROVE  [k \in Keys |-> Earlier(IF k = handler.cur THEN next ELSE Never,
                                   IF k \in wake THEN now ELSE Never)] \in [Keys -> WhenDue]
BY DueWorkAssumption DEF Earlier, WhenDue, Times, Never, DueWorkTypeOK

\* A run ends with a report of times.
LEMMA RunEnds ==
    ASSUME DueWorkTypeOK,
           \/ \E next \in WhenDue, wake \in SUBSET Keys : RunReturns(next, wake)
           \/ \E retry \in WhenDue : RunThrows(retry)
    PROVE  \E report \in [Keys -> WhenDue] : EndRun(report)
<1>1. ASSUME NEW next \in WhenDue, NEW wake \in SUBSET Keys, RunReturns(next, wake)
      PROVE  \E report \in [Keys -> WhenDue] : EndRun(report)
  BY <1>1, ReportTimes DEF RunReturns
<1>2. ASSUME NEW retry \in WhenDue, RunThrows(retry)
      PROVE  \E report \in [Keys -> WhenDue] : EndRun(report)
  BY <1>2 DEF RunThrows, WhenDue
<1> QED
  BY <1>1, <1>2

\* What the object's invariant says of every state.
ObjectInv ==
    /\ DueWorkInv
    /\ AlarmCoversWork
    /\ NothingPendingNoAlarm
    /\ \A entry, other \in handler.todo : entry[1] = other[1] => entry = other

\* The object starts with nothing due.
LEMMA ObjectInvInit ==
    ASSUME DueWorkInit
    PROVE  ObjectInv
BY DueWorkAssumption DEF DueWorkInit, ObjectInv, DueWorkInv, DueWorkTypeOK, ListStillStored,
   AlarmCoversWork, NothingAskedIsLost, NothingPendingNoAlarm, Idle, HandlerState, WhenDue, Times, Never

\* Recording times keeps what is stored no later than what was asked, and keeps
\* the entries on the list.
LEMMA RecordInv ==
    ASSUME DueWorkInv, NEW want \in [Keys -> WhenDue], Record(want),
           UNCHANGED <<now, crashes>>, alarm' \in WhenDue, handler' \in HandlerState,
           handler'.todo = handler.todo
    PROVE  DueWorkInv'
<1> USE DEF DueWorkInv, NothingAskedIsLost
<1>1. /\ due \in [Keys -> WhenDue] /\ asked \in [Keys -> WhenDue]
      /\ due' = EarlierOf(due, want) /\ asked' = EarlierOf(asked, want)
  BY DEF DueWorkTypeOK, Record
<1>2. due' \in [Keys -> WhenDue] /\ asked' \in [Keys -> WhenDue]
  BY <1>1, EarlierTimes
<1>3. DueWorkTypeOK'
  BY <1>2 DEF DueWorkTypeOK
<1>4. NothingAskedIsLost'
  BY <1>1, DueWorkAssumption DEF EarlierOf, Earlier, WhenDue, Times, Never
<1>5. ListStillStored'
  <2> SUFFICES ASSUME NEW entry \in handler.todo
               PROVE  due'[entry[1]] <= entry[2] /\ entry[2] <= now
    BY DEF ListStillStored
  <2>1. entry[1] \in Keys /\ entry[2] \in Times
    BY DEF DueWorkTypeOK, HandlerState
  <2>2. due'[entry[1]] <= due[entry[1]] /\ due[entry[1]] <= entry[2] /\ entry[2] <= now
    BY <1>1, <2>1, EarlierTimes DEF ListStillStored
  <2> QED
    BY <1>1, <1>2, <2>1, <2>2, DueWorkAssumption DEF WhenDue, Times, Never
<1> QED
  BY <1>3, <1>4, <1>5

\* Every step of the object keeps its invariant.
LEMMA ObjectInvStep ==
    ASSUME ObjectInv, [DueWorkNext]_dueWorkVars
    PROVE  ObjectInv'
<1> USE DueWorkAssumption DEF ObjectInv
<1>0. /\ now \in Times /\ due \in [Keys -> WhenDue] /\ alarm \in WhenDue
      /\ handler \in HandlerState /\ asked \in [Keys -> WhenDue]
  BY DEF DueWorkInv, DueWorkTypeOK
<1>1. CASE UNCHANGED dueWorkVars
  BY <1>1 DEF dueWorkVars, DueWorkInv, DueWorkTypeOK, ListStillStored, AlarmCoversWork,
     NothingAskedIsLost, NothingPendingNoAlarm
<1>2. CASE Tick
  BY <1>0, <1>2 DEF Tick, DueWorkInv, DueWorkTypeOK, ListStillStored, AlarmCoversWork,
     NothingAskedIsLost, NothingPendingNoAlarm, Times, WhenDue, Never, HandlerState
<1>3. ASSUME NEW want \in [Keys -> WhenDue], Schedule(want)
      PROVE  ObjectInv'
  <2>1. PICK t \in Times : /\ IsEarliest(t, want) /\ Record(want)
                           /\ alarm' = Earlier(alarm, t) /\ UNCHANGED <<now, handler, crashes>>
    BY <1>3 DEF Schedule
  <2>2. alarm' \in WhenDue /\ alarm' <= alarm /\ alarm' <= t /\ alarm' \in {alarm, t}
    BY <1>0, <2>1 DEF Earlier, WhenDue, Times, Never
  <2>3. DueWorkInv'
    BY <1>0, <2>1, <2>2, RecordInv
  <2>4. /\ due' \in [Keys -> WhenDue]
        /\ \A k \in Keys : due'[k] \in {due[k], want[k]} /\ due'[k] <= want[k] /\ t <= want[k]
    BY <1>0, <2>1, EarlierTimes DEF Record, IsEarliest
  <2>5. AlarmCoversWork'
    <3> SUFFICES ASSUME handler.pc = "idle", NEW k \in Keys
                 PROVE  alarm' <= due'[k] \/ alarm' <= now
      BY <2>1 DEF AlarmCoversWork
    <3>1. CASE due'[k] = want[k]
      BY <1>0, <2>1, <2>2, <2>4, <3>1 DEF WhenDue, Times, Never
    <3>2. CASE due'[k] = due[k]
      BY <1>0, <2>1, <2>2, <2>4, <3>2 DEF AlarmCoversWork, WhenDue, Times, Never
    <3> QED
      BY <2>4, <3>1, <3>2
  <2>6. \E k \in Keys : due'[k] # Never
    <3>1. PICK k \in Keys : want[k] = t
      BY <2>1 DEF IsEarliest, Times, Never
    <3> QED
      BY <1>0, <2>4, <3>1 DEF WhenDue, Times, Never
  <2> QED
    BY <2>1, <2>3, <2>5, <2>6 DEF NothingPendingNoAlarm
<1>4. ASSUME NEW batch \in SUBSET Keys, AlarmFires(batch)
      PROVE  ObjectInv'
  <2> DEFINE todo == {<<k, due[k]>> : k \in batch}
  <2>1. \A k \in batch : due[k] \in Times /\ due[k] <= now
    BY <1>0, <1>4 DEF AlarmFires, IsBatch, WhenDue, Times, Never
  <2>2. todo \in SUBSET (Keys \X Times)
    BY <2>1
  <2>3. handler' = [pc |-> "next", started |-> now, todo |-> todo, cur |-> NoKey]
        /\ alarm' = Never /\ UNCHANGED <<now, due, asked, crashes>>
    BY <1>4 DEF AlarmFires
  <2>4. DueWorkTypeOK'
    BY <1>0, <2>2, <2>3 DEF DueWorkInv, DueWorkTypeOK, HandlerState, WhenDue
  <2>5. ListStillStored' /\ (\A entry, other \in todo : entry[1] = other[1] => entry = other)
    BY <1>0, <2>1, <2>3 DEF ListStillStored, WhenDue, Times, Never
  <2> QED
    BY <2>3, <2>4, <2>5 DEF DueWorkInv, AlarmCoversWork, NothingAskedIsLost, NothingPendingNoAlarm
<1>5. ASSUME NEW k \in Keys, NEW t \in Times, BeginRun(k, t)
      PROVE  ObjectInv'
  <2>1. /\ due' = [due EXCEPT ![k] = Never] /\ asked' = [asked EXCEPT ![k] = Never]
        /\ handler' = [handler EXCEPT !.pc = "run", !.todo = @ \ {<<k, t>>}, !.cur = k]
        /\ <<k, t>> \in handler.todo /\ UNCHANGED <<now, alarm, crashes>>
    BY <1>5 DEF BeginRun
  <2>2. handler' \in HandlerState /\ handler'.pc = "run" /\ handler'.todo = handler.todo \ {<<k, t>>}
    BY <1>0, <2>1 DEF HandlerState
  <2>3. DueWorkTypeOK'
    BY <1>0, <2>1, <2>2 DEF DueWorkInv, DueWorkTypeOK, WhenDue
  <2>4. NothingAskedIsLost'
    BY <1>0, <2>1 DEF DueWorkInv, NothingAskedIsLost, WhenDue, Times, Never
  <2>5. ListStillStored'
    <3> SUFFICES ASSUME NEW entry \in handler'.todo
                 PROVE  due'[entry[1]] <= entry[2] /\ entry[2] <= now'
      BY DEF ListStillStored
    <3>1. entry \in handler.todo /\ entry # <<k, t>>
      BY <2>2
    <3>2. entry[1] # k
      BY <2>1, <3>1
    <3> QED
      BY <1>0, <2>1, <3>1, <3>2 DEF DueWorkInv, ListStillStored, HandlerState
  <2> QED
    BY <2>2, <2>3, <2>4, <2>5 DEF DueWorkInv, AlarmCoversWork, NothingPendingNoAlarm
<1>6. ASSUME NEW report \in [Keys -> WhenDue], EndRun(report)
      PROVE  ObjectInv'
  <2>1. Record(report) /\ UNCHANGED <<now, alarm, crashes>>
        /\ handler' = [handler EXCEPT !.pc = "next", !.cur = NoKey]
    BY <1>6 DEF EndRun
  <2>2. handler' \in HandlerState /\ handler'.pc = "next" /\ handler'.todo = handler.todo
    BY <1>0, <2>1 DEF HandlerState
  <2>3. DueWorkInv'
    BY <1>0, <2>1, <2>2, RecordInv
  <2> QED
    BY <2>2, <2>3 DEF AlarmCoversWork, NothingPendingNoAlarm
<1>7. CASE Rearm
  <2>1. PICK t \in WhenDue : IsEarliest(t, due) /\ alarm' = t
    BY <1>7 DEF Rearm
  <2>2. handler' = Idle /\ UNCHANGED <<now, due, asked, crashes>>
    BY <1>7 DEF Rearm
  <2>3. DueWorkInv'
    BY <1>0, <2>1, <2>2 DEF DueWorkInv, DueWorkTypeOK, ListStillStored, Idle, HandlerState,
       NothingAskedIsLost, Times
  <2>4. AlarmCoversWork' /\ NothingPendingNoAlarm'
    BY <2>1, <2>2 DEF AlarmCoversWork, NothingPendingNoAlarm, IsEarliest
  <2> QED
    BY <2>2, <2>3, <2>4 DEF Idle
<1>8. CASE Crash
  <2>1. /\ alarm' = Earlier(alarm, now) /\ handler' = Idle /\ crashes' = crashes + 1
        /\ crashes < MaxCrashes /\ UNCHANGED <<now, due, asked>>
    BY <1>8 DEF Crash
  <2>2. alarm' \in WhenDue /\ alarm' <= now
    BY <1>0, <2>1 DEF Earlier, WhenDue, Times, Never
  <2>3. crashes' \in 0..MaxCrashes /\ crashes' # 0
    BY <2>1 DEF DueWorkInv, DueWorkTypeOK
  <2>4. DueWorkInv'
    BY <1>0, <2>1, <2>2, <2>3 DEF DueWorkInv, DueWorkTypeOK, ListStillStored, Idle, HandlerState,
       NothingAskedIsLost, Times
  <2> QED
    BY <2>1, <2>2, <2>3, <2>4 DEF Idle, AlarmCoversWork, NothingPendingNoAlarm
<1> QED
  BY <1>1, <1>2, <1>3, <1>4, <1>5, <1>6, <1>7, <1>8, RunEnds DEF DueWorkNext, DueWorkInv

\* The object keeps its invariant.
LEMMA ObjectInvariant == DueWorkSpec => []ObjectInv
BY ObjectInvInit, ObjectInvStep, PTL DEF DueWorkSpec

\* The object's state keeps its types, and the list an alarm works through
\* stays true to the store.
THEOREM ListStaysTrue == DueWorkSpec => []DueWorkInv
<1>1. ObjectInv => DueWorkInv
  BY DEF ObjectInv
<1> QED
  BY <1>1, ObjectInvariant, PTL

\* Whatever is scheduled during an alarm or lost with it, the alarm is set
\* for the earliest stored work, and an object with none stored has no alarm.
THEOREM AlarmAlwaysMatches == DueWorkSpec => []AlarmMatchesWork
<1>1. ObjectInv => AlarmMatchesWork
  BY DEF ObjectInv, AlarmMatchesWork
<1> QED
  BY <1>1, ObjectInvariant, PTL

\* The scheduler object implements the abstract one: work is started only when
\* it is due, by the time the store holds when the list says so, and leaves the
\* store, or moves to a later time, in no other way.
THEOREM ObjectImplementsContract == DueWorkSpec => ImplementsContract
<1>1. DueWorkInit => Contract!Init
  BY DEF DueWorkInit, Contract!Init
<1>2. DueWorkInv /\ [DueWorkNext]_dueWorkVars => [Contract!Next]_<<now, due>>
  <2> SUFFICES ASSUME DueWorkInv, [DueWorkNext]_dueWorkVars
               PROVE  [Contract!Next]_<<now, due>>
    OBVIOUS
  <2>0. now \in Times /\ due \in [Keys -> WhenDue]
    BY DEF DueWorkInv, DueWorkTypeOK
  <2>1. ASSUME NEW want \in [Keys -> WhenDue], Record(want), now' = now
        PROVE  Contract!Ask
    <3>1. /\ due' = EarlierOf(due, want) /\ due' \in [Keys -> WhenDue]
          /\ \A k \in Keys : due'[k] <= due[k]
      BY <2>0, <2>1, EarlierTimes DEF Record
    <3>2. due' \in [Keys -> Nat]
      BY <3>1, DueWorkAssumption DEF WhenDue, Times, Never
    <3> QED
      BY <2>1, <3>1, <3>2 DEF Contract!Ask
  <2>2. CASE UNCHANGED <<now, due>>
    BY <2>2
  <2>3. CASE Tick
    BY <2>3 DEF Tick, Contract!Next, Contract!Pass
  <2>4. ASSUME NEW want \in [Keys -> WhenDue], Schedule(want)
        PROVE  Contract!Ask
    BY <2>1, <2>4 DEF Schedule
  <2>5. ASSUME NEW k \in Keys, NEW t \in Times, BeginRun(k, t)
        PROVE  Contract!Start(k)
    <3>1. due[k] <= t /\ t <= now
      BY <2>5 DEF BeginRun, DueWorkInv, ListStillStored
    <3>2. due[k] <= now
      BY <2>0, <3>1, DueWorkAssumption DEF WhenDue, Times, Never
    <3> QED
      BY <2>5, <3>2 DEF BeginRun, Contract!Start
  <2>6. ASSUME NEW report \in [Keys -> WhenDue], EndRun(report)
        PROVE  Contract!Ask
    BY <2>1, <2>6 DEF EndRun
  <2>7. CASE \E batch \in SUBSET Keys : AlarmFires(batch)
    BY <2>2, <2>7 DEF AlarmFires
  <2>8. CASE Rearm \/ Crash
    BY <2>2, <2>8 DEF Rearm, Crash
  <2>9. CASE UNCHANGED dueWorkVars
    BY <2>2, <2>9 DEF dueWorkVars
  <2> QED
    BY <2>3, <2>4, <2>5, <2>6, <2>7, <2>8, <2>9, RunEnds
    DEF DueWorkNext, Contract!Next, DueWorkInv
<1> QED
  BY <1>1, <1>2, ListStaysTrue, PTL DEF DueWorkSpec, ImplementsContract, Contract!Spec, Contract!contractVars
=============================================================================
