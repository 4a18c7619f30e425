------------------------- MODULE JobRuntimesProofs -------------------------
(***************************************************************************)
(* Proofs about the job runtimes for every set of isolates, drains,        *)
(* operators and events, every cache time and every number of changes.     *)
(***************************************************************************)
EXTENDS JobRuntimes, TLAPS

\* What an operator reviewed is a past configuration, or the one in force.
ReviewsInv ==
    \A o \in Operators :
        /\ reviewed[o].version <= config.version
        /\ reviewed[o].version = config.version => reviewed[o] = config

\* A drain that sends or settles has an entry, which it sent if it says so.
EntriesInv ==
    \A d \in Drains :
        /\ drain[d].pc \in {"send", "succeed", "fail"} => drain[d].cur \in Sends
        /\ drain[d].pc = "succeed" => Handed(EventOf(drain[d].cur))

\* The control part: the override, its readers and its operators.
ControlType ==
    /\ config \in Config
    /\ past \in [1..CacheTime -> 0..MaxChanges]
    /\ reviewed \in [Operators -> Config \cup {Unread}]
    /\ cache \in [Isolates -> [set : BOOLEAN, value : Config, age : 0..CacheTime]]
DrainsType == drain \in [Drains -> DrainState]
WorkType ==
    /\ messages \subseteq Sends
    /\ deadLetters \subseteq Events
    /\ runs \in [Keys -> {"none", "going", "ended"}]
    /\ completed \subseteq Events

RecentInv == PastInv /\ CachesAreRecent /\ ReadsAreRecent /\ TargetsAreRecent

IInv == /\ OutboxTypeOK /\ AttemptsCapped
        /\ ControlType /\ DrainsType /\ WorkType
        /\ RecentInv /\ ReviewsInv
        /\ EntriesInv /\ HandedOver

-----------------------------------------------------------------------------
(* The outbox's rows *)

LEMMA OutboxStep ==
    ASSUME OutboxTypeOK, AttemptsCapped, [OutboxNext]_outboxVars
    PROVE  OutboxTypeOK' /\ AttemptsCapped'
<1> USE OutboxAssumption DEF OutboxTypeOK, AttemptsCapped, Row, Statuses, InStatus
<1>1. CASE UNCHANGED outboxVars
  BY <1>1 DEF outboxVars
<1>2. ASSUME NEW batch \in SUBSET Events, LeaseRows(batch)
      PROVE  OutboxTypeOK' /\ AttemptsCapped'
  BY <1>2 DEF LeaseRows, Leasable
<1>3. ASSUME NEW e \in Events, Append(e)
      PROVE  OutboxTypeOK' /\ AttemptsCapped'
  BY <1>3 DEF Append
<1>4. ASSUME NEW e \in Events, LeaseRunsOut(e)
      PROVE  OutboxTypeOK' /\ AttemptsCapped'
  BY <1>4 DEF LeaseRunsOut
<1>5. ASSUME NEW e \in Events, Redrive(e)
      PROVE  OutboxTypeOK' /\ AttemptsCapped'
  BY <1>5 DEF Redrive
<1>6. ASSUME NEW e \in Events, Prune(e)
      PROVE  OutboxTypeOK' /\ AttemptsCapped'
  BY <1>6 DEF Prune
<1>7. ASSUME NEW e \in Events, Succeed(e)
      PROVE  OutboxTypeOK' /\ AttemptsCapped'
  BY <1>7 DEF Succeed, MaySucceed
<1>8. ASSUME NEW e \in Events, Fail(e)
      PROVE  OutboxTypeOK' /\ AttemptsCapped'
  BY <1>8 DEF Fail, MayFail
<1>9. ASSUME NEW e \in Events, SettleDead(e)
      PROVE  OutboxTypeOK' /\ AttemptsCapped'
  BY <1>9 DEF SettleDead
<1>10. ASSUME NEW e \in Events, SettleAgain(e)
      PROVE  OutboxTypeOK' /\ AttemptsCapped'
  BY <1>10 DEF SettleAgain
<1>11. ASSUME NEW e \in Events, Reject(e)
      PROVE  OutboxTypeOK' /\ AttemptsCapped'
  BY <1>11 DEF Reject
<1> QED
  BY <1>1, <1>2, <1>3, <1>4, <1>5, <1>6, <1>7, <1>8, <1>9, <1>10, <1>11 DEF OutboxNext

\* A statement takes a dead row out of that state only by a redrive.
LEMMA OutboxStepDead ==
    ASSUME OutboxTypeOK, [OutboxNext]_outboxVars, NEW e \in Events,
           row[e].status = "dead", row'[e].status # "dead"
    PROVE  redrives'[e] = redrives[e] + 1
<1> USE DEF OutboxTypeOK, Row, Statuses, InStatus
<1>1. CASE UNCHANGED outboxVars
  BY <1>1 DEF outboxVars
<1>2. ASSUME NEW batch \in SUBSET Events, LeaseRows(batch)
      PROVE  FALSE
  BY <1>2 DEF LeaseRows, Leasable
<1>3. ASSUME NEW f \in Events,
             \/ Append(f) \/ LeaseRunsOut(f) \/ Succeed(f) \/ Fail(f)
             \/ SettleDead(f) \/ SettleAgain(f) \/ Reject(f) \/ Prune(f)
      PROVE  FALSE
  BY <1>3 DEF Append, LeaseRunsOut, Succeed, MaySucceed, Fail, MayFail,
              SettleDead, SettleAgain, Reject, Prune
<1>4. ASSUME NEW f \in Events, Redrive(f)
      PROVE  redrives'[e] = redrives[e] + 1
  BY <1>4 DEF Redrive
<1> QED
  BY <1>1, <1>2, <1>3, <1>4 DEF OutboxNext

\* A step is a statement against the outbox, or leaves the rows alone.
LEMMA StepsOutbox ==
    ASSUME DrainsType, EntriesInv, [Next]_vars
    PROVE  [OutboxNext]_outboxVars
<1> USE DEF controls, work
<1>1. CASE UNCHANGED vars
  BY <1>1 DEF vars, outboxVars
<1>2. CASE Tick
  BY <1>2 DEF Tick, outboxVars
<1>3. ASSUME NEW o \in Operators, OperatorStep(o)
      PROVE  UNCHANGED outboxVars
  BY <1>3 DEF OperatorStep, Review, ClearOverride, SetOverride, SetPaused, Change
<1>4. ASSUME NEW e \in Events, EventStep(e)
      PROVE  [OutboxNext]_outboxVars
  BY <1>4 DEF EventStep, Commit, LeaseTimeout, OperatorSettle, OutboxNext
<1>5. ASSUME NEW d \in Drains, DrainStep(d)
      PROVE  [OutboxNext]_outboxVars
  <2>1. ASSUME NEW e \in Events, SweepSettles(d, e)
        PROVE  [OutboxNext]_outboxVars
    BY <2>1 DEF SweepSettles, OutboxNext
  <2>2. ASSUME NEW e \in Events, Lease(d, e)
        PROVE  [OutboxNext]_outboxVars
    BY <2>2 DEF Lease, OutboxNext
  <2>3. CASE MarkSucceeded(d) \/ MarkFailed(d)
    <3>1. EventOf(drain[d].cur) \in Events
      BY <2>3 DEF MarkSucceeded, MarkFailed, EntriesInv, Sends, EventOf
    <3> QED
      BY <2>3, <3>1 DEF MarkSucceeded, MarkFailed, OutboxNext
  <2>4. CASE Send(d)
    BY <2>4 DEF Send
  <2>5. CASE \/ \E i \in Isolates : Begin(d, i)
             \/ Read(d) \/ ReadReturns(d) \/ ReadFails(d)
             \/ \E pc \in {"settle", "lease"} : Start(d, pc)
             \/ EndPaused(d) \/ End(d)
    BY <2>5 DEF Begin, Read, ReadReturns, ReadFails, Start, EndPaused, End
  <2> QED
    BY <1>5, <2>1, <2>2, <2>3, <2>4, <2>5 DEF DrainStep
<1>6. ASSUME NEW i \in Isolates, Evict(i)
      PROVE  UNCHANGED outboxVars
  BY <1>6 DEF Evict
<1>7. ASSUME NEW m \in Sends, Deliver(m) \/ DeadLetter(m)
      PROVE  UNCHANGED outboxVars
  BY <1>7 DEF Deliver, DeadLetter
<1>8. ASSUME NEW k \in Keys, RunStep(k)
      PROVE  [OutboxNext]_outboxVars
  <2>1. EventOf(k) \in Events
    BY DEF Keys, Sends, Instance, EventOf
  <2> QED
    BY <1>8, <2>1 DEF RunStep, RunCompletes, RunRejects, RunEnds, OutboxNext
<1> QED
  BY <1>1, <1>2, <1>3, <1>4, <1>5, <1>6, <1>7, <1>8 DEF Next

LEMMA UnreadVersion == Unread.version = -1
BY DEF Unread, NoOverride

-----------------------------------------------------------------------------
(* The override: who may change it, and how old what its readers hold is. *)

\* What a drain's record must satisfy, and what makes it satisfy it at no cost.
Calm(s) == s.floor = 0 /\ s.pc \notin {"read", "decided"}
ReadOK(s) ==
    /\ s.floor <= config.version
    /\ s.pc = "read" =>
         /\ s.read.version \in s.floor..config.version
         /\ s.age < CacheTime => s.read.version >= past[s.age + 1]
    /\ s.pc = "decided" /\ s.read # Unread => s.read.version >= s.floor

LEMMA ReadsOK ==
    ReadsAreRecent /\ TargetsAreRecent <=> \A d \in Drains : ReadOK(drain[d])
BY DEF ReadsAreRecent, TargetsAreRecent, ReadOK

LEMMA IdleCalm ==
    ASSUME ControlType, NEW i \in Isolates
    PROVE  Idle(i) \in DrainState /\ Calm(Idle(i))
BY RuntimesAssumption DEF Idle, DrainState, Calm, ControlType

\* A step that gives one drain an allowed record, and leaves the override and
\* the caches alone, keeps the control invariants.
LEMMA OneDrain ==
    ASSUME ControlType, DrainsType, RecentInv, ReviewsInv,
           NEW d \in Drains, NEW s \in DrainState, ReadOK(s) \/ Calm(s),
           UNCHANGED controls, drain' = [drain EXCEPT ![d] = s]
    PROVE  ControlType' /\ DrainsType' /\ RecentInv' /\ ReviewsInv'
<1> USE DEF controls
<1>1. ControlType' /\ ReviewsInv'
  BY DEF ControlType, ReviewsInv
<1>2. DrainsType'
  BY DEF DrainsType
<1>3. PastInv' /\ CachesAreRecent'
  BY DEF RecentInv, PastInv, CachesAreRecent, Fresh
<1>4. config.version \in Nat
  BY RuntimesAssumption DEF ControlType, Config
<1>5. ReadOK(s)
  BY <1>4 DEF Calm, ReadOK
<1>6. \A f \in Drains : drain'[f] = drain[f] \/ drain'[f] = s
  BY DEF DrainsType
<1>7. \A f \in Drains : ReadOK(drain[f])
  BY ReadsOK DEF RecentInv
<1>8. \A f \in Drains : ReadOK(drain[f])'
  BY <1>5, <1>6, <1>7 DEF ReadOK
<1>9. (ReadsAreRecent /\ TargetsAreRecent)'
  BY <1>8 DEF ReadsAreRecent, TargetsAreRecent, ReadOK
<1> QED
  BY <1>1, <1>2, <1>3, <1>9 DEF RecentInv

\* Time makes every age and every version one tick older.
LEMMA TickControl ==
    ASSUME ControlType, DrainsType, RecentInv, ReviewsInv, Tick
    PROVE  ControlType' /\ DrainsType' /\ RecentInv' /\ ReviewsInv'
<1> USE RuntimesAssumption DEF Tick
<1>1. /\ config' = config /\ config.version \in 0..MaxChanges /\ config \in Config
      /\ past \in [1..CacheTime -> 0..MaxChanges]
      /\ \A n \in 1..CacheTime : past'[n] = IF n = 1 THEN config.version ELSE past[n - 1]
  BY DEF ControlType, Config
<1>2. past' \in [1..CacheTime -> 0..MaxChanges]
  BY <1>1
<1>3. ControlType'
  BY <1>1, <1>2 DEF ControlType, Older
<1>4. ReviewsInv'
  BY DEF ReviewsInv
<1>5. DrainsType'
  <2>1. ASSUME NEW d \in Drains
        PROVE  drain'[d] \in DrainState
    <3>1. drain[d] \in DrainState /\ Older(drain[d].age) \in 0..CacheTime
      BY DEF DrainsType, DrainState, Older
    <3>2. drain'[d] \in {drain[d], [drain[d] EXCEPT !.age = Older(drain[d].age)]}
      OBVIOUS
    <3> QED
      BY <3>1, <3>2 DEF DrainState
  <2> QED
    BY <2>1 DEF DrainsType
<1>6. PastInv'
  BY <1>1 DEF RecentInv, PastInv
<1>7. ASSUME NEW i \in Isolates, Fresh(i)'
      PROVE  cache'[i].value.version >= past'[cache'[i].age + 1]
  <2>1. /\ cache[i].set /\ cache[i].age \in Nat /\ cache[i].age + 1 < CacheTime
        /\ cache'[i].age = cache[i].age + 1 /\ cache'[i].value = cache[i].value
    BY <1>7 DEF ControlType, Fresh, Older
  <2>2. cache[i].value.version >= past[cache[i].age + 1]
    BY <2>1 DEF RecentInv, CachesAreRecent, Fresh
  <2>3. past'[cache[i].age + 2] = past[cache[i].age + 1]
    BY <1>1, <2>1
  <2> QED
    BY <2>1, <2>2, <2>3
<1>8. ASSUME NEW d \in Drains
      PROVE  ReadOK(drain[d])'
  <2>1. ReadOK(drain[d])
    BY ReadsOK DEF RecentInv
  <2>2. CASE drain[d].pc \notin {"reading", "read"}
    BY <1>1, <2>1, <2>2 DEF ReadOK
  <2>3. CASE drain[d].pc = "reading"
    BY <1>1, <2>1, <2>3 DEF ReadOK, DrainsType, DrainState
  <2>4. CASE drain[d].pc = "read"
    <3>1. /\ drain[d] \in DrainState /\ drain[d].age \in Nat
          /\ drain'[d] = [drain[d] EXCEPT !.age = Older(@)]
      BY <2>4 DEF DrainsType, DrainState
    <3>2. /\ drain'[d].pc = "read" /\ drain'[d].floor = drain[d].floor
          /\ drain'[d].read = drain[d].read /\ drain'[d].age = Older(drain[d].age)
      BY <2>4, <3>1 DEF DrainState
    <3>3. ASSUME Older(drain[d].age) < CacheTime
          PROVE  drain[d].read.version >= past'[Older(drain[d].age) + 1]
      <4>1. /\ Older(drain[d].age) = drain[d].age + 1 /\ drain[d].age + 2 \in 2..CacheTime
        BY <3>1, <3>3 DEF Older
      <4>2. past'[drain[d].age + 2] = past[drain[d].age + 1]
        BY <1>1, <4>1, <3>1
      <4> QED
        BY <2>1, <2>4, <3>1, <4>1, <4>2 DEF ReadOK
    <3> QED
      BY <1>1, <2>1, <2>4, <3>2, <3>3 DEF ReadOK
  <2> QED
    BY <2>2, <2>3, <2>4
<1>9. CachesAreRecent'
  BY <1>7 DEF CachesAreRecent
<1>10. (ReadsAreRecent /\ TargetsAreRecent)'
  BY <1>8 DEF ReadsAreRecent, TargetsAreRecent, ReadOK
<1> QED
  BY <1>3, <1>4, <1>5, <1>6, <1>9, <1>10 DEF RecentInv

\* The next version of a configuration.
Settings == [runtime : Runtimes \cup {None}, settings : {None, "running", "paused"}, version : Int]
LEMMA NextVersionType ==
    ASSUME NEW c \in Config
    PROVE  NextVersion(c) \in Settings /\ NextVersion(c).version = c.version + 1
<1>1. c.version \in Int /\ c.runtime \in Runtimes \cup {None}
      /\ c.settings \in {None, "running", "paused"}
  BY RuntimesAssumption DEF Config
<1>2. NextVersion(c) = [runtime |-> c.runtime, settings |-> c.settings, version |-> c.version + 1]
  BY DEF NextVersion, Config
<1> QED
  BY <1>1, <1>2 DEF Settings

\* A change is the next version; it leaves every older reading as recent as it was.
LEMMA ChangeControl ==
    ASSUME ControlType, DrainsType, RecentInv, ReviewsInv,
           NEW o \in Operators, NEW c \in Settings,
           c.version = config.version + 1, Change(o, c)
    PROVE  ControlType' /\ DrainsType' /\ RecentInv' /\ ReviewsInv'
<1> USE RuntimesAssumption DEF Change
<1>1. config.version \in 0..MaxChanges /\ c.version \in 0..MaxChanges /\ config' = c
  BY DEF ControlType, Config
<1>2. c \in Config
  BY <1>1 DEF Config, Settings
<1>3. ControlType'
  BY <1>1, <1>2 DEF ControlType
<1>4. DrainsType'
  BY DEF DrainsType
<1>5. ReviewsInv'
  <2> SUFFICES ASSUME NEW p \in Operators
               PROVE  reviewed'[p].version < config'.version
    BY <1>1 DEF ReviewsInv, ControlType, Config, Unread, NoOverride
  <2>1. CASE p = o
    BY <1>1, <2>1 DEF ControlType, Unread, NoOverride
  <2>2. CASE p # o
    BY <1>1, <2>2 DEF ControlType, ReviewsInv, Config, Unread, NoOverride
  <2> QED
    BY <2>1, <2>2
<1>6. PastInv'
  BY <1>1 DEF RecentInv, PastInv, ControlType
<1>7. CachesAreRecent'
  BY DEF RecentInv, CachesAreRecent, Fresh
<1>8. ASSUME NEW d \in Drains
      PROVE  ReadOK(drain[d])'
  <2>1. ReadOK(drain[d]) /\ drain[d] \in DrainState
    BY ReadsOK DEF RecentInv, DrainsType
  <2> QED
    BY <1>1, <2>1 DEF ReadOK, DrainState, Config
<1>9. (ReadsAreRecent /\ TargetsAreRecent)'
  BY <1>8 DEF ReadsAreRecent, TargetsAreRecent, ReadOK
<1> QED
  BY <1>3, <1>4, <1>5, <1>6, <1>7, <1>9 DEF RecentInv

LEMMA OperatorControl ==
    ASSUME ControlType, DrainsType, RecentInv, ReviewsInv,
           NEW o \in Operators, OperatorStep(o)
    PROVE  ControlType' /\ DrainsType' /\ RecentInv' /\ ReviewsInv'
<1> DEFINE Good == ControlType' /\ DrainsType' /\ RecentInv' /\ ReviewsInv'
<1>1. config \in Config /\ config.version \in Nat
  BY RuntimesAssumption DEF ControlType, Config
<1>2. CASE Review(o)
  <2> USE <1>2 DEF Review
  <2>1. ControlType' /\ DrainsType'
    BY DEF ControlType, DrainsType
  <2>2. ReviewsInv'
    BY <1>1 DEF ReviewsInv, ControlType
  <2>3. RecentInv'
    BY DEF RecentInv, PastInv, CachesAreRecent, ReadsAreRecent, TargetsAreRecent, Fresh
  <2> QED
    BY <2>1, <2>2, <2>3
<1>3. CASE ClearOverride(o)
  <2> DEFINE c == [NextVersion(config) EXCEPT !.runtime = None, !.settings = None]
  <2>1. c \in Settings /\ c.version = config.version + 1
    BY <1>1, NextVersionType DEF Settings
  <2>2. Change(o, c)
    BY <1>3 DEF ClearOverride
  <2> QED
    BY <2>1, <2>2, ChangeControl
<1>4. ASSUME NEW r \in Runtimes, SetOverride(o, r)
      PROVE  Good
  <2> DEFINE c == [NextVersion(config) EXCEPT !.runtime = r]
  <2>1. c \in Settings /\ c.version = config.version + 1
    BY <1>1, NextVersionType DEF Settings
  <2>2. Change(o, c)
    BY <1>4 DEF SetOverride
  <2> QED
    BY <2>1, <2>2, ChangeControl
<1>5. ASSUME NEW x \in {"running", "paused"}, SetPaused(o, x)
      PROVE  Good
  <2> DEFINE c == [NextVersion(config) EXCEPT !.settings = x]
  <2>1. c \in Settings /\ c.version = config.version + 1
    BY <1>1, NextVersionType DEF Settings
  <2>2. Change(o, c)
    BY <1>5 DEF SetPaused
  <2> QED
    BY <2>1, <2>2, ChangeControl
<1> QED
  BY <1>2, <1>3, <1>4, <1>5 DEF OperatorStep

Decided(s, c) == [s EXCEPT !.pc = "decided", !.age = 0, !.read = c]
LEMMA DecidedRecord ==
    ASSUME NEW s \in DrainState, NEW c \in Config \cup {Unread}
    PROVE  /\ Decided(s, c) \in DrainState
           /\ Decided(s, c).pc = "decided"
           /\ Decided(s, c).floor = s.floor
           /\ Decided(s, c).read = c
<1>1. 0 \in 0..CacheTime
  BY RuntimesAssumption
<1> QED
  BY <1>1 DEF DrainState, Decided

\* What begin, read and the two ends of a read leave in a drain's record.
LEMMA LookupControl ==
    ASSUME ControlType, DrainsType, RecentInv, ReviewsInv, NEW d \in Drains,
           \/ \E i \in Isolates : Begin(d, i)
           \/ Read(d) \/ ReadReturns(d) \/ ReadFails(d)
    PROVE  ControlType' /\ DrainsType' /\ RecentInv' /\ ReviewsInv'
<1> DEFINE Good == ControlType' /\ DrainsType' /\ RecentInv' /\ ReviewsInv'
<1> USE RuntimesAssumption
<1>1. /\ drain[d] \in DrainState /\ ReadOK(drain[d])
      /\ config \in Config /\ config.version \in 0..MaxChanges /\ NoOverride \in Config
      /\ past[CacheTime] \in 0..MaxChanges /\ past[CacheTime] <= config.version
  BY ReadsOK DEF DrainsType, ControlType, RecentInv, PastInv, Config, NoOverride, Runtimes
<1>2. ASSUME NEW i \in Isolates, Begin(d, i)
      PROVE  Good
  <2>1. CASE Fresh(i)
    <3> DEFINE s == [Idle(i) EXCEPT !.pc = "decided", !.floor = past[CacheTime],
                                    !.read = cache[i].value]
    <3>1. cache[i].value \in Config /\ cache[i].age \in Nat /\ cache[i].age < CacheTime
      BY <2>1 DEF ControlType, Fresh
    <3>2. cache[i].value.version >= past[cache[i].age + 1]
      BY <2>1 DEF RecentInv, CachesAreRecent
    <3>3. past[CacheTime] <= past[cache[i].age + 1] /\ past[cache[i].age + 1] \in Nat
      BY <3>1 DEF RecentInv, PastInv, ControlType
    <3>4. cache[i].value.version \in Nat
      BY <3>1 DEF Config
    <3>5. s.pc = "decided" /\ s.floor = past[CacheTime] /\ s.read = cache[i].value
      BY DEF Idle
    <3>6. s \in DrainState
      BY <1>1, <3>1, IdleCalm DEF Idle, DrainState
    <3>7. ReadOK(s)
      BY <1>1, <3>2, <3>3, <3>4, <3>5 DEF ReadOK
    <3>8. drain' = [drain EXCEPT ![d] = s] /\ UNCHANGED controls
      BY <1>2, <2>1 DEF Begin
    <3> QED
      BY <3>6, <3>7, <3>8, OneDrain
  <2>2. CASE ~Fresh(i)
    <3> DEFINE s == [Idle(i) EXCEPT !.pc = "reading", !.floor = past[CacheTime]]
    <3>1. s.pc = "reading" /\ s.floor = past[CacheTime]
      BY DEF Idle
    <3>2. s \in DrainState
      BY <1>1, IdleCalm DEF Idle, DrainState
    <3>3. ReadOK(s)
      BY <1>1, <3>1 DEF ReadOK
    <3>4. drain' = [drain EXCEPT ![d] = s] /\ UNCHANGED controls
      BY <1>2, <2>2 DEF Begin
    <3> QED
      BY <3>2, <3>3, <3>4, OneDrain
  <2> QED
    BY <2>1, <2>2
<1>3. CASE Read(d)
  <2> DEFINE s == [drain[d] EXCEPT !.pc = "read", !.read = config]
  <2>1. /\ s \in DrainState /\ s.pc = "read" /\ s.read = config
        /\ s.floor = drain[d].floor /\ s.age = drain[d].age
    BY <1>1 DEF DrainState
  <2>2. ASSUME s.age < CacheTime
        PROVE  config.version >= past[s.age + 1]
    BY <2>1, <2>2, <1>1 DEF DrainState, RecentInv, PastInv, ControlType
  <2>3. ReadOK(s)
    BY <1>1, <2>1, <2>2 DEF ReadOK, DrainState
  <2>4. drain' = [drain EXCEPT ![d] = s] /\ UNCHANGED controls
    BY <1>3 DEF Read
  <2> QED
    BY <2>1, <2>3, <2>4, OneDrain
<1>4. CASE ReadFails(d)
  <2> DEFINE s == Decided(drain[d], Unread)
  <2>1. /\ s \in DrainState /\ s.pc = "decided"
        /\ s.floor = drain[d].floor /\ s.read = Unread
    BY <1>1, DecidedRecord
  <2>2. drain' = [drain EXCEPT ![d] = s] /\ UNCHANGED controls
    BY <1>4 DEF ReadFails, Decided
  <2>3. ReadOK(s)
    BY <1>1, <1>4, <2>1 DEF ReadOK, ReadFails
  <2> QED
    BY <2>1, <2>2, <2>3, OneDrain
<1>5. CASE ReadReturns(d)
  <2> DEFINE s == Decided(drain[d], drain[d].read)
             v == [set |-> TRUE, value |-> drain[d].read, age |-> drain[d].age]
  <2>0. drain[d].read \in Config
    BY <1>1, <1>5 DEF ReadReturns, ReadOK, DrainState, Unread, NoOverride
  <2>1. /\ s \in DrainState /\ s.pc = "decided" /\ s.read = drain[d].read
        /\ s.floor = drain[d].floor
    BY <1>1, <2>0, DecidedRecord
  <2>2. /\ drain[d].pc = "read" /\ drain' = [drain EXCEPT ![d] = s]
        /\ cache' = [cache EXCEPT ![drain[d].at] = v]
        /\ UNCHANGED <<config, past, reviewed>>
    <3>1. [drain[d] EXCEPT !.pc = "decided", !.age = 0] = s
      BY <1>1 DEF Decided, DrainState
    <3> QED
      BY <1>5, <3>1 DEF ReadReturns, DrainsType
  <2>3. ControlType' /\ ReviewsInv'
    <3>1. v \in [set : BOOLEAN, value : Config, age : 0..CacheTime]
      BY <1>1, <2>0 DEF DrainState
    <3> QED
      BY <2>2, <3>1 DEF ControlType, ReviewsInv
  <2>4. DrainsType'
    BY <2>1, <2>2 DEF DrainsType
  <2>5. PastInv'
    BY <2>2 DEF RecentInv, PastInv
  <2>6. ASSUME NEW i \in Isolates, Fresh(i)'
        PROVE  cache'[i].value.version >= past'[cache'[i].age + 1]
    <3>1. CASE i = drain[d].at
      <4>1. cache'[i] = v
        BY <2>2, <3>1 DEF ControlType
      <4> QED
        BY <1>1, <2>2, <2>6, <4>1 DEF ReadOK, Fresh
    <3>2. CASE i # drain[d].at
      <4>1. cache'[i] = cache[i]
        BY <2>2, <3>2 DEF ControlType
      <4> QED
        BY <2>2, <2>6, <4>1 DEF RecentInv, CachesAreRecent, Fresh
    <3> QED
      BY <3>1, <3>2
  <2>7. CachesAreRecent'
    BY <2>6 DEF CachesAreRecent
  <2>8. ASSUME NEW f \in Drains
        PROVE  ReadOK(drain[f])'
    <3>1. CASE f = d
      BY <1>1, <2>1, <2>2, <3>1 DEF DrainsType, ReadOK, DrainState, Config
    <3>2. CASE f # d
      <4>1. ReadOK(drain[f]) /\ drain'[f] = drain[f]
        BY <2>2, <3>2, ReadsOK DEF RecentInv, DrainsType
      <4> QED
        BY <2>2, <4>1 DEF ReadOK
    <3> QED
      BY <3>1, <3>2
  <2>9. (ReadsAreRecent /\ TargetsAreRecent)'
    BY <2>8 DEF ReadsAreRecent, TargetsAreRecent, ReadOK
  <2> QED
    BY <2>3, <2>4, <2>5, <2>7, <2>9 DEF RecentInv
<1> QED
  BY <1>2, <1>3, <1>4, <1>5

\* Every other step of a drain leaves it a calm record.
WorkStep(d) ==
    \/ \E pc \in {"settle", "lease"} : Start(d, pc)
    \/ EndPaused(d) \/ End(d)
    \/ \E e \in Events : SweepSettles(d, e) \/ Lease(d, e)
    \/ Send(d) \/ MarkSucceeded(d) \/ MarkFailed(d)

LEMMA WorkRecord ==
    ASSUME ControlType, DrainsType, RecentInv, OutboxTypeOK, AttemptsCapped,
           NEW d \in Drains, WorkStep(d)
    PROVE  /\ UNCHANGED controls
           /\ \E s \in DrainState :
                drain' = [drain EXCEPT ![d] = s] /\ (ReadOK(s) \/ Calm(s))
<1> USE DEF controls
<1>1. /\ drain[d] \in DrainState /\ drain[d].at \in Isolates
      /\ Idle(drain[d].at) \in DrainState /\ Calm(Idle(drain[d].at))
  BY IdleCalm DEF DrainsType, DrainState
<1> DEFINE Record == \E s \in DrainState :
                        drain' = [drain EXCEPT ![d] = s] /\ (ReadOK(s) \/ Calm(s))
<1>2. ReadOK(drain[d])
  BY ReadsOK DEF RecentInv
<1>3. ASSUME NEW pc \in {"settle", "lease"}, NEW to \in Runtimes \cup {None}
      PROVE  /\ [Idle(drain[d].at) EXCEPT !.pc = pc, !.to = to] \in DrainState
             /\ Calm([Idle(drain[d].at) EXCEPT !.pc = pc, !.to = to])
  BY <1>1 DEF Idle, DrainState, Calm
<1>4. ASSUME NEW pc \in {"send", "succeed", "fail"}, NEW c \in Sends \cup {NoSend},
             drain[d].pc \notin {"read", "decided"}
      PROVE  /\ [drain[d] EXCEPT !.pc = pc, !.cur = c] \in DrainState
             /\ ReadOK([drain[d] EXCEPT !.pc = pc, !.cur = c])
             /\ [drain[d] EXCEPT !.pc = pc] \in DrainState
             /\ ReadOK([drain[d] EXCEPT !.pc = pc])
  BY <1>1, <1>2, <1>4 DEF DrainState, ReadOK
<1>5. ASSUME NEW pc \in {"settle", "lease"}, Start(d, pc)
      PROVE  Record
  <2>1. Target(drain[d].read) \in Runtimes \cup {None}
    BY <1>1, RuntimesAssumption DEF Target, DrainState, Config, Unread, NoOverride
  <2> QED
    BY <1>3, <1>5, <2>1 DEF Start
<1>6. CASE EndPaused(d) \/ End(d)
  BY <1>1, <1>6 DEF EndPaused, End, Stop
<1>7. drain[d].to \in Runtimes \cup {None}
  BY <1>1 DEF DrainState
<1>8. ASSUME NEW e \in Events, SweepSettles(d, e)
      PROVE  Record
  BY <1>3, <1>7, <1>8 DEF SweepSettles, GoTo
<1>9. ASSUME NEW e \in Events, Lease(d, e)
      PROVE  Record
  <2>1. row[e].status \in {"pending", "leased"}
    BY <1>9 DEF Lease, LeaseRows, Leasable, InStatus
  <2>2. <<e, row[e].attempts>> \in Sends
    BY <2>1, OutboxAssumption DEF OutboxTypeOK, Row, AttemptsCapped, Sends, Generations
  <2>3. drain' = [drain EXCEPT ![d] = [drain[d] EXCEPT !.pc = "send",
                                                       !.cur = <<e, row[e].attempts>>]]
    BY <1>9 DEF Lease, DrainsType
  <2> QED
    BY <1>4, <1>9, <2>2, <2>3 DEF Lease
<1>10. CASE Send(d)
  <2>1. \E pc \in {"succeed", "fail"} : drain' = [drain EXCEPT ![d].pc = pc]
    BY <1>10 DEF Send
  <2>2. PICK pc \in {"succeed", "fail"} : drain' = [drain EXCEPT ![d].pc = pc]
    BY <2>1
  <2> QED
    BY <1>4, <1>10, <2>2, NoSend \in Sends \cup {NoSend} DEF Send
<1>11. CASE MarkSucceeded(d)
  <2>1. CASE GoTo(d, "lease")
    BY <1>3, <1>7, <1>11, <2>1 DEF GoTo, MarkSucceeded
  <2>2. CASE drain' = [drain EXCEPT ![d].pc = "fail"]
    BY <1>4, <1>11, <2>2, NoSend \in Sends \cup {NoSend} DEF MarkSucceeded
  <2> QED
    BY <1>11, <2>1, <2>2 DEF MarkSucceeded
<1>12. CASE MarkFailed(d)
  <2>1. CASE GoTo(d, "lease")
    BY <1>3, <1>7, <1>12, <2>1 DEF GoTo, MarkFailed
  <2>2. CASE Stop(d)
    BY <1>1, <1>12, <2>2 DEF Stop, MarkFailed
  <2> QED
    BY <1>12, <2>1, <2>2 DEF MarkFailed
<1>13. Record
  BY <1>5, <1>6, <1>8, <1>9, <1>10, <1>11, <1>12 DEF WorkStep
<1>14. UNCHANGED controls
  BY DEF WorkStep, Start, EndPaused, End, SweepSettles, Lease, Send, MarkSucceeded, MarkFailed
<1> QED
  BY <1>13, <1>14

LEMMA WorkControl ==
    ASSUME ControlType, DrainsType, RecentInv, ReviewsInv, OutboxTypeOK, AttemptsCapped,
           NEW d \in Drains, WorkStep(d)
    PROVE  ControlType' /\ DrainsType' /\ RecentInv' /\ ReviewsInv'
BY WorkRecord, OneDrain

LEMMA EvictControl ==
    ASSUME ControlType, DrainsType, RecentInv, ReviewsInv,
           NEW i \in Isolates, Evict(i)
    PROVE  ControlType' /\ DrainsType' /\ RecentInv' /\ ReviewsInv'
<1> USE RuntimesAssumption DEF Evict
<1>1. NoCache \in [set : BOOLEAN, value : Config, age : 0..CacheTime]
  BY DEF NoCache, NoOverride, Config
<1>2. ControlType' /\ ReviewsInv'
  BY <1>1 DEF ControlType, ReviewsInv
<1>3. Idle(i) \in DrainState /\ Calm(Idle(i))
  BY IdleCalm
<1>4. \A d \in Drains : drain'[d] = drain[d] \/ drain'[d] = Idle(i)
  OBVIOUS
<1>5. DrainsType'
  BY <1>3 DEF DrainsType
<1>6. PastInv'
  BY DEF RecentInv, PastInv
<1>7. CachesAreRecent'
  BY DEF RecentInv, CachesAreRecent, Fresh, NoCache, ControlType
<1>8. config.version \in Nat
  BY DEF ControlType, Config
<1>9. \A d \in Drains : ReadOK(drain[d])
  BY ReadsOK DEF RecentInv
<1>10. \A d \in Drains : ReadOK(drain[d])'
  BY <1>3, <1>4, <1>8, <1>9 DEF ReadOK, Calm
<1>11. (ReadsAreRecent /\ TargetsAreRecent)'
  BY <1>10 DEF ReadsAreRecent, TargetsAreRecent, ReadOK
<1> QED
  BY <1>2, <1>5, <1>6, <1>7, <1>11 DEF RecentInv

\* Every step keeps the control part.
LEMMA ControlStep ==
    ASSUME IInv, [Next]_vars
    PROVE  ControlType' /\ DrainsType' /\ RecentInv' /\ ReviewsInv'
<1> USE DEF IInv
<1> DEFINE Good == ControlType' /\ DrainsType' /\ RecentInv' /\ ReviewsInv'
<1>1. ASSUME UNCHANGED <<controls, drain>>
      PROVE  Good
  BY <1>1 DEF controls, ControlType, DrainsType, RecentInv, ReviewsInv, PastInv,
              CachesAreRecent, ReadsAreRecent, TargetsAreRecent, Fresh
<1>2. CASE UNCHANGED vars
  BY <1>1, <1>2 DEF vars
<1>3. CASE Tick
  BY <1>3, TickControl
<1>4. ASSUME NEW o \in Operators, OperatorStep(o)
      PROVE  Good
  BY <1>4, OperatorControl
<1>5. ASSUME NEW e \in Events, EventStep(e)
      PROVE  UNCHANGED <<controls, drain>>
  BY <1>5 DEF EventStep, Commit, LeaseTimeout, OperatorSettle
<1>6. ASSUME NEW d \in Drains, DrainStep(d)
      PROVE  Good
  BY <1>6, LookupControl, WorkControl DEF DrainStep, WorkStep
<1>7. ASSUME NEW i \in Isolates, Evict(i)
      PROVE  Good
  BY <1>7, EvictControl
<1>8. ASSUME NEW m \in Sends, Deliver(m) \/ DeadLetter(m)
      PROVE  UNCHANGED <<controls, drain>>
  BY <1>8 DEF Deliver, DeadLetter
<1>9. ASSUME NEW k \in Keys, RunStep(k)
      PROVE  UNCHANGED <<controls, drain>>
  BY <1>9 DEF RunStep, RunCompletes, RunRejects, RunEnds
<1> QED
  BY <1>1, <1>2, <1>3, <1>4, <1>5, <1>6, <1>7, <1>8, <1>9 DEF Next

-----------------------------------------------------------------------------
(* Where the events are *)

LEMMA KeyEvents ==
    /\ \A k \in Keys : EventOf(k) \in Events
    /\ \A s \in Sends : EventOf(s) \in Events /\ s \in Keys
    /\ \A e \in Events : Instance(e) \in Keys /\ EventOf(Instance(e)) = e
BY DEF Keys, Sends, Instance, EventOf

\* Every step keeps the types of what the runtimes hold, and nothing handed
\* over is lost from them.
LEMMA WorkStays ==
    ASSUME IInv, [Next]_vars
    PROVE  WorkType' /\ \A e \in Events : Handed(e) => Handed(e)'
<1> DEFINE Good == WorkType' /\ \A e \in Events : Handed(e) => Handed(e)'
<1> USE KeyEvents DEF IInv, WorkType
<1>1. ASSUME UNCHANGED work
      PROVE  Good
  BY <1>1 DEF work, Handed
<1>2. CASE UNCHANGED vars
  BY <1>1, <1>2 DEF vars
<1>3. CASE Tick
  BY <1>1, <1>3 DEF Tick
<1>4. ASSUME NEW o \in Operators, OperatorStep(o)
      PROVE  UNCHANGED work
  BY <1>4 DEF OperatorStep, Review, ClearOverride, SetOverride, SetPaused, Change
<1>5. ASSUME NEW e \in Events, EventStep(e)
      PROVE  UNCHANGED work
  BY <1>5 DEF EventStep, Commit, LeaseTimeout, OperatorSettle
<1>6. ASSUME NEW d \in Drains, DrainStep(d)
      PROVE  Good
  <2>1. CASE Send(d)
    <3>1. drain[d].cur \in Sends
      BY <2>1 DEF Send, EntriesInv
    <3>2. UNCHANGED <<deadLetters, completed>>
      BY <2>1 DEF Send
    <3>3. CASE Accepted(drain[d].to, drain[d].cur)
      BY <3>1, <3>2, <3>3 DEF Accepted, StartRun, Handed
    <3>4. CASE UNCHANGED <<messages, runs>>
      BY <1>1, <3>2, <3>4 DEF work
    <3> QED
      BY <2>1, <3>3, <3>4 DEF Send
  <2>2. CASE ~Send(d)
    <3>1. UNCHANGED work
      BY <1>6, <2>2 DEF DrainStep, Begin, Read, ReadReturns, ReadFails, Start, EndPaused,
                        End, SweepSettles, Lease, MarkSucceeded, MarkFailed
    <3> QED
      BY <1>1, <3>1
  <2> QED
    BY <2>1, <2>2
<1>7. ASSUME NEW i \in Isolates, Evict(i)
      PROVE  UNCHANGED work
  BY <1>7 DEF Evict
<1>8. ASSUME NEW m \in Sends, Deliver(m)
      PROVE  Good
  <2> DEFINE k == Instance(EventOf(m))
  <2>1. /\ k \in Keys /\ runs' = StartRun(k) /\ messages' \in {messages, messages \ {m}}
        /\ UNCHANGED <<deadLetters, completed>>
    BY <1>8 DEF Deliver
  <2>2. WorkType'
    BY <2>1 DEF StartRun
  <2>3. runs'[k] # "none" /\ \A l \in Keys : runs[l] # "none" => runs'[l] # "none"
    BY <2>1 DEF StartRun
  <2>4. ASSUME NEW e \in Events, Handed(e)
        PROVE  Handed(e)'
    <3>1. CASE e = EventOf(m)
      BY <2>1, <2>3, <3>1 DEF Handed
    <3>2. CASE e # EventOf(m)
      BY <2>1, <2>3, <2>4, <3>2 DEF Handed
    <3> QED
      BY <3>1, <3>2
  <2> QED
    BY <2>2, <2>4
<1>9. ASSUME NEW m \in Sends, DeadLetter(m)
      PROVE  Good
  BY <1>9 DEF DeadLetter, Handed
<1>10. ASSUME NEW k \in Keys, RunStep(k)
      PROVE  Good
  <2>1. /\ runs' = [runs EXCEPT ![k] = "ended"] /\ UNCHANGED <<messages, deadLetters>>
        /\ completed' \in {completed, completed \cup {EventOf(k)}}
    BY <1>10 DEF RunStep, RunCompletes, RunRejects, RunEnds
  <2> QED
    BY <2>1 DEF Handed
<1> QED
  BY <1>1, <1>2, <1>3, <1>4, <1>5, <1>6, <1>7, <1>8, <1>9, <1>10 DEF Next

\* What a drain's next record says of its entry.
EntryOK(s) ==
    /\ s.pc \in {"send", "succeed", "fail"} => s.cur \in Sends
    /\ s.pc = "succeed" => Handed(EventOf(s.cur))

LEMMA EntriesStay ==
    ASSUME IInv, [Next]_vars
    PROVE  EntriesInv'
<1> SUFFICES ASSUME NEW d \in Drains
             PROVE  EntryOK(drain[d])'
  BY DEF EntriesInv, EntryOK
<1> USE DEF IInv
<1>1. /\ EntryOK(drain[d]) /\ drain[d] \in DrainState
      /\ drain[d].pc = "succeed" => EventOf(drain[d].cur) \in Events
  BY KeyEvents DEF EntriesInv, EntryOK, DrainsType
<1>2. ASSUME drain'[d] = drain[d]
      PROVE  EntryOK(drain[d])'
  BY <1>1, <1>2, WorkStays DEF EntryOK
<1>3. ASSUME drain'[d].pc \notin {"send", "succeed", "fail"}
      PROVE  EntryOK(drain[d])'
  BY <1>3 DEF EntryOK
<1>4. CASE UNCHANGED drain
  BY <1>2, <1>4
<1>5. CASE Tick
  BY <1>2, <1>3, <1>5 DEF Tick, DrainsType, DrainState
<1>6. ASSUME NEW i \in Isolates, Evict(i)
      PROVE  EntryOK(drain[d])'
  <2>1. drain'[d] = drain[d] \/ drain'[d] = Idle(i)
    BY <1>6 DEF Evict
  <2>2. Idle(i).pc = "idle"
    BY DEF Idle
  <2> QED
    BY <1>2, <1>3, <2>1, <2>2
<1>7. ASSUME NEW f \in Drains, DrainStep(f)
      PROVE  EntryOK(drain[d])'
  <2>1. CASE f # d
    <3>1. \E s : drain' = [drain EXCEPT ![f] = s]
      BY <1>7 DEF DrainStep, Begin, Read, ReadReturns, ReadFails, Start, EndPaused, End, Stop,
                  GoTo, SweepSettles, Lease, Send, MarkSucceeded, MarkFailed
    <3>2. drain'[d] = drain[d]
      BY <2>1, <3>1 DEF DrainsType
    <3> QED
      BY <1>2, <3>2
  <2>2. CASE f = d /\ Send(d)
    <3>1. drain[d].pc = "send" /\ drain[d].cur \in Sends /\ EventOf(drain[d].cur) \in Events
      BY <2>2, <1>1, KeyEvents DEF Send, EntryOK
    <3>2. CASE drain' = [drain EXCEPT ![d].pc = "fail"]
      BY <3>1, <3>2 DEF EntryOK, DrainsType, DrainState
    <3>3. CASE Accepted(drain[d].to, drain[d].cur) /\ drain' = [drain EXCEPT ![d].pc = "succeed"]
      <4>1. Handed(EventOf(drain[d].cur))'
        BY <3>1, <3>3, KeyEvents DEF Accepted, StartRun, Handed, WorkType
      <4> QED
        BY <3>1, <3>3, <4>1 DEF EntryOK, DrainsType, DrainState
    <3> QED
      BY <2>2, <3>2, <3>3 DEF Send
  <2>3. ASSUME f = d, NEW e \in Events, Lease(d, e)
        PROVE  EntryOK(drain[d])'
    <3>1. row[e].status \in {"pending", "leased"}
      BY <2>3 DEF Lease, LeaseRows, Leasable, InStatus
    <3>2. <<e, row[e].attempts>> \in Sends
      BY <3>1, OutboxAssumption DEF OutboxTypeOK, Row, AttemptsCapped, Sends, Generations
    <3>3. drain'[d].pc = "send" /\ drain'[d].cur = <<e, row[e].attempts>>
      BY <2>3 DEF Lease, DrainsType, DrainState
    <3> QED
      BY <3>2, <3>3 DEF EntryOK
  <2>4. CASE f = d /\ (MarkSucceeded(d) \/ MarkFailed(d))
    <3>1. drain[d].cur \in Sends
      BY <2>4, <1>1 DEF MarkSucceeded, MarkFailed, EntryOK
    <3>2. CASE drain' = [drain EXCEPT ![d].pc = "fail"]
      BY <3>1, <3>2 DEF EntryOK, DrainsType, DrainState
    <3>3. CASE GoTo(d, "lease") \/ Stop(d)
      <4>1. CASE GoTo(d, "lease")
        BY <1>3, <4>1 DEF GoTo, Idle, DrainsType
      <4>2. CASE Stop(d)
        BY <1>3, <4>2 DEF Stop, Idle, DrainsType
      <4> QED
        BY <3>3, <4>1, <4>2
    <3> QED
      BY <2>4, <3>2, <3>3 DEF MarkSucceeded, MarkFailed
  <2>5. ASSUME f = d, NEW e \in Events, SweepSettles(d, e)
        PROVE  EntryOK(drain[d])'
    <3>1. drain'[d].pc = "lease"
      BY <2>5 DEF SweepSettles, GoTo, Idle, DrainsType
    <3> QED
      BY <1>3, <3>1
  <2>6. ASSUME f = d, \/ \E i \in Isolates : Begin(d, i)
                      \/ Read(d) \/ ReadReturns(d) \/ ReadFails(d)
                      \/ \E pc \in {"settle", "lease"} : Start(d, pc)
                      \/ EndPaused(d) \/ End(d)
        PROVE  EntryOK(drain[d])'
    <3>1. drain'[d].pc \in {"idle", "reading", "read", "decided", "settle", "lease"}
      <4>1. ASSUME NEW i \in Isolates, Begin(d, i)
            PROVE  drain'[d].pc \in {"decided", "reading"}
        BY <4>1 DEF Begin, Idle, DrainsType
      <4>2. CASE Read(d) \/ ReadReturns(d) \/ ReadFails(d)
        BY <4>2 DEF Read, ReadReturns, ReadFails, DrainsType, DrainState
      <4>3. ASSUME NEW pc \in {"settle", "lease"}, Start(d, pc)
            PROVE  drain'[d].pc = pc
        BY <4>3 DEF Start, Idle, DrainsType
      <4>4. CASE EndPaused(d) \/ End(d)
        BY <4>4 DEF EndPaused, End, Stop, Idle, DrainsType
      <4> QED
        BY <2>6, <4>1, <4>2, <4>3, <4>4
    <3> QED
      BY <1>3, <3>1
  <2> QED
    BY <1>7, <2>1, <2>2, <2>3, <2>4, <2>5, <2>6 DEF DrainStep
<1>8. CASE ~(Tick \/ (\E i \in Isolates : Evict(i)) \/ (\E f \in Drains : DrainStep(f)))
  <2>1. UNCHANGED drain
    BY <1>8 DEF Next, vars, OperatorStep, Review, ClearOverride, SetOverride, SetPaused, Change,
                EventStep, Commit, LeaseTimeout, OperatorSettle, Deliver, DeadLetter,
                RunStep, RunCompletes, RunRejects, RunEnds
  <2> QED
    BY <1>4, <2>1
<1> QED
  BY <1>5, <1>6, <1>7, <1>8

\* Only MarkSucceeded records an event as dispatched.
LEMMA DispatchedByMark ==
    ASSUME IInv, [Next]_vars, NEW e \in Events,
           row'[e].status = "succeeded", row[e].status # "succeeded"
    PROVE  \E d \in Drains : MarkSucceeded(d) /\ e = EventOf(drain[d].cur)
<1> USE DEF IInv, OutboxTypeOK, Row, controls, work, InStatus
<1>1. CASE UNCHANGED row
  BY <1>1
<1>2. ASSUME NEW f \in Events,
             Append(f) \/ LeaseRunsOut(f) \/ Fail(f) \/ SettleDead(f) \/ SettleAgain(f) \/ Reject(f)
      PROVE  FALSE
  BY <1>2 DEF Append, LeaseRunsOut, Fail, SettleDead, SettleAgain, Reject
<1>3. ASSUME NEW f \in Events, LeaseRows({f})
      PROVE  FALSE
  BY <1>3 DEF LeaseRows
<1>4. ASSUME NEW f \in Events, EventStep(f)
      PROVE  FALSE
  BY <1>2, <1>4 DEF EventStep, Commit, LeaseTimeout, OperatorSettle
<1>5. ASSUME NEW d \in Drains, DrainStep(d)
      PROVE  MarkSucceeded(d) /\ e = EventOf(drain[d].cur)
  <2>1. CASE MarkSucceeded(d)
    <3>1. EventOf(drain[d].cur) \in Events
      BY <2>1, KeyEvents DEF MarkSucceeded, EntriesInv
    <3>2. Succeed(EventOf(drain[d].cur))
      BY <2>1 DEF MarkSucceeded, outboxVars
    <3> QED
      BY <2>1, <3>1, <3>2 DEF Succeed
  <2>2. CASE MarkFailed(d)
    <3>1. EventOf(drain[d].cur) \in Events
      BY <2>2, KeyEvents DEF MarkFailed, EntriesInv
    <3> QED
      BY <1>2, <2>2, <3>1 DEF MarkFailed, outboxVars
  <2>3. ASSUME NEW f \in Events, SweepSettles(d, f) \/ Lease(d, f)
        PROVE  FALSE
    BY <1>2, <1>3, <2>3 DEF SweepSettles, Lease, outboxVars
  <2>4. CASE \/ \E i \in Isolates : Begin(d, i)
             \/ Read(d) \/ ReadReturns(d) \/ ReadFails(d)
             \/ \E pc \in {"settle", "lease"} : Start(d, pc)
             \/ EndPaused(d) \/ End(d) \/ Send(d)
    BY <1>1, <2>4 DEF Begin, Read, ReadReturns, ReadFails, Start, EndPaused, End, Send, outboxVars
  <2> QED
    BY <1>5, <2>1, <2>2, <2>3, <2>4 DEF DrainStep
<1>6. ASSUME NEW k \in Keys, RunStep(k)
      PROVE  FALSE
  BY <1>2, <1>6, KeyEvents DEF RunStep, RunCompletes, RunRejects, RunEnds, outboxVars
<1>7. CASE \/ Tick \/ UNCHANGED vars \/ \E o \in Operators : OperatorStep(o)
           \/ \E i \in Isolates : Evict(i)
           \/ \E m \in Sends : Deliver(m) \/ DeadLetter(m)
  BY <1>7 DEF Tick, vars, outboxVars, OperatorStep, Review, ClearOverride, SetOverride,
              SetPaused, Change, Evict, Deliver, DeadLetter
<1> QED
  BY <1>4, <1>5, <1>6, <1>7 DEF Next

-----------------------------------------------------------------------------
(* The theorems *)

LEMMA Initially == Init => IInv
<1> SUFFICES ASSUME Init PROVE IInv
  OBVIOUS
<1> USE RuntimesAssumption, OutboxAssumption DEF Init
<1>1. OutboxTypeOK /\ AttemptsCapped
  BY DEF OutboxInit, OutboxTypeOK, Row, Statuses, AttemptsCapped
<1>2. NoOverride \in Config /\ NoOverride.version = 0
  BY DEF NoOverride, Config
<1>3. ControlType
  BY <1>2 DEF ControlType, NoCache
<1>4. WorkType
  BY DEF WorkType
<1>5. \A d \in Drains : \E i \in Isolates : drain[d] = Idle(i)
  OBVIOUS
<1>6. DrainsType
  BY <1>3, <1>5, IdleCalm DEF DrainsType
<1>7. \A d \in Drains : drain[d].pc = "idle" /\ drain[d].floor = 0
  BY <1>5 DEF Idle
<1>8. RecentInv
  BY <1>2, <1>7 DEF RecentInv, PastInv, CachesAreRecent, Fresh, NoCache,
                    ReadsAreRecent, TargetsAreRecent
<1>9. ReviewsInv
  BY <1>2, UnreadVersion DEF ReviewsInv
<1>10. EntriesInv
  BY <1>7 DEF EntriesInv
<1>11. HandedOver
  BY DEF HandedOver, OutboxInit
<1> QED
  BY <1>1, <1>3, <1>4, <1>6, <1>8, <1>9, <1>10, <1>11 DEF IInv

LEMMA Inductive ==
    ASSUME IInv, [Next]_vars
    PROVE  IInv'
<1>1. OutboxTypeOK' /\ AttemptsCapped'
  BY StepsOutbox, OutboxStep DEF IInv
<1>2. HandedOver'
  <2> SUFFICES ASSUME NEW e \in Events, row'[e].status = "succeeded"
               PROVE  Handed(e)'
    BY DEF HandedOver
  <2>1. CASE row[e].status = "succeeded"
    BY <2>1, WorkStays DEF IInv, HandedOver
  <2>2. CASE row[e].status # "succeeded"
    <3>1. PICK d \in Drains : MarkSucceeded(d) /\ e = EventOf(drain[d].cur)
      BY <2>2, DispatchedByMark
    <3>2. Handed(e)
      BY <3>1 DEF IInv, EntriesInv, MarkSucceeded
    <3> QED
      BY <3>2, WorkStays
  <2> QED
    BY <2>1, <2>2
<1> QED
  BY <1>1, <1>2, ControlStep, WorkStays, EntriesStay DEF IInv

\* The inductive invariant of the job runtimes: the types and the attempt cap,
\* how recent every kept configuration is, whom a version identifies, and what
\* drains and runtimes hold of each event.
THEOREM RuntimesInvariant == Spec => []IInv
<1>1. IInv /\ [Next]_vars => IInv'
  BY Inductive
<1> QED
  BY Initially, <1>1, PTL DEF Spec

\* No drain acts on a configuration that was replaced CacheTime before it
\* began, for any cache time, number of isolates and interleaving of reads.
THEOREM TargetsRecent == Spec => []RuntimesInv
<1>1. IInv => RuntimesInv
  BY DEF IInv, RuntimesInv, RecentInv, TypeOK, ControlType, DrainsType, WorkType
<1> QED
  BY RuntimesInvariant, <1>1, PTL

\* Every event recorded as dispatched was handed to a runtime that still has it
\* or ran it.
THEOREM NothingDropped == Spec => []HandedOver
<1>1. IInv => HandedOver
  BY DEF IInv
<1> QED
  BY RuntimesInvariant, <1>1, PTL

\* Drains that follow a changing override drive the outbox only by the store's
\* statements, as event delivery does.
THEOREM RuntimesDriveOutbox == Spec => OutboxSpec
<1>1. Init => OutboxInit
  BY DEF Init
<1>2. IInv /\ [Next]_vars => [OutboxNext]_outboxVars
  BY StepsOutbox DEF IInv
<1> QED
  BY <1>1, <1>2, RuntimesInvariant, PTL DEF Spec, OutboxSpec

\* Switching runtimes and pausing dispatch leave a row's counted failures and
\* settlements within the cap and its redrives (a send of a drain that stops is not
\* counted).
THEOREM SwitchesKeepTheCount == Spec => []AttemptsCapped
<1>1. IInv => AttemptsCapped
  BY DEF IInv
<1> QED
  BY RuntimesInvariant, <1>1, PTL

\* No drain revives a dead letter, whichever runtime its configuration names.
THEOREM SwitchesReviveNothing == Spec => DeadUntilRedriven
<1> DEFINE A == \A e \in Events :
                  row[e].status = "dead" /\ row'[e].status # "dead"
                    => redrives'[e] = redrives[e] + 1
<1>1. IInv /\ [Next]_vars => [A]_outboxVars
  <2> SUFFICES ASSUME IInv, [Next]_vars
               PROVE  A
    OBVIOUS
  <2>1. OutboxTypeOK /\ [OutboxNext]_outboxVars
    BY StepsOutbox DEF IInv
  <2> QED
    BY <2>1, OutboxStepDead
<1> QED
  BY RuntimesInvariant, <1>1, PTL DEF Spec, DeadUntilRedriven

\* A change replaces exactly the configuration its operator reviewed.
THEOREM ReviewedChanges == Spec => ChangesAreReviewed
<1> DEFINE A == \A o \in Operators : ChangeOf(o) => reviewed[o] = config
<1>1. ASSUME IInv, [Next]_vars
      PROVE  [A]_vars
  <2> SUFFICES ASSUME NEW o \in Operators, ChangeOf(o)
               PROVE  reviewed[o] = config
    OBVIOUS
  <2>1. reviewed[o] # Unread /\ reviewed'[o] = Unread
    BY DEF ChangeOf
  <2>2. config # Unread
    <3>1. config.version \in Nat
      BY <1>1, RuntimesAssumption DEF IInv, ControlType, Config
    <3> QED
      BY <3>1, UnreadVersion
  <2>3. ASSUME NEW p \in Operators, Review(p)
        PROVE  FALSE
    BY <1>1, <2>1, <2>2, <2>3 DEF Review, IInv, ControlType
  <2>4. ASSUME NEW p \in Operators, NEW c, Change(p, c)
        PROVE  reviewed[o] = config
    <3>1. p = o
      BY <1>1, <2>1, <2>4 DEF Change, IInv, ControlType
    <3>2. reviewed[o].version = config.version
      BY <2>4, <3>1 DEF Change
    <3> QED
      BY <1>1, <3>2 DEF IInv, ReviewsInv
  <2>5. CASE UNCHANGED reviewed
    BY <2>1, <2>5
  <2>6. CASE \E p \in Operators : OperatorStep(p)
    BY <2>3, <2>4, <2>6 DEF OperatorStep, ClearOverride, SetOverride, SetPaused
  <2>7. CASE ~\E p \in Operators : OperatorStep(p)
    <3>1. UNCHANGED reviewed
      BY <2>7, <1>1 DEF Next, vars, controls, Tick, EventStep, Commit, LeaseTimeout, OperatorSettle,
                  DrainStep, Begin, Read, ReadReturns, ReadFails, Start, EndPaused, End,
                  SweepSettles, Lease, Send, MarkSucceeded, MarkFailed, Evict, Deliver,
                  DeadLetter, RunStep, RunCompletes, RunRejects, RunEnds
    <3> QED
      BY <2>5, <3>1
  <2> QED
    BY <2>6, <2>7
<1>2. Spec => [][A]_vars
  BY RuntimesInvariant, <1>1, PTL DEF Spec
<1> QED
  BY <1>2 DEF ChangesAreReviewed
=============================================================================
